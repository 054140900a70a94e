-------------------------- MODULE LoginFlow_proofs --------------------------
(***************************************************************************)
(* Theorems about LoginFlow, for any number of requests, logins, issuers   *)
(* and domains, with one transaction cookie and with one for each login.   *)
(***************************************************************************)
EXTENDS LoginFlow, FiniteSetTheorems, TLAPS

-----------------------------------------------------------------------------
(* The inductive invariant.  A state is known once the browser was sent to *)
(* its issuer: a state that is not known is in no cookie and no callback.  *)
Known(s) == s \in States /\ answer[s] # "none"

\* The transaction of a state keeps its origin, unless it connects an account.
Kept(s) == txn[s].mode = "connect" \/ txn[s].issuer \in Issuers

\* The session of a login carries the domain of its issuer.
Fits(s) == s.by = "login" => s.tag = DomainOf[s.iss]

MaybeState == States \cup {NoState}

RequestType ==
    [kind : {"login", "callback", "direct", "touch", "logout"},
     pc : {"idle", "exchange", "respond"}, client : Issuers \cup {NoIssuer},
     state : MaybeState, at : MaybeState, clear : SUBSET States, write : BOOLEAN,
     read : Sessions, session : Sessions, used : Sessions]

\* What is of the request alone.
RequestFits(q) ==
    /\ q \in RequestType
    /\ q.pc # "idle" => q.client \in Issuers
    /\ Fits(q.read) /\ Fits(q.session)
    /\ q.used.by = "login" => /\ q.used.tag = DomainOf[q.used.iss]
                              /\ q.used.tag = DomainOf[q.client]

\* A login that was not answered yet has a state of its own.
LoginFresh(q) ==
    q.kind = "login" => /\ q.pc = "respond" /\ q.state \in States
                        /\ answer[q.state] = "none" /\ Kept(q.state)

\* A callback has the state of a login that was answered, and exchanges its code
\* with its own transaction at its own issuer.
CallbackFits(q) ==
    /\ q.kind = "callback" => Known(q.state)
    /\ q.pc = "exchange" =>
         /\ q.kind = "callback" /\ Known(q.at)
         /\ txn[q.at].mode # "connect" => q.at = q.state /\ q.client = txn[q.at].issuer

\* What a response deletes: known transactions; of a callback its own, unless the
\* browser had none; and none that is on its way, but its own.
ClearFits(q) ==
    /\ \A s \in q.clear : Known(s)
    /\ q.kind = "callback" /\ q.pc = "respond" =>
         q.clear = {q.state} \/ q.state \notin jar
    /\ parallel => q.clear \cap pending \subseteq {q.state}

RequestInv(q) == RequestFits(q) /\ LoginFresh(q) /\ CallbackFits(q) /\ ClearFits(q)

LoginsApart ==
    \A q, r \in Requests : q # r /\ req[q].kind = "login" => req[r].state # req[q].state

TransactionsInv ==
    /\ parallel \in BOOLEAN
    /\ txn \in [States -> [issuer : Issuers \cup {NoIssuer}, mode : Modes \cup {"redirect"}]]
    /\ answer \in [States -> {"none", "waiting", "code", "spent", "error"}]
    /\ \A s \in States : Known(s) => Kept(s)

CookiesInv ==
    /\ \A s \in jar \cup pending \cup answered : Known(s)
    /\ ~parallel => \A s, t \in jar : s = t
    /\ parallel => pending \subseteq jar
    /\ answered \cap jar = {}
    /\ session \in Sessions /\ Fits(session)

ExchangesInv ==
    \A e \in exchanges : Known(e.code) /\ e.txn = e.code /\ e.client = txn[e.code].issuer

RequestsInv ==
    /\ DOMAIN req = Requests
    /\ req \in [Requests -> RequestType]
    /\ \A r \in Requests : RequestInv(req[r])
    /\ LoginsApart

LoginInv == TransactionsInv /\ CookiesInv /\ ExchangesInv /\ RequestsInv

-----------------------------------------------------------------------------
(* The domain check.                                                       *)

\* A session that is checked for a client keeps its origin, and a login's is let
\* through for its own domain only.
LEMMA CheckedFits ==
  ASSUME NEW c \in Issuers, NEW s \in Sessions, Fits(s)
  PROVE  /\ Checked(c, s) \in Sessions /\ Fits(Checked(c, s))
         /\ Checked(c, s).by = "login" => Checked(c, s).tag = DomainOf[c]
<1> USE LoginFlowAssumption
<1>1. CASE s = NoSession
  BY <1>1 DEF Checked, NoSession, Sessions, Fits
<1>2. CASE s # NoSession /\ Mismatch(c, s)
  BY <1>2 DEF Checked, NoSession, Sessions, Fits
<1>3. CASE s # NoSession /\ ~Mismatch(c, s) /\ s.tag = NoDomain
  <2>1. s \in [iss : Issuers, tag : Domains \cup {NoDomain}, by : {"login", "popup"}]
    BY <1>3 DEF Sessions
  <2>2. Checked(c, s) = [s EXCEPT !.tag = DomainOf[s.iss]]
    BY <1>3 DEF Checked
  <2>3. s.by # "login"
    BY <1>3, <2>1 DEF Fits
  <2> QED BY <2>1, <2>2, <2>3 DEF Sessions, Fits
<1>4. CASE s # NoSession /\ ~Mismatch(c, s) /\ s.tag # NoDomain
  BY <1>4 DEF Checked, Mismatch, Fits
<1> QED BY <1>1, <1>2, <1>3, <1>4

\* Whatever the hook does, the session that is saved is the one that was made.
LEMMA SavingIs ==
  ASSUME NEW q, NEW s \in Sessions, NEW q2 \in Saving(q, s)
  PROVE  q2 = [Failure(q) EXCEPT !.write = TRUE, !.session = s]
<1>1. PICK h \in Hooked(s) :
        q2 = [Failure(q) EXCEPT !.write = TRUE, !.session = finalizeSession(s, h)]
  BY DEF Saving
<1>2. finalizeSession(s, h) = s
  BY DEF finalizeSession, Hooked, Sessions, NoSession
<1> QED BY <1>1, <1>2

-----------------------------------------------------------------------------
(* What a step does to the requests it leaves alone.                       *)

\* What was known stays so, with its transaction; and what was not is all that
\* comes into the browser or on its way.
Grows ==
    /\ parallel' = parallel
    /\ \A s \in States : Known(s) => Known(s)' /\ txn'[s] = txn[s]
    /\ \A s \in jar' : s \in jar \/ ~Known(s)
    /\ \A s \in pending' : s \in pending \/ ~Known(s)

Undisturbed(p) ==
    req[p].kind = "login" =>
        answer'[req[p].state] = "none" /\ txn'[req[p].state] = txn[req[p].state]

\* A request that a step leaves alone keeps its invariant.
LEMMA RequestKept ==
  ASSUME NEW p \in Requests, RequestInv(req[p]), req'[p] = req[p], Grows, Undisturbed(p)
  PROVE  RequestInv(req[p])'
<1>1. RequestFits(req[p])'
  BY DEF RequestInv, RequestFits, RequestType, Fits, Sessions
<1>2. LoginFresh(req[p])'
  BY DEF RequestInv, LoginFresh, Kept, Undisturbed
<1>3. CallbackFits(req[p])'
  BY DEF RequestInv, CallbackFits, Grows, Known
<1>4. ClearFits(req[p])'
  <2>1. \A s \in req[p].clear : Known(s)
    BY DEF RequestInv, ClearFits
  <2>2. \A s \in req[p].clear : Known(s)'
    BY <2>1 DEF Grows, Known
  <2>3. ASSUME req[p].kind = "callback", req[p].pc = "respond"
        PROVE  req[p].clear = {req[p].state} \/ req[p].state \notin jar'
    BY <2>3 DEF RequestInv, ClearFits, CallbackFits, Grows
  <2>4. ASSUME parallel
        PROVE  req[p].clear \cap pending' \subseteq {req[p].state}
    BY <2>1, <2>4 DEF RequestInv, ClearFits, Grows
  <2> QED BY <2>2, <2>3, <2>4 DEF ClearFits, Grows
<1> QED BY <1>1, <1>2, <1>3, <1>4 DEF RequestInv

\* A step of one request, which does not become a login, keeps the others'.
LEMMA RequestsKept ==
  ASSUME RequestsInv, NEW r \in Requests, NEW q, req' = [req EXCEPT ![r] = q],
         q \in RequestType, q.kind # "login", q.state \in {NoState, req[r].state} \/ Known(q.state),
         Grows, \A p \in Requests \ {r} : Undisturbed(p), RequestInv(req[r])'
  PROVE  RequestsInv'
<1>1. DOMAIN req' = Requests /\ req'[r] = q /\ \A p \in Requests \ {r} : req'[p] = req[p]
  BY DEF RequestsInv
<1>2. \A p \in Requests \ {r} : RequestInv(req[p])'
  BY <1>1, RequestKept DEF RequestsInv
<1>3. RequestType' = RequestType
  BY DEF RequestType, MaybeState, Sessions
<1>4. req' \in [Requests -> RequestType]
  BY DEF RequestsInv
<1>5. LoginsApart'
  <2> SUFFICES ASSUME NEW p \in Requests, NEW t \in Requests, p # t, req'[p].kind = "login"
               PROVE  req'[t].state # req'[p].state
    BY DEF LoginsApart
  <2>1. p # r /\ req'[p] = req[p]
    BY <1>1
  <2>2. req[p].state \in States /\ answer[req[p].state] = "none"
    BY <2>1 DEF RequestsInv, RequestInv, LoginFresh
  <2>3. CASE t # r
    BY <1>1, <2>1, <2>3 DEF RequestsInv, LoginsApart
  <2>4. CASE t = r
    <3>1. req[r].state # req[p].state
      BY <2>1, <2>4 DEF RequestsInv, LoginsApart
    <3> QED BY <1>1, <2>1, <2>2, <2>4, <3>1, LoginFlowAssumption DEF Known
  <2> QED BY <2>3, <2>4
<1> QED BY <1>1, <1>2, <1>3, <1>4, <1>5 DEF RequestsInv

-----------------------------------------------------------------------------
(* Steps that change nothing but a request.                                *)
others == <<parallel, jar, session, txn, answer, pending, answered, exchanges>>

\* The rest of the invariant stays with what it is about.
LEMMA RestKept ==
  ASSUME LoginInv, UNCHANGED <<parallel, jar, session, txn, answer, pending, answered, exchanges>>
  PROVE  /\ TransactionsInv' /\ CookiesInv' /\ ExchangesInv'
         /\ Grows /\ \A p \in Requests : Undisturbed(p)
<1>1. TransactionsInv'
  BY DEF LoginInv, TransactionsInv, Known, Kept
<1>2. CookiesInv'
  BY DEF LoginInv, CookiesInv, Known, Fits, Sessions
<1>3. ExchangesInv'
  BY DEF LoginInv, ExchangesInv, Known
<1>4. Grows
  BY DEF Grows, Known
<1>5. \A p \in Requests : Undisturbed(p)
  BY DEF Undisturbed, LoginInv, RequestsInv, RequestInv, LoginFresh
<1> QED BY <1>1, <1>2, <1>3, <1>4, <1>5

\* A request becomes one that has the invariant and is not a login.
LEMMA RequestSteps ==
  ASSUME LoginInv, NEW r \in Requests, NEW q, req' = [req EXCEPT ![r] = q],
         RequestInv(q), q.kind # "login", q.state \in {NoState, req[r].state} \/ Known(q.state),
         UNCHANGED <<parallel, jar, session, txn, answer, pending, answered, exchanges>>
  PROVE  LoginInv'
<1>1. req'[r] = q
  BY DEF LoginInv, RequestsInv
<1>2. RequestInv(req[r])'
  BY <1>1 DEF RequestInv, RequestFits, RequestType, MaybeState, Fits, Sessions, LoginFresh, Kept,
              CallbackFits, ClearFits, Known
<1>3. RequestsInv'
  BY <1>2, RestKept, RequestsKept DEF LoginInv, RequestInv, RequestFits
<1> QED BY <1>3, RestKept DEF LoginInv

\* An idle request has the invariant.
LEMMA IdleFits == RequestInv(Idle) /\ Idle.kind # "login" /\ Idle.state = NoState
<1>1. RequestFits(Idle)
  BY DEF RequestFits, RequestType, MaybeState, Idle, NoSession, Sessions, Fits
<1>2. LoginFresh(Idle) /\ CallbackFits(Idle) /\ ClearFits(Idle)
  BY DEF LoginFresh, CallbackFits, ClearFits, Idle
<1> QED BY <1>1, <1>2 DEF RequestInv, Idle

\* So has one that begins, unless it is a login or a callback, if what it sets,
\* uses and clears fits.
LEMMA BegunFits ==
  ASSUME NEW kind \in {"direct", "touch", "logout"}, NEW c \in Issuers, NEW q \in RequestType,
         q.kind = kind, q.pc = "respond", q.client = c, q.state = NoState, q.read = NoSession,
         Fits(q.session), q.used.by = "login" => q.used.tag = DomainOf[q.used.iss]
                                                 /\ q.used.tag = DomainOf[c],
         q.clear = {}
  PROVE  RequestInv(q)
BY DEF RequestInv, RequestFits, LoginFresh, CallbackFits, ClearFits, Fits, NoSession

\* A request as it begins.
LEMMA RequestIs ==
  ASSUME NEW kind \in {"login", "callback", "direct", "touch", "logout"}, NEW c \in Issuers,
         NEW pc \in {"exchange", "respond"}
  PROVE  /\ Request(kind, c, pc) \in RequestType
         /\ Request(kind, c, pc) =
              [kind |-> kind, pc |-> pc, client |-> c, state |-> NoState,
               at |-> NoState, clear |-> {}, write |-> FALSE,
               read |-> NoSession, session |-> NoSession, used |-> NoSession]
<1>1. Request(kind, c, pc) =
        [kind |-> kind, pc |-> pc, client |-> c, state |-> NoState,
         at |-> NoState, clear |-> {}, write |-> FALSE,
         read |-> NoSession, session |-> NoSession, used |-> NoSession]
  <2> DEFINE k == [Idle EXCEPT !.kind = kind]
             d == [k EXCEPT !.client = c]
  <2>1. k = [Idle EXCEPT !.kind = kind]
    OBVIOUS
  <2>2. d = [k EXCEPT !.client = c]
    OBVIOUS
  <2>3. Request(kind, c, pc) = [d EXCEPT !.pc = pc]
    BY DEF Request
  <2> HIDE DEF k, d
  <2> QED BY <2>1, <2>2, <2>3 DEF Idle
<1>2. NoSession \in Sessions /\ NoState \in MaybeState /\ {} \in SUBSET States
  BY DEF Sessions, MaybeState
<1> QED BY <1>1, <1>2 DEF RequestType

LEMMA DirectLoginInv ==
  ASSUME LoginInv, NEW r \in Requests, NEW c \in Issuers, DirectLogin(r, c)
  PROVE  LoginInv'
<1> DEFINE s == [iss |-> c, tag |-> DomainOf[c], by |-> "login"]
           x == Request("direct", c, "respond")
           q == [x EXCEPT !.write = TRUE, !.session = s]
<1>0. /\ x \in RequestType /\ x.kind = "direct" /\ x.pc = "respond" /\ x.client = c
      /\ x.state = NoState /\ x.clear = {} /\ x.read = NoSession
      /\ x.session = NoSession /\ x.used = NoSession
  BY RequestIs
<1>1. s \in Sessions /\ Fits(s)
  BY LoginFlowAssumption DEF Sessions, Fits
<1>5. req' = [req EXCEPT ![r] = q] /\ UNCHANGED others
  BY DEF DirectLogin, Begin, others
<1> HIDE DEF s, x
<1>2. /\ q \in RequestType /\ q.kind = x.kind /\ q.pc = x.pc /\ q.client = x.client
      /\ q.state = x.state /\ q.clear = x.clear /\ q.read = x.read
  BY <1>0, <1>1 DEF RequestType
<1>3. q.session = s /\ q.used = x.used
  BY <1>0 DEF RequestType
<1>4. RequestInv(q)
  <2>1. q.used.by = "none" /\ Fits(q.session)
    BY <1>0, <1>1, <1>3 DEF NoSession
  <2> QED BY <1>0, <1>2, <2>1, BegunFits
<1> QED BY <1>0, <1>2, <1>4, <1>5, RequestSteps DEF others

LEMMA TouchInv ==
  ASSUME LoginInv, NEW r \in Requests, NEW c \in Issuers, Touch(r, c)
  PROVE  LoginInv'
<1> DEFINE s == Checked(c, session)
           x == Request("touch", c, "respond")
           q == [x EXCEPT !.write = s # NoSession, !.session = s, !.used = s]
<1>0. /\ x \in RequestType /\ x.kind = "touch" /\ x.pc = "respond" /\ x.client = c
      /\ x.state = NoState /\ x.clear = {} /\ x.read = NoSession
      /\ x.session = NoSession /\ x.used = NoSession
  BY RequestIs
<1>1. /\ s \in Sessions /\ Fits(s)
      /\ s.by = "login" => s.tag = DomainOf[c]
  BY CheckedFits DEF LoginInv, CookiesInv
<1>5. req' = [req EXCEPT ![r] = q] /\ UNCHANGED others
  BY DEF Touch, Begin, others
<1> HIDE DEF s, x
<1>2. /\ q \in RequestType /\ q.kind = x.kind /\ q.pc = x.pc /\ q.client = x.client
      /\ q.state = x.state /\ q.clear = x.clear /\ q.read = x.read
  BY <1>0, <1>1 DEF RequestType
<1>3. q.session = s /\ q.used = s
  BY <1>0 DEF RequestType
<1>4. RequestInv(q)
  BY <1>0, <1>1, <1>2, <1>3, BegunFits DEF Fits
<1> QED BY <1>0, <1>2, <1>4, <1>5, RequestSteps DEF others

LEMMA VisitInv ==
  ASSUME LoginInv, NEW r \in Requests, NEW c \in Issuers, Visit(r, c)
  PROVE  LoginInv'
<1> DEFINE s == Checked(c, session)
           x == Request("touch", c, "respond")
           q == [x EXCEPT !.used = s]
<1>0. /\ x \in RequestType /\ x.kind = "touch" /\ x.pc = "respond" /\ x.client = c
      /\ x.state = NoState /\ x.clear = {} /\ x.read = NoSession
      /\ x.session = NoSession /\ x.used = NoSession
  BY RequestIs
<1>1. /\ s \in Sessions /\ Fits(s)
      /\ s.by = "login" => s.tag = DomainOf[c]
  BY CheckedFits DEF LoginInv, CookiesInv
<1>5. req' = [req EXCEPT ![r] = q] /\ UNCHANGED others
  BY DEF Visit, Begin, others
<1> HIDE DEF s, x
<1>2. /\ q \in RequestType /\ q.kind = x.kind /\ q.pc = x.pc /\ q.client = x.client
      /\ q.state = x.state /\ q.clear = x.clear /\ q.read = x.read
  BY <1>0, <1>1 DEF RequestType
<1>3. q.session = x.session /\ q.used = s
  BY <1>0 DEF RequestType
<1>4. RequestInv(q)
  <2>1. Fits(q.session) /\ Fits(q.used)
    BY <1>0, <1>1, <1>3 DEF Fits, NoSession
  <2> QED BY <1>0, <1>1, <1>2, <1>3, <2>1, BegunFits DEF Fits
<1> QED BY <1>0, <1>2, <1>4, <1>5, RequestSteps DEF others

\* A request ends: a login that has no URL to go to, and any that fails.
LEMMA FailInv ==
  ASSUME LoginInv, NEW r \in Requests, Fail(r) \/ authorizationUrlFails(r)
  PROVE  LoginInv'
BY IdleFits, RequestSteps DEF Fail, authorizationUrlFails

-----------------------------------------------------------------------------
(* Callbacks.                                                              *)

\* The response to a callback: what it has left of the request.
LEMMA FailureIs ==
  ASSUME NEW q \in RequestType, q.state \in States
  PROVE  LET f == Failure(q)
         IN  /\ f \in RequestType /\ f.kind = q.kind /\ f.pc = "respond"
             /\ f.client = q.client /\ f.state = q.state /\ f.clear = {q.state}
             /\ f.read = NoSession /\ f.session = q.session /\ f.used = q.used
<1>1. {q.state} \in SUBSET States /\ NoSession \in Sessions
  BY DEF Sessions
<1> QED BY <1>1 DEF Failure, RequestType

\* It has the invariant if what it sets and what it used fit.
LEMMA ResponseFits ==
  ASSUME NEW q, RequestFits(q), q.kind = "callback", q.pc = "exchange", Known(q.state),
         NEW f, f \in RequestType, f.kind = "callback", f.pc = "respond",
         f.client = q.client, f.state = q.state, f.clear = {q.state}, f.read = NoSession,
         Fits(f.session),
         f.used.by = "login" => f.used.tag = DomainOf[f.used.iss]
                                /\ f.used.tag = DomainOf[q.client]
  PROVE  RequestInv(f)
<1>1. RequestFits(f)
  BY DEF RequestFits, Fits, NoSession
<1> QED BY <1>1 DEF RequestInv, LoginFresh, CallbackFits, ClearFits

\* So has a failure: nothing is written, and what was used is as it was.
LEMMA FailureFits ==
  ASSUME NEW q, RequestFits(q), q.kind = "callback", q.pc = "exchange", Known(q.state)
  PROVE  RequestInv(Failure(q)) /\ Failure(q).kind = "callback" /\ Failure(q).state = q.state
<1> DEFINE f == Failure(q)
<1>1. q \in RequestType /\ q.state \in States
  BY DEF RequestFits, Known
<1>2. /\ f \in RequestType /\ f.kind = q.kind /\ f.pc = "respond"
      /\ f.client = q.client /\ f.state = q.state /\ f.clear = {q.state}
      /\ f.read = NoSession /\ f.session = q.session /\ f.used = q.used
  BY <1>1, FailureIs
<1>3. /\ Fits(q.session)
      /\ q.used.by = "login" => q.used.tag = DomainOf[q.used.iss]
                                /\ q.used.tag = DomainOf[q.client]
  BY DEF RequestFits
<1> HIDE DEF f
<1>4. RequestInv(f)
  BY <1>2, <1>3, ResponseFits
<1> QED BY <1>2, <1>4 DEF f

\* An exchange is of a callback that has its own transaction.
LEMMA ExchangingFits ==
  ASSUME LoginInv, NEW r \in Requests, NEW modes, Exchanging(r, modes)
  PROVE  LET q == req[r]
         IN  /\ RequestFits(q) /\ q.kind = "callback" /\ q.pc = "exchange" /\ Known(q.state)
             /\ q.client \in Issuers /\ q.read \in Sessions /\ Fits(q.read)
             /\ "connect" \notin modes => q.at = q.state /\ q.client = txn[q.state].issuer
BY DEF LoginInv, RequestsInv, RequestInv, RequestFits, RequestType, CallbackFits, Exchanging

LEMMA CallbackInv ==
  ASSUME LoginInv, NEW r \in Requests, NEW c \in Issuers, NEW s \in States, Callback(r, c, s)
  PROVE  LoginInv'
<1>1. Known(s)
  BY DEF Callback, Known
<1>2. UNCHANGED <<parallel, jar, session, txn, answer, pending, answered, exchanges>>
  BY DEF Callback
<1>3. CASE Named(s) = {} /\ Begin(r, [Request("callback", c, "respond") EXCEPT !.state = s])
  <2> DEFINE x == Request("callback", c, "respond")
             q == [x EXCEPT !.state = s]
  <2>1. /\ x \in RequestType /\ x.kind = "callback" /\ x.pc = "respond" /\ x.client = c
        /\ x.clear = {} /\ x.read = NoSession /\ x.session = NoSession /\ x.used = NoSession
    BY RequestIs
  <2>2. req' = [req EXCEPT ![r] = q]
    BY <1>3 DEF Begin
  <2> HIDE DEF x
  <2>3. /\ q \in RequestType /\ q.kind = "callback" /\ q.pc = "respond" /\ q.client = c
        /\ q.state = s /\ q.clear = {} /\ q.read = NoSession /\ q.session = NoSession
        /\ q.used = NoSession
    BY <2>1 DEF RequestType, MaybeState
  <2> HIDE DEF q
  <2>4. s \notin jar
    BY <1>3 DEF Named
  <2>5. RequestFits(q)
    BY <2>3 DEF RequestFits, Fits, NoSession
  <2>6. RequestInv(q)
    BY <1>1, <2>3, <2>4, <2>5 DEF RequestInv, LoginFresh, CallbackFits, ClearFits
  <2> QED BY <1>1, <1>2, <2>2, <2>3, <2>6, RequestSteps
<1>4. ASSUME NEW t \in Named(s),
             Begin(r, LET q == [Request("callback", Delegated(c, t), "exchange")
                                  EXCEPT !.state = s, !.at = t, !.read = session]
                      IN  IF txn[t].mode = "connect" \/ Valid(s, t) THEN q ELSE Failure(q))
      PROVE  LoginInv'
  <2> DEFINE d == Delegated(c, t)
             x == Request("callback", d, "exchange")
             q == [x EXCEPT !.state = s, !.at = t, !.read = session]
  <2>1. Known(t) /\ Kept(t)
    BY <1>4 DEF Named, LoginInv, CookiesInv, TransactionsInv, Known
  <2>2. d \in Issuers /\ (txn[t].mode # "connect" => d = txn[t].issuer)
    BY <2>1, LoginFlowAssumption DEF Delegated, Kept, LoginInv, TransactionsInv, Known
  <2> HIDE DEF d
  <2>3. /\ x \in RequestType /\ x.kind = "callback" /\ x.pc = "exchange" /\ x.client = d
        /\ x.clear = {} /\ x.session = NoSession /\ x.used = NoSession
    BY <2>2, RequestIs
  <2>4. req' = [req EXCEPT ![r] = IF txn[t].mode = "connect" \/ Valid(s, t) THEN q
                                  ELSE Failure(q)]
    BY <1>4 DEF Begin, d
  <2>5. session \in Sessions /\ Fits(session)
    BY DEF LoginInv, CookiesInv
  <2> HIDE DEF x
  <2>6. /\ q \in RequestType /\ q.kind = "callback" /\ q.pc = "exchange" /\ q.client = d
        /\ q.state = s /\ q.at = t /\ q.clear = {} /\ q.read = session
        /\ q.session = NoSession /\ q.used = NoSession
    BY <2>1, <2>3, <2>5 DEF RequestType, MaybeState, Known
  <2> HIDE DEF q
  <2>7. RequestFits(q)
    BY <2>2, <2>5, <2>6 DEF RequestFits, Fits, NoSession
  <2>8. CASE txn[t].mode = "connect" \/ Valid(s, t)
    <3>1. RequestInv(q)
      BY <1>1, <2>1, <2>2, <2>6, <2>7, <2>8
      DEF RequestInv, LoginFresh, CallbackFits, ClearFits, Valid
    <3> QED BY <1>1, <1>2, <2>4, <2>6, <2>8, <3>1, RequestSteps
  <2>9. CASE ~(txn[t].mode = "connect" \/ Valid(s, t))
    BY <1>1, <1>2, <2>4, <2>6, <2>7, <2>9, FailureFits, RequestSteps
  <2> QED BY <2>8, <2>9
<1> QED BY <1>3, <1>4 DEF Callback

\* An account that is connected changes nothing but the request.
LEMMA CompleteConnectInv ==
  ASSUME LoginInv, NEW r \in Requests, CompleteConnect(r)
  PROVE  LoginInv'
<1> DEFINE q == req[r]
           u == Checked(q.client, q.read)
           f == Failure(q)
           q2 == [f EXCEPT !.used = u]
<1>1. /\ RequestFits(q) /\ q.kind = "callback" /\ q.pc = "exchange" /\ Known(q.state)
      /\ q.client \in Issuers /\ q.read \in Sessions /\ Fits(q.read)
  BY ExchangingFits DEF CompleteConnect
<1>2. u \in Sessions /\ (u.by = "login" => u.tag = DomainOf[u.iss] /\ u.tag = DomainOf[q.client])
  BY <1>1, CheckedFits DEF Fits
<1>3. /\ req' = [req EXCEPT ![r] = q2] /\ q.state = req[r].state
      /\ UNCHANGED <<parallel, jar, session, txn, answer, pending, answered, exchanges>>
  BY DEF CompleteConnect
<1>4. q \in RequestType /\ q.state \in States /\ Fits(q.session)
  BY <1>1 DEF RequestFits, Known
<1>5. /\ f \in RequestType /\ f.kind = q.kind /\ f.pc = "respond"
      /\ f.client = q.client /\ f.state = q.state /\ f.clear = {q.state}
      /\ f.read = NoSession /\ f.session = q.session
  BY <1>4, FailureIs
<1> HIDE DEF q, u, f
<1>6. /\ q2 \in RequestType /\ q2.kind = q.kind /\ q2.pc = "respond"
      /\ q2.client = q.client /\ q2.state = q.state /\ q2.clear = {q.state}
      /\ q2.read = NoSession /\ q2.session = q.session /\ q2.used = u
  BY <1>2, <1>5 DEF RequestType
<1> HIDE DEF q2
<1>7. RequestInv(q2)
  BY <1>1, <1>2, <1>4, <1>6, ResponseFits
<1>8. q2.kind # "login" /\ q2.state \in {NoState, req[r].state}
  BY <1>1, <1>3, <1>6
<1> QED BY <1>3, <1>7, <1>8, RequestSteps

-----------------------------------------------------------------------------
(* The exchange of a code.                                                 *)

\* A code is exchanged, or refused, and the request becomes a response.
LEMMA ExchangeSteps ==
  ASSUME LoginInv, NEW r \in Requests, NEW modes, "connect" \notin modes, Exchanging(r, modes),
         NEW accepted \in BOOLEAN, Exchange(r, accepted),
         NEW q, req' = [req EXCEPT ![r] = q], RequestInv(q), q.kind = "callback",
         q.state = req[r].state
  PROVE  LoginInv'
<1> DEFINE s == req[r].state
<1>1. Known(s) /\ req[r].at = s /\ req[r].client = txn[s].issuer
  BY ExchangingFits
<1>2. UNCHANGED <<parallel, jar, session, txn, pending, answered>>
  BY DEF Exchange
<1>3. /\ answer' \in [States -> {"none", "waiting", "code", "spent", "error"}]
      /\ \A t \in States : answer'[t] = answer[t] \/ (t = s /\ answer'[t] = "spent")
  <2>1. answer \in [States -> {"none", "waiting", "code", "spent", "error"}]
    BY DEF LoginInv, TransactionsInv
  <2>2. answer' = [answer EXCEPT ![s] = "spent"] \/ answer' = answer
    BY DEF Exchange
  <2>3. s \in States
    BY <1>1 DEF Known
  <2> HIDE DEF s
  <2> QED BY <2>1, <2>2, <2>3
<1>4. exchanges' = exchanges \cup {[code |-> s, txn |-> req[r].at, client |-> req[r].client]}
  BY DEF Exchange
<1> HIDE DEF s
<1>5. \A t : Known(t) <=> Known(t)'
  BY <1>1, <1>3 DEF Known
<1>6. TransactionsInv'
  BY <1>2, <1>3, <1>5 DEF LoginInv, TransactionsInv, Kept
<1>7. CookiesInv'
  BY <1>2, <1>5 DEF LoginInv, CookiesInv, Fits, Sessions
<1>8. ExchangesInv'
  BY <1>1, <1>2, <1>4, <1>5 DEF LoginInv, ExchangesInv
<1>9. Grows
  BY <1>2, <1>5 DEF Grows
<1>10. \A p \in Requests : Undisturbed(p)
  <2> SUFFICES ASSUME NEW p \in Requests, req[p].kind = "login"
               PROVE  Undisturbed(p)
    BY DEF Undisturbed
  <2>1. req[p].state \in States /\ answer[req[p].state] = "none"
    BY DEF LoginInv, RequestsInv, RequestInv, LoginFresh
  <2>2. req[p].state # s
    BY <1>1, <2>1 DEF Known
  <2> QED BY <1>2, <1>3, <2>1, <2>2 DEF Undisturbed
<1>11. RequestInv(req[r])'
  <2>1. req'[r] = q
    BY DEF LoginInv, RequestsInv
  <2> QED BY <1>2, <1>5, <2>1 DEF RequestInv, RequestFits, RequestType, MaybeState, Fits,
            Sessions, LoginFresh, CallbackFits, ClearFits
<1>12. RequestsInv'
  BY <1>9, <1>10, <1>11, RequestsKept DEF LoginInv, RequestInv, RequestFits
<1> QED BY <1>6, <1>7, <1>8, <1>12 DEF LoginInv

\* A session that fits is saved.
LEMMA SavedFits ==
  ASSUME NEW q, RequestFits(q), q.kind = "callback", q.pc = "exchange", Known(q.state),
         NEW s \in Sessions, Fits(s), NEW f \in Saving(q, s)
  PROVE  /\ RequestInv(f) /\ f.kind = "callback" /\ f.state = q.state
         /\ f \in RequestType /\ f.pc = "respond" /\ f.client = q.client
         /\ f.clear = {q.state} /\ f.read = NoSession /\ f.session = s
<1> DEFINE e == Failure(q)
<1>1. q \in RequestType /\ q.state \in States
  BY DEF RequestFits, Known
<1>2. /\ e \in RequestType /\ e.kind = q.kind /\ e.pc = "respond"
      /\ e.client = q.client /\ e.state = q.state /\ e.clear = {q.state}
      /\ e.read = NoSession /\ e.session = q.session /\ e.used = q.used
  BY <1>1, FailureIs
<1>3. /\ q.used.by = "login" => q.used.tag = DomainOf[q.used.iss]
                                /\ q.used.tag = DomainOf[q.client]
  BY DEF RequestFits
<1>4. f = [e EXCEPT !.write = TRUE, !.session = s]
  BY SavingIs
<1> HIDE DEF e
<1>5. /\ f \in RequestType /\ f.kind = q.kind /\ f.pc = "respond"
      /\ f.client = q.client /\ f.state = q.state /\ f.clear = {q.state}
      /\ f.read = NoSession /\ f.session = s /\ f.used = q.used
  BY <1>2, <1>4 DEF RequestType
<1>6. RequestInv(f)
  BY <1>3, <1>5, ResponseFits
<1> QED BY <1>5, <1>6

LEMMA ExchangeRedirectInv ==
  ASSUME LoginInv, NEW r \in Requests, ExchangeRedirect(r)
  PROVE  LoginInv'
<1> DEFINE q == req[r]
           s == [iss |-> q.client, tag |-> DomainOf[q.client], by |-> "login"]
<1>1. Exchanging(r, {"redirect"}) /\ Exchange(r, TRUE)
  BY DEF ExchangeRedirect
<1>2. /\ RequestFits(q) /\ q.kind = "callback" /\ q.pc = "exchange" /\ Known(q.state)
      /\ q.client \in Issuers
  BY <1>1, ExchangingFits
<1>3. s \in Sessions /\ Fits(s)
  BY <1>2, LoginFlowAssumption DEF Sessions, Fits
<1>4. PICK f \in Saving(q, s) : req' = [req EXCEPT ![r] = f]
  BY DEF ExchangeRedirect
<1> HIDE DEF s
<1>5. RequestInv(f) /\ f.kind = "callback" /\ f.state = q.state
  BY <1>2, <1>3, SavedFits
<1> QED BY <1>1, <1>4, <1>5, ExchangeSteps

LEMMA ExchangeFailsInv ==
  ASSUME LoginInv, NEW r \in Requests, ExchangeFails(r)
  PROVE  LoginInv'
<1>1. /\ Exchanging(r, {"redirect", "popup"})
      /\ req' = [req EXCEPT ![r] = Failure(req[r])]
  BY DEF ExchangeFails
<1>2. PICK accepted \in BOOLEAN : Exchange(r, accepted)
  BY DEF ExchangeFails, Accepts
<1>3. /\ RequestFits(req[r]) /\ req[r].kind = "callback" /\ req[r].pc = "exchange"
      /\ Known(req[r].state)
  BY <1>1, ExchangingFits
<1>4. /\ RequestInv(Failure(req[r])) /\ Failure(req[r]).kind = "callback"
      /\ Failure(req[r]).state = req[r].state
  BY <1>3, FailureFits
<1> QED BY <1>1, <1>2, <1>4, ExchangeSteps

\* What the domain check lets through is used; what is saved is that session, with
\* the popup's issuer, or one that is no login's.
LEMMA ExchangePopupInv ==
  ASSUME LoginInv, NEW r \in Requests, NEW idToken \in BOOLEAN, ExchangePopup(r, idToken)
  PROVE  LoginInv'
<1> DEFINE q       == req[r]
           checked == Checked(q.client, q.read)
           merged  == IF idToken THEN [checked EXCEPT !.iss = q.client] ELSE checked
           made    == [iss |-> q.client, tag |-> NoDomain, by |-> "popup"]
<1>1. Exchanging(r, {"popup"}) /\ Exchange(r, TRUE)
  BY DEF ExchangePopup
<1>2. /\ RequestFits(q) /\ q.kind = "callback" /\ q.pc = "exchange" /\ Known(q.state)
      /\ q.client \in Issuers /\ q.read \in Sessions /\ Fits(q.read)
  BY <1>1, ExchangingFits
<1>3. PICK f \in IF checked # NoSession THEN Saving(q, merged)
                 ELSE IF q.read = NoSession /\ idToken THEN Saving(q, made)
                 ELSE {Failure(q)} :
        req' = [req EXCEPT ![r] = [f EXCEPT !.used = checked]]
  BY DEF ExchangePopup
<1>4. /\ checked \in Sessions /\ Fits(checked)
      /\ checked.by = "login" => checked.tag = DomainOf[q.client]
  BY <1>2, CheckedFits
<1>5. made \in Sessions /\ Fits(made)
  BY <1>2 DEF Sessions, Fits
<1> HIDE DEF checked, made
<1>6. checked # NoSession => merged \in Sessions /\ Fits(merged)
  <2> SUFFICES ASSUME checked # NoSession
               PROVE  merged \in Sessions /\ Fits(merged)
    OBVIOUS
  <2>1. checked \in [iss : Issuers, tag : Domains \cup {NoDomain}, by : {"login", "popup"}]
    BY <1>4 DEF Sessions
  <2>2. CASE idToken
    BY <1>2, <1>4, <2>1, <2>2 DEF Sessions, Fits
  <2>3. CASE ~idToken
    BY <1>4, <2>3
  <2> QED BY <2>2, <2>3
<1> HIDE DEF merged, q
<1> DEFINE f2 == [f EXCEPT !.used = checked]
<1>7. /\ f \in RequestType /\ f.kind = "callback" /\ f.pc = "respond" /\ f.state = q.state
      /\ f.client = q.client /\ f.clear = {q.state} /\ f.read = NoSession /\ Fits(f.session)
  <2>1. CASE checked # NoSession
    BY <1>2, <1>3, <1>6, <2>1, SavedFits
  <2>2. CASE checked = NoSession /\ q.read = NoSession /\ idToken
    BY <1>2, <1>3, <1>5, <2>2, SavedFits
  <2>3. CASE checked = NoSession /\ ~(q.read = NoSession /\ idToken)
    <3>1. q \in RequestType /\ q.state \in States /\ Fits(q.session)
      BY <1>2 DEF RequestFits, Known
    <3>2. f = Failure(q)
      BY <1>3, <2>3
    <3> QED BY <1>2, <3>1, <3>2, FailureIs
  <2> QED BY <2>1, <2>2, <2>3
<1>8. /\ f2 \in RequestType /\ f2.kind = f.kind /\ f2.pc = "respond" /\ f2.state = q.state
      /\ f2.client = q.client /\ f2.clear = {q.state} /\ f2.read = NoSession
      /\ f2.session = f.session /\ f2.used = checked
  BY <1>4, <1>7 DEF RequestType
<1> HIDE DEF f2
<1>9. checked.by = "login" => checked.tag = DomainOf[checked.iss]
                              /\ checked.tag = DomainOf[q.client]
  BY <1>4 DEF Fits
<1>10. RequestInv(f2)
  BY <1>2, <1>7, <1>8, <1>9, ResponseFits
<1>11. req' = [req EXCEPT ![r] = f2] /\ f2.kind = "callback" /\ f2.state = req[r].state
  BY <1>3, <1>7, <1>8 DEF f2, q
<1> QED BY <1>1, <1>10, <1>11, ExchangeSteps

-----------------------------------------------------------------------------
(* Steps that change what the browser holds or what the issuer did.        *)

\* A request that has become idle has the invariant.
LEMMA IdleNext ==
  ASSUME NEW r \in Requests, req'[r] = Idle
  PROVE  RequestInv(req[r])'
<1>1. RequestFits(req[r])'
  BY DEF RequestFits, RequestType, MaybeState, Idle, NoSession, Sessions, Fits
<1>2. (LoginFresh(req[r]) /\ CallbackFits(req[r]) /\ ClearFits(req[r]))'
  BY DEF LoginFresh, CallbackFits, ClearFits, Idle
<1> QED BY <1>1, <1>2 DEF RequestInv

\* A step that leaves the requests alone keeps their invariant.
LEMMA NoRequestSteps ==
  ASSUME RequestsInv, UNCHANGED req, Grows, \A p \in Requests : Undisturbed(p)
  PROVE  RequestsInv'
<1>1. \A p \in Requests : RequestInv(req[p])'
  BY RequestKept DEF RequestsInv
<1> QED BY <1>1 DEF RequestsInv, LoginsApart, RequestType, MaybeState, Sessions

\* A state that was never used gets a transaction that keeps its origin.
LEMMA StartLoginInv ==
  ASSUME LoginInv, NEW r \in Requests, NEW c \in Issuers, NEW s \in States,
         NEW t \in [issuer : Issuers \cup {NoIssuer}, mode : Modes \cup {"redirect"}],
         t.mode = "connect" \/ t.issuer \in Issuers, StartLogin(r, c, s, t)
  PROVE  LoginInv'
<1> DEFINE x == Request("login", c, "respond")
           q == [x EXCEPT !.state = s]
<1>1. /\ x \in RequestType /\ x.kind = "login" /\ x.pc = "respond" /\ x.client = c
      /\ x.clear = {} /\ x.read = NoSession /\ x.session = NoSession /\ x.used = NoSession
  BY RequestIs
<1>2. /\ answer[s] = "none" /\ \A p \in Requests : req[p].state # s
      /\ req' = [req EXCEPT ![r] = q]
      /\ txn' = [txn EXCEPT ![s] = t]
      /\ UNCHANGED <<parallel, jar, session, answer, pending, answered, exchanges>>
  BY DEF StartLogin, Begin
<1> HIDE DEF x
<1>3. /\ q \in RequestType /\ q.kind = "login" /\ q.pc = "respond" /\ q.client = c
      /\ q.state = s /\ q.clear = {} /\ q.read = NoSession /\ q.session = NoSession
      /\ q.used = NoSession
  BY <1>1 DEF RequestType, MaybeState
<1> HIDE DEF q
<1>4. txn' \in [States -> [issuer : Issuers \cup {NoIssuer}, mode : Modes \cup {"redirect"}]]
      /\ txn'[s] = t /\ \A u \in States \ {s} : txn'[u] = txn[u]
  BY <1>2 DEF LoginInv, TransactionsInv
<1>5. TransactionsInv'
  BY <1>2, <1>4 DEF LoginInv, TransactionsInv, Known, Kept
<1>6. CookiesInv'
  BY <1>2 DEF LoginInv, CookiesInv, Known, Fits, Sessions
<1>7. ExchangesInv'
  BY <1>2, <1>4 DEF LoginInv, ExchangesInv, Known
<1>8. Grows
  BY <1>2, <1>4 DEF Grows, Known
<1>9. \A p \in Requests : Undisturbed(p)
  BY <1>2, <1>4 DEF Undisturbed, LoginInv, RequestsInv, RequestInv, LoginFresh
<1>10. DOMAIN req' = Requests /\ req'[r] = q /\ \A p \in Requests \ {r} : req'[p] = req[p]
  BY <1>2 DEF LoginInv, RequestsInv
<1>11. \A p \in Requests \ {r} : RequestInv(req[p])'
  BY <1>8, <1>9, <1>10, RequestKept DEF LoginInv, RequestsInv
<1>12. RequestInv(req[r])'
  <2>1. RequestFits(req[r])'
    <3>1. q \in RequestType'
      BY <1>3 DEF RequestType, MaybeState, Sessions
    <3> QED BY <1>3, <1>10, <3>1 DEF RequestFits, NoSession, Fits
  <2>2. LoginFresh(req[r])'
    BY <1>2, <1>3, <1>4, <1>10 DEF LoginFresh, Kept
  <2>3. (CallbackFits(req[r]) /\ ClearFits(req[r]))'
    BY <1>3, <1>10 DEF CallbackFits, ClearFits
  <2> QED BY <2>1, <2>2, <2>3 DEF RequestInv
<1>13. req' \in [Requests -> RequestType]
  BY <1>2, <1>3 DEF LoginInv, RequestsInv
<1>14. RequestType' = RequestType
  BY DEF RequestType, MaybeState, Sessions
<1>15. LoginsApart'
  BY <1>2, <1>3, <1>10 DEF LoginsApart, LoginInv, RequestsInv
<1>16. RequestsInv'
  BY <1>10, <1>11, <1>12, <1>13, <1>14, <1>15 DEF RequestsInv
<1> QED BY <1>5, <1>6, <1>7, <1>16 DEF LoginInv

LEMMA LoginBeginsInv ==
  ASSUME LoginInv, NEW r \in Requests, NEW c \in Issuers, NEW s \in States,
         startInteractiveLogin(r, c, s) \/ connectAccount(r, c, s)
  PROVE  LoginInv'
<1>1. CASE startInteractiveLogin(r, c, s)
  <2>1. PICK mode \in Modes : StartLogin(r, c, s, [issuer |-> c, mode |-> mode])
    BY <1>1 DEF startInteractiveLogin
  <2> QED BY <2>1, StartLoginInv
<1>2. CASE connectAccount(r, c, s)
  <2>1. "connect" \in Modes /\ StartLogin(r, c, s, [issuer |-> NoIssuer, mode |-> "connect"])
    BY <1>2 DEF connectAccount
  <2> QED BY <2>1, StartLoginInv
<1> QED BY <1>1, <1>2

LEMMA AuthorizeInv ==
  ASSUME LoginInv, NEW s \in States, Authorize(s)
  PROVE  LoginInv'
<1>1. PICK a \in {"code", "error"} : answer' = [answer EXCEPT ![s] = a]
  BY DEF Authorize
<1>2. answer[s] = "waiting" /\ UNCHANGED <<parallel, jar, session, txn, req, pending, answered, exchanges>>
  BY DEF Authorize
<1>3. /\ answer' \in [States -> {"none", "waiting", "code", "spent", "error"}]
      /\ \A t \in States : answer'[t] = answer[t] \/ (t = s /\ answer'[t] = a)
  BY <1>1 DEF LoginInv, TransactionsInv
<1>4. \A t : Known(t) <=> Known(t)'
  BY <1>2, <1>3 DEF Known
<1>5. TransactionsInv'
  BY <1>2, <1>3, <1>4 DEF LoginInv, TransactionsInv, Kept
<1>6. CookiesInv'
  BY <1>2, <1>4 DEF LoginInv, CookiesInv, Fits, Sessions
<1>7. ExchangesInv'
  BY <1>2, <1>4 DEF LoginInv, ExchangesInv
<1>8. Grows
  BY <1>2, <1>4 DEF Grows
<1>9. \A p \in Requests : Undisturbed(p)
  BY <1>2, <1>3 DEF Undisturbed, LoginInv, RequestsInv, RequestInv, LoginFresh
<1> QED BY <1>2, <1>5, <1>6, <1>7, <1>8, <1>9, NoRequestSteps DEF LoginInv

LEMMA LapseInv ==
  ASSUME LoginInv, NEW s \in States, Lapse(s)
  PROVE  LoginInv'
<1>1. /\ jar' = jar \ {s} /\ pending' = pending \ {s}
      /\ UNCHANGED <<parallel, session, txn, answer, req, answered, exchanges>>
  BY DEF Lapse
<1>2. TransactionsInv'
  BY <1>1 DEF LoginInv, TransactionsInv, Known, Kept
<1>3. CookiesInv'
  BY <1>1 DEF LoginInv, CookiesInv, Known, Fits, Sessions
<1>4. ExchangesInv'
  BY <1>1 DEF LoginInv, ExchangesInv, Known
<1>5. Grows
  BY <1>1 DEF Grows, Known
<1>6. \A p \in Requests : Undisturbed(p)
  BY <1>1 DEF Undisturbed, LoginInv, RequestsInv, RequestInv, LoginFresh
<1> QED BY <1>1, <1>2, <1>3, <1>4, <1>5, <1>6, NoRequestSteps DEF LoginInv

\* A logout takes the transactions its request came with, and none that begins after.
LEMMA LogoutInv ==
  ASSUME LoginInv, NEW r \in Requests, NEW c \in Issuers, Logout(r, c)
  PROVE  LoginInv'
<1> DEFINE u == Checked(c, session)
           w == ~Mismatch(c, session)
           x == Request("logout", c, "respond")
           q == [x EXCEPT !.clear = jar, !.write = w, !.used = u]
<1>1. /\ x \in RequestType /\ x.kind = "logout" /\ x.pc = "respond" /\ x.client = c
      /\ x.state = NoState /\ x.read = NoSession /\ x.session = NoSession
  BY RequestIs
<1>2. /\ req' = [req EXCEPT ![r] = q] /\ pending' = {}
      /\ UNCHANGED <<parallel, jar, session, txn, answer, answered, exchanges>>
  BY DEF Logout, Begin
<1>3. u \in Sessions /\ (u.by = "login" => u.tag = DomainOf[u.iss] /\ u.tag = DomainOf[c])
  BY CheckedFits DEF LoginInv, CookiesInv, Fits
<1>4. jar \in SUBSET States /\ w \in BOOLEAN
  BY DEF LoginInv, CookiesInv, Known, Mismatch
<1> HIDE DEF x, u, w
<1>5. /\ q \in RequestType /\ q.kind = "logout" /\ q.pc = "respond" /\ q.client = c
      /\ q.state = NoState /\ q.clear = jar /\ q.read = NoSession /\ q.session = NoSession
      /\ q.used = u
  BY <1>1, <1>3, <1>4 DEF RequestType
<1> HIDE DEF q
<1>6. TransactionsInv' /\ ExchangesInv'
  BY <1>2 DEF LoginInv, TransactionsInv, ExchangesInv, Known, Kept
<1>7. CookiesInv'
  BY <1>2 DEF LoginInv, CookiesInv, Known, Fits, Sessions
<1>8. Grows
  BY <1>2 DEF Grows, Known
<1>9. \A p \in Requests : Undisturbed(p)
  BY <1>2 DEF Undisturbed, LoginInv, RequestsInv, RequestInv, LoginFresh
<1>10. RequestInv(req[r])'
  <2>1. req'[r] = q
    BY <1>2 DEF LoginInv, RequestsInv
  <2>2. q \in RequestType'
    BY <1>5 DEF RequestType, MaybeState, Sessions
  <2>3. RequestFits(req[r])'
    BY <1>3, <1>5, <2>1, <2>2 DEF RequestFits, Fits, NoSession
  <2>4. \A s \in jar : Known(s)'
    BY <1>2 DEF LoginInv, CookiesInv, Known
  <2> QED BY <1>2, <1>5, <2>1, <2>3, <2>4 DEF RequestInv, LoginFresh, CallbackFits, ClearFits
<1>11. RequestsInv'
  BY <1>2, <1>5, <1>8, <1>9, <1>10, RequestsKept DEF LoginInv
<1> QED BY <1>6, <1>7, <1>11 DEF LoginInv

\* The browser goes to the issuer, with the cookie of its login.
LEMMA LoginRespondsInv ==
  ASSUME LoginInv, NEW r \in Requests, Respond(r), req[r].kind = "login"
  PROVE  LoginInv'
<1> DEFINE s == req[r].state
<1>1. s \in States /\ answer[s] = "none" /\ Kept(s) /\ ~Known(s)
  BY DEF LoginInv, RequestsInv, RequestInv, LoginFresh, Known
<1>2. /\ jar' = Stored(s)
      /\ session' = IF req[r].write THEN req[r].session ELSE session
      /\ answer' = [answer EXCEPT ![s] = "waiting"]
      /\ pending' = pending \cup {s}
      /\ answered' = answered
      /\ req' = [req EXCEPT ![r] = Idle]
      /\ UNCHANGED <<parallel, txn, exchanges>>
  BY DEF Respond
<1>3. req'[r] = Idle /\ \A p \in Requests \ {r} : req[p].kind = "login" => req[p].state # s
  BY <1>2 DEF LoginInv, RequestsInv, LoginsApart
<1>4. session' \in Sessions /\ Fits(session)'
  BY <1>2 DEF LoginInv, CookiesInv, RequestsInv, RequestInv, RequestFits, RequestType, Fits
<1> HIDE DEF s
<1>5. /\ answer' \in [States -> {"none", "waiting", "code", "spent", "error"}]
      /\ answer'[s] = "waiting" /\ \A t \in States \ {s} : answer'[t] = answer[t]
  BY <1>1, <1>2 DEF LoginInv, TransactionsInv
<1>6. \A t : Known(t)' <=> Known(t) \/ t = s
  BY <1>1, <1>5 DEF Known
<1>7. TransactionsInv'
  BY <1>1, <1>2, <1>5, <1>6 DEF LoginInv, TransactionsInv, Kept
<1>8. CookiesInv'
  <2>1. \A t \in jar' : t = s \/ t \in jar
    BY <1>2 DEF Stored
  <2>2. (\A t \in jar \cup pending \cup answered : Known(t))'
    BY <1>2, <1>6, <2>1 DEF LoginInv, CookiesInv
  <2>3. ~parallel' => \A t, u \in jar' : t = u
    BY <1>2 DEF Stored
  <2>4. parallel' => pending' \subseteq jar'
    BY <1>2 DEF Stored, LoginInv, CookiesInv
  <2>5. answered' \cap jar' = {}
    BY <1>1, <1>2, <2>1 DEF LoginInv, CookiesInv
  <2>6. Sessions' = Sessions
    BY DEF Sessions
  <2> QED BY <1>4, <2>2, <2>3, <2>4, <2>5, <2>6 DEF CookiesInv
<1>9. ExchangesInv'
  BY <1>2, <1>6 DEF LoginInv, ExchangesInv
<1>10. Grows
  BY <1>1, <1>2, <1>6 DEF Grows, Stored
<1>11. \A p \in Requests \ {r} : Undisturbed(p)
  BY <1>2, <1>3, <1>5 DEF Undisturbed, LoginInv, RequestsInv, RequestInv, LoginFresh
<1>12. RequestInv(req[r])'
  BY <1>3, IdleNext
<1>13. Idle \in RequestType /\ Idle.kind # "login" /\ Idle.state = NoState
  BY IdleFits DEF RequestInv, RequestFits
<1>14. RequestsInv'
  BY <1>2, <1>10, <1>11, <1>12, <1>13, RequestsKept DEF LoginInv
<1> QED BY <1>7, <1>8, <1>9, <1>14 DEF LoginInv

\* Any other response takes what it clears, and that of a callback all that is left
\* of its transaction.
LEMMA OtherRespondsInv ==
  ASSUME LoginInv, NEW r \in Requests, Respond(r), req[r].kind # "login"
  PROVE  LoginInv'
<1> DEFINE q == req[r]
<1>1. /\ q.pc = "respond"
      /\ jar' = Without(q.clear)
      /\ session' = IF q.write THEN q.session ELSE session
      /\ answer' = answer
      /\ pending' = pending \ {q.state}
      /\ answered' = IF q.kind = "callback" THEN answered \cup {q.state} ELSE answered
      /\ req' = [req EXCEPT ![r] = Idle]
      /\ UNCHANGED <<parallel, txn, exchanges>>
  BY DEF Respond
<1>2. req'[r] = Idle
  BY <1>1 DEF LoginInv, RequestsInv
<1>3. session' \in Sessions /\ Fits(session)'
  BY <1>1 DEF LoginInv, CookiesInv, RequestsInv, RequestInv, RequestFits, RequestType, Fits
<1>4. RequestInv(q)
  BY DEF LoginInv, RequestsInv
<1> HIDE DEF q
<1>5. \A t : Known(t)' <=> Known(t)
  BY <1>1 DEF Known
<1>6. \A t \in jar' : t \in jar
  BY <1>1 DEF Without
<1>7. TransactionsInv'
  BY <1>1, <1>5 DEF LoginInv, TransactionsInv, Kept
<1>8. CookiesInv'
  <2>1. \A t \in answered' : Known(t)
    BY <1>1, <1>4 DEF RequestInv, CallbackFits, LoginInv, CookiesInv
  <2>2. (\A t \in jar \cup pending \cup answered : Known(t))'
    BY <1>1, <1>5, <1>6, <2>1 DEF LoginInv, CookiesInv
  <2>3. ~parallel' => \A t, u \in jar' : t = u
    BY <1>1, <1>6 DEF LoginInv, CookiesInv
  <2>4. parallel' => pending' \subseteq jar'
    BY <1>1, <1>4 DEF Without, LoginInv, CookiesInv, RequestInv, ClearFits
  <2>5. q.kind = "callback" => q.state \notin jar'
    <3> SUFFICES ASSUME q.kind = "callback"
                 PROVE  q.state \notin jar'
      OBVIOUS
    <3>1. CASE q.clear = {q.state}
      BY <1>1, <3>1 DEF Without
    <3>2. CASE q.state \notin jar
      BY <1>6, <3>2
    <3> QED BY <1>1, <1>4, <3>1, <3>2 DEF RequestInv, ClearFits
  <2>6. answered' \cap jar' = {}
    BY <1>1, <1>6, <2>5 DEF LoginInv, CookiesInv
  <2>7. Sessions' = Sessions
    BY DEF Sessions
  <2> QED BY <1>3, <2>2, <2>3, <2>4, <2>6, <2>7 DEF CookiesInv
<1>9. ExchangesInv'
  BY <1>1, <1>5 DEF LoginInv, ExchangesInv
<1>10. Grows
  BY <1>1, <1>5, <1>6 DEF Grows
<1>11. \A p \in Requests : Undisturbed(p)
  BY <1>1 DEF Undisturbed, LoginInv, RequestsInv, RequestInv, LoginFresh
<1>12. RequestInv(req[r])'
  BY <1>2, IdleNext
<1>13. Idle \in RequestType /\ Idle.kind # "login" /\ Idle.state = NoState
  BY IdleFits DEF RequestInv, RequestFits
<1>14. RequestsInv'
  BY <1>1, <1>10, <1>11, <1>12, <1>13, RequestsKept DEF LoginInv
<1> QED BY <1>7, <1>8, <1>9, <1>14 DEF LoginInv

-----------------------------------------------------------------------------
(* The theorems.                                                           *)

LEMMA InitInv == Init => LoginInv
<1> SUFFICES ASSUME Init
             PROVE  LoginInv
  OBVIOUS
<1>1. TransactionsInv
  BY DEF Init, TransactionsInv, NoTxn, Known
<1>2. CookiesInv
  BY DEF Init, CookiesInv, Fits, Sessions, NoSession
<1>3. ExchangesInv
  BY DEF Init, ExchangesInv
<1>4. \A r \in Requests : req[r] = Idle
  BY DEF Init
<1>5. Idle \in RequestType
  BY IdleFits DEF RequestInv, RequestFits
<1>6. RequestsInv
  BY <1>4, <1>5, IdleFits DEF Init, RequestsInv, LoginsApart
<1> QED BY <1>1, <1>2, <1>3, <1>6 DEF LoginInv

LEMMA NextInv ==
  ASSUME LoginInv, [Next]_vars
  PROVE  LoginInv'
<1>1. CASE UNCHANGED vars
  BY <1>1, RestKept, NoRequestSteps DEF vars, LoginInv
<1>2. ASSUME NEW r \in Requests, NEW c \in Issuers, NEW s \in States,
             startInteractiveLogin(r, c, s) \/ connectAccount(r, c, s) \/ Callback(r, c, s)
      PROVE  LoginInv'
  BY <1>2, LoginBeginsInv, CallbackInv
<1>3. ASSUME NEW r \in Requests, NEW c \in Issuers,
             DirectLogin(r, c) \/ Touch(r, c) \/ Visit(r, c) \/ Logout(r, c)
      PROVE  LoginInv'
  BY <1>3, DirectLoginInv, TouchInv, VisitInv, LogoutInv
<1>4. ASSUME NEW r \in Requests,
             \/ ExchangeRedirect(r) \/ ExchangeFails(r) \/ CompleteConnect(r)
             \/ \E idToken \in BOOLEAN : ExchangePopup(r, idToken)
      PROVE  LoginInv'
  BY <1>4, ExchangeRedirectInv, ExchangeFailsInv, CompleteConnectInv, ExchangePopupInv
<1>5. ASSUME NEW r \in Requests, authorizationUrlFails(r) \/ Respond(r) \/ Fail(r)
      PROVE  LoginInv'
  BY <1>5, FailInv, LoginRespondsInv, OtherRespondsInv
<1>6. ASSUME NEW s \in States, Authorize(s) \/ Lapse(s)
      PROVE  LoginInv'
  BY <1>6, AuthorizeInv, LapseInv
<1> QED BY <1>1, <1>2, <1>3, <1>4, <1>5, <1>6 DEF Next

(* The inductive invariant: what is known of a state, and what the cookies *)
(* and the requests in progress make of it.                                *)
THEOREM LoginInvariant == Spec => []LoginInv
BY InitInv, NextInv, PTL DEF Spec

(* The variables have their types, and without parallel transactions the   *)
(* browser holds one transaction at most.                                  *)
THEOREM LoginTypeCorrect == Spec => []TypeOK
<1>1. LoginInv => TypeOK
  <2> SUFFICES ASSUME LoginInv
               PROVE  TypeOK
    OBVIOUS
  <2>1. ~parallel => Cardinality(jar) <= 1
    <3> SUFFICES ASSUME ~parallel
                 PROVE  Cardinality(jar) <= 1
      OBVIOUS
    <3>1. CASE jar = {}
      BY <3>1, FS_EmptySet
    <3>2. ASSUME NEW s \in jar
          PROVE  Cardinality(jar) <= 1
      <4>1. jar = {s}
        BY DEF LoginInv, CookiesInv
      <4> QED BY <4>1, FS_Singleton
    <3> QED BY <3>1, <3>2
  <2>2. jar \subseteq States
    BY DEF LoginInv, CookiesInv, Known
  <2>3. \A r \in Requests : req[r] \in RequestType
    BY DEF LoginInv, RequestsInv
  <2> QED BY <2>1, <2>2, <2>3 DEF TypeOK, LoginInv, TransactionsInv, CookiesInv, RequestType
<1> QED BY <1>1, LoginInvariant, PTL

(* A login on its way keeps its transaction cookie whatever the other tabs *)
(* do, for any number of them.                                             *)
THEOREM LoginsNotDisturbed == Spec => []LoginNotDisturbed
<1>1. LoginInv => LoginNotDisturbed
  BY DEF LoginInv, CookiesInv, LoginNotDisturbed
<1> QED BY <1>1, LoginInvariant, PTL

(* A code goes with its own verifier and nonce, and to its own issuer.     *)
THEOREM CodesMeetTheirTransactions == Spec => []CodeMeetsItsTransaction
<1>1. LoginInv => CodeMeetsItsTransaction
  BY DEF LoginInv, ExchangesInv, CodeMeetsItsTransaction
<1> QED BY <1>1, LoginInvariant, PTL

(* No transaction cookie outlives the answer to its callback.              *)
THEOREM AnsweredAreForgotten == Spec => []AnsweredIsForgotten
<1>1. LoginInv => AnsweredIsForgotten
  BY DEF LoginInv, CookiesInv, AnsweredIsForgotten
<1> QED BY <1>1, LoginInvariant, PTL

(* The session of a login is used by requests for its own domain only.     *)
THEOREM LoginsStayWithTheirDomain == Spec => []LoginStaysWithDomain
<1>1. LoginInv => LoginStaysWithDomain
  BY DEF LoginInv, RequestsInv, RequestInv, RequestFits, LoginStaysWithDomain, UsedByItsDomain
<1> QED BY <1>1, LoginInvariant, PTL
=============================================================================
