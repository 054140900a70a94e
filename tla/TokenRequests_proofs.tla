------------------------ MODULE TokenRequests_proofs ------------------------
(***************************************************************************)
(* Theorems about TokenRequests, for any number of requests, refresh       *)
(* tokens, audiences and scopes, and any number of cached access tokens.   *)
(***************************************************************************)
EXTENDS TokenRequests, FiniteSetTheorems, SequenceTheorems, WellFoundedInduction, TLAPS

-----------------------------------------------------------------------------
(* The tokens of a session (AccessTokens): which one answers for an        *)
(* audience and a scope, and how the session changes with a new one.       *)

\* A set of natural numbers has a smallest element.
LEMMA SmallestOf ==
  ASSUME NEW T, T \subseteq Nat, T # {}
  PROVE  \E n \in T : \A m \in T : n <= m
<1> DEFINE R == OpToRel(<, Nat)
<1>1. IsWellFoundedOn(R, Nat)
  BY NatLessThanWellFounded
<1>2. R = {ss \in Nat \X Nat : ss[1] < ss[2]}
  BY DEF OpToRel
<1> HIDE DEF R
<1>3. PICK n \in T : \A m \in T : ~ (<<m, n>> \in R)
  BY <1>1, WFMin
<1>4. \A m \in T : ~(m < n)
  BY <1>2, <1>3
<1> QED BY <1>4

\* The entries of a session hold access tokens for scopes there are.
EntriesScoped(s) ==
    /\ DOMAIN s.cached \subseteq Nat
    /\ \A i \in DOMAIN s.cached : s.cached[i].tok.scope \subseteq Scopes

\* What answers for an audience and a scope: the token set of the login, an entry,
\* or none but the refresh token.
AnswersGlobal(s, aud, scope) ==
    /\ aud = NoAudience \/ aud = OrElse(s.aud, Default)
    /\ scope \subseteq HeldScope(s, aud)

AnswersEntry(s, i, aud, scope) ==
    /\ i \in DOMAIN s.cached /\ aud # NoAudience
    /\ s.cached[i].aud = aud /\ scope \subseteq s.cached[i].requested

LEMMA TokenSetCases ==
  ASSUME NEW s, NEW aud, NEW scope
  PROVE  LET t == getTokenSetFromSession(s, aud, scope)
         IN  \/ t = Global(s) /\ AnswersGlobal(s, aud, scope)
             \/ \E i \in DOMAIN s.cached :
                  /\ AnswersEntry(s, i, aud, scope)
                  /\ t = TokenSet(s.cached[i].aud, s.cached[i].requested, s.cached[i].tok, s.rt)
             \/ t = TokenSet(NoAudience, {}, NoToken, s.rt)
<1> DEFINE t == getTokenSetFromSession(s, aud, scope)
           found == FindRequested(s, aud, scope)
           global == /\ aud = NoAudience \/ aud = OrElse(s.aud, Default)
                     /\ scope = {} \/ compareScopes(HeldScope(s, aud), scope)
           i == CHOOSE i \in found : TRUE
<1>1. CASE global
  BY <1>1 DEF getTokenSetFromSession, AnswersGlobal, compareScopes
<1>2. CASE ~global /\ aud # NoAudience /\ found # {}
  <2>1. i \in found
    BY <1>2
  <2>2. t = TokenSet(s.cached[i].aud, s.cached[i].requested, s.cached[i].tok, s.rt)
    BY <1>2 DEF getTokenSetFromSession
  <2> HIDE DEF t, i
  <2>3. AnswersEntry(s, i, aud, scope)
    BY <1>2, <2>1 DEF AnswersEntry, FindRequested, Best, compareScopes
  <2> QED BY <2>2, <2>3 DEF AnswersEntry, t
<1>3. CASE ~global /\ ~(aud # NoAudience /\ found # {})
  BY <1>3 DEF getTokenSetFromSession
<1> QED BY <1>1, <1>2, <1>3

\* The entry a session gets with token set t: with what was requested of t, and of
\* an entry that was granted the same.
EntryFor(s, t, e) ==
    /\ e.aud = OrElse(t.aud, Default) /\ e.aud # NoAudience /\ e.tok = t.tok
    /\ e = Entry(e.aud, e.requested, e.tok)
    /\ \/ e.requested = t.requested
       \/ \E i \in DOMAIN s.cached :
            /\ s.cached[i].aud = e.aud /\ s.cached[i].tok.scope = t.tok.scope
            /\ e.requested = s.cached[i].requested \cup t.requested

\* A session that changes has the new token as the login's or in an entry.
LEMMA ChangeCases ==
  ASSUME NEW s, NEW t, NEW new, NEW x \in SessionChanges(s, t, new)
  PROVE  \/ isGlobalAudienceAndScope(s, t) /\ x = WithGlobal(s, t)
         \/ \E e : /\ EntryFor(s, t, e)
                   /\ \/ x = WithCached(s, t, Append(s.cached, e))
                      \/ \E i \in DOMAIN s.cached :
                           /\ s.cached[i].aud = e.aud
                           /\ x = WithCached(s, t, [s.cached EXCEPT ![i] = e])
<1> DEFINE aud   == OrElse(t.aud, Default)
           asked == FindRequested(s, aud, t.requested)
           same  == FindGranted(s, aud, t.tok.scope)
           a == CHOOSE i \in asked : TRUE
           b == CHOOSE i \in same : TRUE
           New(requested) == Entry(aud, requested, t.tok)
<1>1. CASE isGlobalAudienceAndScope(s, t)
  BY <1>1 DEF SessionChanges, handleGlobalTokenSetUpdate
<1>2. CASE ~isGlobalAudienceAndScope(s, t)
  <2>1. aud # NoAudience /\ x \in handleSpecificAccessTokenUpdate(s, t, new)
    BY <1>2 DEF SessionChanges
  <2>2. asked # {} => a \in DOMAIN s.cached /\ s.cached[a].aud = aud
    BY DEF FindRequested, Best
  <2>3. same # {} => /\ b \in DOMAIN s.cached /\ s.cached[b].aud = aud
                     /\ s.cached[b].tok.scope = t.tok.scope
    BY DEF FindGranted, Best
  <2>4. PICK e, after : /\ EntryFor(s, t, e) /\ x = WithCached(s, t, after)
                        /\ \/ after = Append(s.cached, e)
                           \/ \E i \in DOMAIN s.cached :
                                s.cached[i].aud = e.aud /\ after = [s.cached EXCEPT ![i] = e]
    <3>1. CASE asked # {}
      <4>1. x = WithCached(s, t, [s.cached EXCEPT ![a] = New(t.requested)])
        BY <2>1, <3>1 DEF handleSpecificAccessTokenUpdate
      <4>2. EntryFor(s, t, New(t.requested)) /\ New(t.requested).aud = aud
        BY <2>1 DEF EntryFor, Entry
      <4> QED BY <2>2, <3>1, <4>1, <4>2
    <3>2. CASE asked = {} /\ same # {}
      <4> DEFINE requested == s.cached[b].requested \cup t.requested
      <4>1. x = WithCached(s, t, [s.cached EXCEPT ![b] = New(requested)])
        BY <2>1, <3>2 DEF handleSpecificAccessTokenUpdate
      <4> HIDE DEF b, aud
      <4>2. EntryFor(s, t, New(requested)) /\ New(requested).aud = aud
        BY <2>1, <2>3, <3>2 DEF EntryFor, Entry, aud
      <4> QED BY <2>3, <3>2, <4>1, <4>2
    <3>3. CASE asked = {} /\ same = {}
      <4>1. x = WithCached(s, t, Append(s.cached, New(t.requested)))
        BY <2>1, <3>3 DEF handleSpecificAccessTokenUpdate
      <4>2. EntryFor(s, t, New(t.requested))
        BY <2>1 DEF EntryFor, Entry
      <4> QED BY <4>1, <4>2
    <3> QED BY <3>1, <3>2, <3>3
  <2> QED BY <2>4
<1> QED BY <1>1, <1>2

\* A session that changes has the refresh token it was given.
LEMMA ChangesKeepRefreshToken ==
  ASSUME NEW s, NEW t, NEW new, NEW x \in SessionChanges(s, t, new)
  PROVE  x.rt = t.rt
BY DEF SessionChanges, handleGlobalTokenSetUpdate, handleSpecificAccessTokenUpdate,
       WithGlobal, WithCached

\* With a new token the session changes, if there is an audience to keep it for.
LEMMA NewTokenChanges ==
  ASSUME NEW s, NEW t, t.aud # NoAudience \/ Default # NoAudience
  PROVE  SessionChanges(s, t, TRUE) # {}
<1>1. OrElse(t.aud, Default) # NoAudience
  BY DEF OrElse
<1>2. CASE isGlobalAudienceAndScope(s, t)
  BY <1>2 DEF SessionChanges, handleGlobalTokenSetUpdate
<1>3. CASE ~isGlobalAudienceAndScope(s, t)
  <2>1. SessionChanges(s, t, TRUE) = handleSpecificAccessTokenUpdate(s, t, TRUE)
    BY <1>1, <1>3 DEF SessionChanges
  <2> DEFINE aud   == OrElse(t.aud, Default)
             asked == FindRequested(s, aud, t.requested)
             same  == FindGranted(s, aud, t.tok.scope)
  <2>2. handleSpecificAccessTokenUpdate(s, t, TRUE) # {}
    <3>1. CASE asked # {}
      <4> DEFINE a == CHOOSE i \in asked : TRUE
      <4>1. handleSpecificAccessTokenUpdate(s, t, TRUE) =
              {WithCached(s, t, [s.cached EXCEPT ![a] = Entry(aud, t.requested, t.tok)])}
        BY <3>1 DEF handleSpecificAccessTokenUpdate
      <4> QED BY <4>1
    <3>2. CASE asked = {} /\ same # {}
      <4> DEFINE b == CHOOSE i \in same : TRUE
      <4>1. handleSpecificAccessTokenUpdate(s, t, TRUE) =
              {WithCached(s, t, [s.cached EXCEPT
                 ![b] = Entry(aud, s.cached[b].requested \cup t.requested, t.tok)])}
        BY <3>2 DEF handleSpecificAccessTokenUpdate
      <4> QED BY <4>1
    <3>3. CASE asked = {} /\ same = {}
      <4>1. handleSpecificAccessTokenUpdate(s, t, TRUE) =
              {WithCached(s, t, Append(s.cached, Entry(aud, t.requested, t.tok)))}
        BY <3>3 DEF handleSpecificAccessTokenUpdate
      <4> QED BY <4>1
    <3> QED BY <3>1, <3>2, <3>3
  <2> QED BY <2>1, <2>2
<1> QED BY <1>2, <1>3

-----------------------------------------------------------------------------
(* Types.                                                                  *)
MaybeRefreshToken == RefreshTokens \cup {NoRefreshToken}

RequestType ==
    [kind : {"token", "proxy", "transfer", "connect", "popup", "touch"},
     pc : {"idle", "retrieve", "exchange", "call", "respond"},
     ask : Asks, session : Sessions \cup {NoToken}, save : BOOLEAN,
     tok : Tokens \cup {NoToken}, new : BOOLEAN,
     read : MaybeRefreshToken, rotated : MaybeRefreshToken]

\* A request in progress has a session; until it has retrieved a token that is the
\* one it read.
RequestTyped(q) ==
    /\ q \in RequestType
    /\ q.pc # "idle" => q.session \in Sessions
    /\ q.pc \in {"retrieve", "exchange"} => q.rotated = NoRefreshToken /\ q.session.rt = q.read
    /\ q.pc = "exchange" => q.ask.aud # NoAudience

TypeInv ==
    /\ jar \in Sessions
    /\ req \in [Requests -> RequestType]
    /\ \A r \in Requests : RequestTyped(req[r])
    /\ accepted \subseteq RefreshTokens /\ spent \subseteq accepted
    /\ login \in MaybeAudience
    /\ mishap \in BOOLEAN

-----------------------------------------------------------------------------
(* The refresh token of the session.                                       *)

\* A refresh token that was issued and not saved yet is accepted, was not used,
\* and is nobody else's.
Unsaved(r) ==
    LET rt == req[r].rotated
    IN  rt # NoRefreshToken =>
          /\ req[r].pc # "idle"
          /\ rt \in accepted /\ rt \notin spent
          /\ rt # jar.rt
          /\ \A q \in Requests \ {r} :
               /\ req[q].rotated # rt
               /\ req[q].pc # "idle" => req[q].session.rt # rt

\* A request that saves its session saves the refresh token it was given.
SavesRotated(r) ==
    req[r].rotated # NoRefreshToken /\ req[r].save => req[r].session.rt = req[r].rotated

\* One for an access token does.
TokenSaved(r) ==
    req[r].kind = "token" =>
        /\ req[r].pc # "call"
        /\ req[r].pc = "respond" /\ req[r].rotated # NoRefreshToken => req[r].save

\* The browser's refresh token is accepted; if it was rotated, a request that read
\* it has the next one.
JarUsable ==
    ~mishap =>
        /\ jar.rt \in accepted
        /\ jar.rt \in spent =>
             \E r \in Requests : req[r].read = jar.rt /\ req[r].rotated # NoRefreshToken

RotationInv == JarUsable /\ \A r \in Requests : Unsaved(r) /\ SavesRotated(r)

SavedInv == \A r \in Requests : TokenSaved(r)

-----------------------------------------------------------------------------
(* The tokens of a session (AccessTokens): which one answers for an        *)
(* audience and a scope, and how the session changes with a new one.       *)
EntryFits(e) == e.tok.aud = e.aud /\ e.requested \cap Allowed[e.aud] \subseteq e.tok.scope

\* The token set of the login is for the audience of the configuration, and every
\* entry for its own, with all that was asked for and would be granted.
SessionFits(s) ==
    /\ OrElse(s.aud, Default) = Default /\ s.tok.aud = Default
    /\ HeldScope(s, Default) \cap Allowed[Default] \subseteq s.tok.scope
    /\ \A i \in DOMAIN s.cached : EntryFits(s.cached[i])

TokenFits(q) ==
    q.tok # NoToken =>
        LET aud == OrElse(q.ask.aud, Default)
        IN  q.tok.aud = aud /\ Resolved(q.ask) \cap Allowed[aud] \subseteq q.tok.scope

FitInv ==
    /\ login = Default
    /\ SessionFits(jar)
    /\ \A r \in Requests : /\ req[r].pc # "idle" => SessionFits(req[r].session)
                           /\ TokenFits(req[r])

-----------------------------------------------------------------------------
(* Sessions.                                                               *)

\* The entries of a session are entries.
LEMMA SessionEntries ==
  ASSUME NEW s \in Sessions
  PROVE  /\ s.rt \in RefreshTokens /\ s.aud \in MaybeAudience /\ s.requested \in SUBSET Scopes
         /\ s.tok \in Tokens /\ s.cached \in Seq(Entries)
         /\ \A i \in DOMAIN s.cached : s.cached[i] \in Entries
         /\ EntriesScoped(s)
<1>1. /\ s.rt \in RefreshTokens /\ s.aud \in MaybeAudience /\ s.requested \in SUBSET Scopes
      /\ s.tok \in Tokens /\ s.cached \in Seq(Entries)
  BY DEF Sessions
<1>2. DOMAIN s.cached \subseteq Nat /\ \A i \in DOMAIN s.cached : s.cached[i] \in Entries
  BY <1>1
<1>3. \A i \in DOMAIN s.cached : s.cached[i].tok.scope \subseteq Scopes
  BY <1>2 DEF Entries, Tokens
<1> QED BY <1>1, <1>2, <1>3 DEF EntriesScoped

\* The two ways a session changes make a session.
LEMMA SessionWith ==
  ASSUME NEW s \in Sessions, NEW t, t.rt \in RefreshTokens
  PROVE  /\ t.aud \in MaybeAudience /\ t.requested \in SUBSET Scopes /\ t.tok \in Tokens
              => WithGlobal(s, t) \in Sessions
         /\ \A c \in Seq(Entries) : WithCached(s, t, c) \in Sessions
BY SessionEntries DEF WithGlobal, WithCached, Sessions

\* So do the changes for a new token.
LEMMA ChangesAreSessions ==
  ASSUME NEW s \in Sessions, NEW t, NEW new, NEW x \in SessionChanges(s, t, new),
         t.rt \in RefreshTokens, t.aud \in MaybeAudience, t.requested \in SUBSET Scopes,
         t.tok \in Tokens
  PROVE  x \in Sessions
<1>1. CASE isGlobalAudienceAndScope(s, t) /\ x = WithGlobal(s, t)
  BY <1>1, SessionWith
<1>2. ASSUME NEW e, EntryFor(s, t, e),
             \/ x = WithCached(s, t, Append(s.cached, e))
             \/ \E i \in DOMAIN s.cached : x = WithCached(s, t, [s.cached EXCEPT ![i] = e])
      PROVE  x \in Sessions
  <2>1. e.aud \in Audiences /\ e.tok \in Tokens
    BY <1>2, AccessTokensAssumption DEF EntryFor, OrElse, MaybeAudience
  <2>2. e.requested \in SUBSET Scopes
    <3>1. CASE e.requested = t.requested
      BY <3>1
    <3>2. ASSUME NEW i \in DOMAIN s.cached, e.requested = s.cached[i].requested \cup t.requested
          PROVE  e.requested \in SUBSET Scopes
      BY <3>2, SessionEntries DEF Entries
    <3> QED BY <1>2, <3>1, <3>2 DEF EntryFor
  <2>3. e \in Entries
    BY <1>2, <2>1, <2>2 DEF EntryFor, Entry, Entries
  <2>4. Append(s.cached, e) \in Seq(Entries)
    BY <2>3, SessionEntries
  <2>5. \A i \in DOMAIN s.cached : [s.cached EXCEPT ![i] = e] \in Seq(Entries)
    BY <2>3, SessionEntries, ExceptSeq
  <2> QED BY <1>2, <2>4, <2>5, SessionWith
<1> QED BY <1>1, <1>2, ChangeCases, SessionEntries

\* And the token set of a popup.
LEMMA PopupIsSession ==
  ASSUME NEW s \in Sessions, NEW e \in Entries, NEW rt \in RefreshTokens
  PROVE  PopupMerged(s, e, rt) \in Sessions /\ PopupMerged(s, e, rt).rt = rt
<1> DEFINE M == {i \in DOMAIN s.cached : s.cached[i].aud = e.aud}
           first == CHOOSE i \in M : \A j \in M : i <= j
           c == IF M = {} THEN Append(s.cached, e) ELSE [s.cached EXCEPT ![first] = e]
<1>1. c \in Seq(Entries)
  <2>1. CASE M = {}
    BY <2>1, SessionEntries
  <2>2. CASE M # {}
    <3>1. first \in DOMAIN s.cached
      <4>1. M \subseteq Nat
        BY SessionEntries DEF EntriesScoped
      <4> QED BY <2>2, <4>1, SmallestOf
    <3> HIDE DEF first
    <3>2. [s.cached EXCEPT ![first] = e] \in Seq(Entries)
      BY <3>1, SessionEntries, ExceptSeq
    <3> QED BY <2>2, <3>2
  <2> QED BY <2>1, <2>2
<1>2. PopupMerged(s, e, rt) = [s EXCEPT !.rt = rt, !.cached = c]
  BY DEF PopupMerged
<1> HIDE DEF c
<1>3. [s EXCEPT !.rt = rt, !.cached = c] =
        [aud |-> s.aud, requested |-> s.requested, tok |-> s.tok, rt |-> rt, cached |-> c]
  <2> DEFINE m == [s EXCEPT !.rt = rt]
  <2>1. s = [aud |-> s.aud, requested |-> s.requested, tok |-> s.tok, rt |-> s.rt,
             cached |-> s.cached]
    BY DEF Sessions
  <2>2. m = [aud |-> s.aud, requested |-> s.requested, tok |-> s.tok, rt |-> rt,
             cached |-> s.cached]
    BY <2>1
  <2> HIDE DEF m
  <2>3. [m EXCEPT !.cached = c] =
          [aud |-> s.aud, requested |-> s.requested, tok |-> s.tok, rt |-> rt, cached |-> c]
    BY <2>2
  <2> QED BY <2>3 DEF m
<1> QED BY <1>1, <1>2, <1>3, SessionEntries DEF Sessions

\* What the token set of a session comes to.
LEMMA FoundTyped ==
  ASSUME NEW s \in Sessions, NEW aud, NEW scope
  PROVE  LET t == getTokenSetFromSession(s, aud, scope)
         IN  /\ t.aud \in MaybeAudience /\ t.requested \in SUBSET Scopes
             /\ t.tok \in Tokens \cup {NoToken} /\ t.rt = s.rt
<1> DEFINE t == getTokenSetFromSession(s, aud, scope)
<1>1. CASE t = Global(s)
  BY <1>1, SessionEntries DEF Global, TokenSet
<1>2. ASSUME NEW i \in DOMAIN s.cached,
             t = TokenSet(s.cached[i].aud, s.cached[i].requested, s.cached[i].tok, s.rt)
      PROVE  /\ t.aud \in MaybeAudience /\ t.requested \in SUBSET Scopes
             /\ t.tok \in Tokens \cup {NoToken} /\ t.rt = s.rt
  BY <1>2, SessionEntries DEF TokenSet, Entries, MaybeAudience
<1>3. CASE t = TokenSet(NoAudience, {}, NoToken, s.rt)
  BY <1>3 DEF TokenSet, MaybeAudience
<1> HIDE DEF t
<1>4. \/ t = Global(s)
      \/ \E i \in DOMAIN s.cached :
           t = TokenSet(s.cached[i].aud, s.cached[i].requested, s.cached[i].tok, s.rt)
      \/ t = TokenSet(NoAudience, {}, NoToken, s.rt)
  BY SessionEntries, TokenSetCases DEF t
<1> QED BY <1>1, <1>2, <1>3, <1>4 DEF t

\* What the authorization server issues for a request.
LEMMA IssuedTyped ==
  ASSUME login \in MaybeAudience, NEW aud \in MaybeAudience, NEW scope \in SUBSET Scopes
  PROVE  Issued(aud, scope) \in Tokens
BY TokenRequestsAssumption DEF Issued, Tokens, OrElse

LEMMA ResolvedTyped ==
  ASSUME NEW o \in Asks
  PROVE  Resolved(o) \in SUBSET Scopes /\ o.aud \in MaybeAudience /\ o.scope \in SUBSET Scopes
BY AccessTokensAssumption DEF Resolved, Asks, OrElse, MaybeAudience

-----------------------------------------------------------------------------
(* What the steps of a request do.                                         *)

\* A request with other values for what a step may change.
With(q, pc, session, save, tok, new, rotated) ==
    [kind |-> q.kind, pc |-> pc, ask |-> q.ask, session |-> session, save |-> save,
     tok |-> tok, new |-> new, read |-> q.read, rotated |-> rotated]

\* A request becomes q.
Becomes(r, q) == req' = [req EXCEPT ![r] = q]

\* It goes on with the session it read, or retrieved.
Advanced(r, pc, save, tok) ==
    LET q == req[r]
    IN  /\ q.pc \in {"retrieve", "call"}
        /\ pc \in {"call", "respond"} /\ (pc = "call" => q.kind # "token")
        /\ save \in BOOLEAN /\ (q.pc = "call" /\ save => q.save)
        /\ tok \in Tokens \cup {NoToken}
        /\ tok = q.tok \/ (tok = Found(r).tok /\ tok # NoToken)
        /\ Becomes(r, With(q, pc, q.session, save, tok, q.new, q.rotated))
        /\ UNCHANGED <<jar, accepted, spent, login, mishap>>

\* It goes on with what the authorization server gave for its refresh token, or for
\* the code of a popup.
Retrieved(r, pc, session, save, tok, new, rt) ==
    LET q == req[r]
    IN  /\ q.pc \in {"retrieve", "exchange"} /\ new \in BOOLEAN
        /\ pc \in {"call", "respond"} /\ (pc = "call" => q.kind # "token")
        /\ session \in Sessions /\ session.rt \in {q.session.rt, rt}
        /\ save \in BOOLEAN /\ (save => session.rt = rt)
        /\ q.kind = "token" /\ Default # NoAudience => save
        /\ tok \in Tokens \cup {NoToken}
        /\ Becomes(r, With(q, pc, session, save, tok, new, Given(q.session.rt, rt)))
        /\ \/ rt = q.session.rt /\ UNCHANGED <<accepted, spent>>
           \/ /\ rt \in Fresh /\ accepted' = accepted \cup {rt}
              /\ \/ spent' = spent \ {rt}
                 \/ q.session.rt \in accepted /\ spent' = (spent \cup {q.session.rt}) \ {rt}
        /\ UNCHANGED <<jar, login, mishap>>

\* The session and the token are those of the exchange.
FromExchange(r, session, tok, rt) ==
    LET s == req[r].session
        o == req[r].ask
    IN  \/ /\ tok = Refreshed(r, rt).tok
           /\ session = s \/ session \in SessionChanges(s, Refreshed(r, rt), TRUE)
        \/ /\ tok = req[r].tok
           /\ session = WithGlobal(s, TokenSet(s.aud, DefaultScopes, Issued(NoAudience, {}), rt))
        \/ /\ tok = req[r].tok
           /\ session = PopupMerged(s, Entry(o.aud, o.scope,
                           [aud |-> o.aud, scope |-> o.scope \cap Allowed[o.aud]]), rt)
           /\ o.aud # NoAudience

\* A request is the record of its fields.
LEMMA RequestFields ==
  ASSUME TypeInv, NEW r \in Requests
  PROVE  /\ LET q == req[r] IN q = With(q, q.pc, q.session, q.save, q.tok, q.new, q.rotated)
         /\ req \in [Requests -> RequestType] /\ req[r] \in RequestType
         /\ req[r].save \in BOOLEAN /\ req[r].tok \in Tokens \cup {NoToken}
         /\ req[r].ask \in Asks /\ req[r].new \in BOOLEAN
         /\ req[r].pc # "idle" => req[r].session \in Sessions
         /\ req[r].pc = "exchange" => req[r].ask.aud # NoAudience
BY DEF TypeInv, RequestTyped, RequestType, With

\* Changing where a request is and whether it saves does that.
LEMMA PcAndSave ==
  ASSUME TypeInv, NEW r \in Requests, NEW pc, NEW save,
         \/ req' = [req EXCEPT ![r].pc = pc, ![r].save = save]
         \/ req' = [req EXCEPT ![r].pc = pc] /\ save = req[r].save
  PROVE  LET q == req[r]
         IN  Becomes(r, With(q, pc, q.session, save, q.tok, q.new, q.rotated))
<1> DEFINE q == req[r]
           q2 == With(q, pc, q.session, save, q.tok, q.new, q.rotated)
<1>0. /\ q = [kind |-> q.kind, pc |-> q.pc, ask |-> q.ask, session |-> q.session, save |-> q.save,
              tok |-> q.tok, new |-> q.new, read |-> q.read, rotated |-> q.rotated]
      /\ req \in [Requests -> RequestType]
  BY RequestFields DEF With
<1>1. req'[r] = q2
  <2>1. CASE req' = [req EXCEPT ![r].pc = pc, ![r].save = save]
    <3>1. req'[r] = [[q EXCEPT !.pc = pc] EXCEPT !.save = save]
      BY <1>0, <2>1
    <3> HIDE DEF q
    <3> QED BY <1>0, <3>1 DEF With
  <2>2. CASE req' = [req EXCEPT ![r].pc = pc] /\ save = req[r].save
    <3>1. req'[r] = [q EXCEPT !.pc = pc] /\ save = q.save
      BY <1>0, <2>2
    <3> HIDE DEF q
    <3> QED BY <1>0, <3>1 DEF With
  <2> QED BY <2>1, <2>2
<1>2. DOMAIN req' = Requests /\ \A p \in Requests \ {r} : req'[p] = req[p]
  BY RequestFields
<1> QED BY <1>1, <1>2 DEF Becomes

\* The token set found is one of the session's.
LEMMA FoundIs ==
  ASSUME TypeInv, NEW r \in Requests, req[r].pc # "idle"
  PROVE  /\ Found(r).aud \in MaybeAudience /\ Found(r).tok \in Tokens \cup {NoToken}
         /\ Found(r).rt = req[r].session.rt
BY RequestFields, FoundTyped DEF Found

\* And the one that was refreshed is typed.
LEMMA RefreshedTyped ==
  ASSUME TypeInv, NEW r \in Requests, req[r].pc # "idle", NEW rt \in RefreshTokens
  PROVE  LET t == Refreshed(r, rt)
         IN  /\ t.aud \in MaybeAudience /\ t.requested \in SUBSET Scopes
             /\ t.tok \in Tokens /\ t.rt = rt
<1>1. req[r].ask \in Asks /\ Found(r).aud \in MaybeAudience
  BY RequestFields, FoundIs
<1>2. /\ Resolved(req[r].ask) \in SUBSET Scopes /\ req[r].ask.aud \in MaybeAudience
  BY <1>1, ResolvedTyped
<1>3. login \in MaybeAudience
  BY DEF TypeInv
<1>4. Issued(req[r].ask.aud, IF req[r].ask.scope = {} THEN {} ELSE Resolved(req[r].ask)) \in Tokens
  BY <1>2, <1>3, IssuedTyped
<1> QED BY <1>1, <1>2, <1>4 DEF Refreshed, TokenSet, OrElse

LEMMA CachedStep ==
  ASSUME TypeInv, NEW r \in Requests, Cached(r)
  PROVE  \E save, pc : Advanced(r, pc, save, Found(r).tok)
<1> DEFINE q == req[r]
           save == SessionChanges(req[r].session, Found(r), FALSE) # {}
           pc == Onward(req[r].kind)
           tok == Found(r).tok
<1>1. /\ req' = [req EXCEPT ![r].pc = pc, ![r].tok = tok, ![r].save = save]
      /\ UNCHANGED <<jar, accepted, spent, login, mishap>>
      /\ q.pc = "retrieve" /\ tok # NoToken
  BY DEF Cached
<1>2. pc \in {"call", "respond"} /\ (pc = "call" => q.kind # "token")
  BY DEF Onward
<1>3. tok \in Tokens \cup {NoToken}
  BY <1>1, FoundIs
<1>4. save \in BOOLEAN
  OBVIOUS
<1> HIDE DEF save, pc, tok
<1>5. req'[r] = With(q, pc, q.session, save, tok, q.new, q.rotated)
  <2>1. /\ q = [kind |-> q.kind, pc |-> q.pc, ask |-> q.ask, session |-> q.session, save |-> q.save,
                tok |-> q.tok, new |-> q.new, read |-> q.read, rotated |-> q.rotated]
        /\ req \in [Requests -> RequestType]
    BY RequestFields DEF With
  <2>2. req'[r] = [[[q EXCEPT !.pc = pc] EXCEPT !.tok = tok] EXCEPT !.save = save]
    BY <1>1, <2>1
  <2> HIDE DEF q
  <2> QED BY <2>1, <2>2 DEF With
<1>6. Becomes(r, With(q, pc, q.session, save, tok, q.new, q.rotated))
  BY <1>1, <1>5, RequestFields DEF Becomes
<1>7. Advanced(r, pc, save, tok)
  BY <1>1, <1>2, <1>3, <1>4, <1>6 DEF Advanced, tok
<1> QED BY <1>4, <1>7 DEF tok

\* The steps that retrieve nothing.
LEMMA OtherSteps ==
  ASSUME TypeInv, NEW r \in Requests,
         TransferNow(r) \/ Refused(r) \/ MfaRequired(r) \/ CallSucceeds(r) \/ CallFails(r)
  PROVE  \E save, pc : Advanced(r, pc, save, req[r].tok)
<1>0. req[r].save \in BOOLEAN /\ req[r].tok \in Tokens \cup {NoToken}
  BY RequestFields
<1>1. CASE TransferNow(r)
  <2>1. Advanced(r, "call", req[r].save, req[r].tok)
    BY <1>0, <1>1, PcAndSave DEF TransferNow, Advanced
  <2> QED BY <1>0, <2>1
<1>2. CASE Refused(r)
  <2>1. Advanced(r, "respond", req[r].save, req[r].tok)
    BY <1>0, <1>2, PcAndSave DEF Refused, Advanced
  <2> QED BY <1>0, <2>1
<1>3. CASE MfaRequired(r)
  <2>1. Advanced(r, "respond", TRUE, req[r].tok)
    BY <1>0, <1>3, PcAndSave DEF MfaRequired, Advanced
  <2> QED BY <2>1
<1>4. CASE CallSucceeds(r)
  <2>1. Advanced(r, "respond", req[r].save, req[r].tok)
    BY <1>0, <1>4, PcAndSave DEF CallSucceeds, Advanced
  <2> QED BY <1>0, <2>1
<1>5. CASE CallFails(r)
  <2>1. Advanced(r, "respond", FALSE, req[r].tok)
    BY <1>0, <1>5, PcAndSave DEF CallFails, Advanced
  <2> QED BY <2>1
<1> QED BY <1>1, <1>2, <1>3, <1>4, <1>5

\* A step that retrieves a token changes all there is to a request.
LEMMA RetrievedIs ==
  ASSUME TypeInv, NEW r \in Requests, NEW pc, NEW tok, NEW new, NEW session, NEW save, NEW rotated,
         req' = [req EXCEPT ![r].pc = pc, ![r].tok = tok, ![r].new = new, ![r].session = session, ![r].save = save, ![r].rotated = rotated]
  PROVE  Becomes(r, With(req[r], pc, session, save, tok, new, rotated))
<1> DEFINE q == req[r]
           f1 == [req EXCEPT ![r].pc = pc]
           f2 == [f1 EXCEPT ![r].tok = tok]
           f3 == [f2 EXCEPT ![r].new = new]
           f4 == [f3 EXCEPT ![r].session = session]
           f5 == [f4 EXCEPT ![r].save = save]
           f6 == [f5 EXCEPT ![r].rotated = rotated]
           Is(f, w) == f = [req EXCEPT ![r] = w]
<1>1. req' = f6
  OBVIOUS
<1>2. Is(req, With(q, q.pc, q.session, q.save, q.tok, q.new, q.rotated))
  BY RequestFields
<1> HIDE DEF q
<1>3. Is(f1, With(q, pc, q.session, q.save, q.tok, q.new, q.rotated))
  <2>1. [With(q, q.pc, q.session, q.save, q.tok, q.new, q.rotated) EXCEPT !.pc = pc] = With(q, pc, q.session, q.save, q.tok, q.new, q.rotated)
    BY DEF With
  <2> QED BY <1>2, <2>1
<1>4. Is(f2, With(q, pc, q.session, q.save, tok, q.new, q.rotated))
  <2>1. [With(q, pc, q.session, q.save, q.tok, q.new, q.rotated) EXCEPT !.tok = tok] = With(q, pc, q.session, q.save, tok, q.new, q.rotated)
    BY DEF With
  <2> HIDE DEF f1
  <2> QED BY <1>3, <2>1
<1>5. Is(f3, With(q, pc, q.session, q.save, tok, new, q.rotated))
  <2>1. [With(q, pc, q.session, q.save, tok, q.new, q.rotated) EXCEPT !.new = new] = With(q, pc, q.session, q.save, tok, new, q.rotated)
    BY DEF With
  <2> HIDE DEF f2
  <2> QED BY <1>4, <2>1
<1>6. Is(f4, With(q, pc, session, q.save, tok, new, q.rotated))
  <2>1. [With(q, pc, q.session, q.save, tok, new, q.rotated) EXCEPT !.session = session] = With(q, pc, session, q.save, tok, new, q.rotated)
    BY DEF With
  <2> HIDE DEF f3
  <2> QED BY <1>5, <2>1
<1>7. Is(f5, With(q, pc, session, save, tok, new, q.rotated))
  <2>1. [With(q, pc, session, q.save, tok, new, q.rotated) EXCEPT !.save = save] = With(q, pc, session, save, tok, new, q.rotated)
    BY DEF With
  <2> HIDE DEF f4
  <2> QED BY <1>6, <2>1
<1>8. Is(f6, With(q, pc, session, save, tok, new, rotated))
  <2>1. [With(q, pc, session, save, tok, new, q.rotated) EXCEPT !.rotated = rotated] = With(q, pc, session, save, tok, new, rotated)
    BY DEF With
  <2> HIDE DEF f5
  <2> QED BY <1>7, <2>1
<1> HIDE DEF f6
<1> QED BY <1>1, <1>8 DEF Becomes, q

\* One that refreshes a session for its ID token keeps the access token there is.
LEMMA TransferIs ==
  ASSUME TypeInv, NEW r \in Requests, NEW pc, NEW new, NEW save, NEW session, NEW rotated,
         req' = [req EXCEPT ![r].pc = pc, ![r].new = new, ![r].save = save, ![r].session = session, ![r].rotated = rotated]
  PROVE  Becomes(r, With(req[r], pc, session, save, req[r].tok, new, rotated))
<1> DEFINE q == req[r]
           f1 == [req EXCEPT ![r].pc = pc]
           f2 == [f1 EXCEPT ![r].new = new]
           f3 == [f2 EXCEPT ![r].save = save]
           f4 == [f3 EXCEPT ![r].session = session]
           f5 == [f4 EXCEPT ![r].rotated = rotated]
           Is(f, w) == f = [req EXCEPT ![r] = w]
<1>1. req' = f5
  OBVIOUS
<1>2. Is(req, With(q, q.pc, q.session, q.save, q.tok, q.new, q.rotated))
  BY RequestFields
<1> HIDE DEF q
<1>3. Is(f1, With(q, pc, q.session, q.save, q.tok, q.new, q.rotated))
  <2>1. [With(q, q.pc, q.session, q.save, q.tok, q.new, q.rotated) EXCEPT !.pc = pc] = With(q, pc, q.session, q.save, q.tok, q.new, q.rotated)
    BY DEF With
  <2> QED BY <1>2, <2>1
<1>4. Is(f2, With(q, pc, q.session, q.save, q.tok, new, q.rotated))
  <2>1. [With(q, pc, q.session, q.save, q.tok, q.new, q.rotated) EXCEPT !.new = new] = With(q, pc, q.session, q.save, q.tok, new, q.rotated)
    BY DEF With
  <2> HIDE DEF f1
  <2> QED BY <1>3, <2>1
<1>5. Is(f3, With(q, pc, q.session, save, q.tok, new, q.rotated))
  <2>1. [With(q, pc, q.session, q.save, q.tok, new, q.rotated) EXCEPT !.save = save] = With(q, pc, q.session, save, q.tok, new, q.rotated)
    BY DEF With
  <2> HIDE DEF f2
  <2> QED BY <1>4, <2>1
<1>6. Is(f4, With(q, pc, session, save, q.tok, new, q.rotated))
  <2>1. [With(q, pc, q.session, save, q.tok, new, q.rotated) EXCEPT !.session = session] = With(q, pc, session, save, q.tok, new, q.rotated)
    BY DEF With
  <2> HIDE DEF f3
  <2> QED BY <1>5, <2>1
<1>7. Is(f5, With(q, pc, session, save, q.tok, new, rotated))
  <2>1. [With(q, pc, session, save, q.tok, new, q.rotated) EXCEPT !.rotated = rotated] = With(q, pc, session, save, q.tok, new, rotated)
    BY DEF With
  <2> HIDE DEF f4
  <2> QED BY <1>6, <2>1
<1> HIDE DEF f5
<1> QED BY <1>1, <1>7 DEF Becomes, q

\* And so does the callback of a popup.
LEMMA PopupIs ==
  ASSUME TypeInv, NEW r \in Requests, NEW pc, NEW save, NEW session, NEW rotated,
         req' = [req EXCEPT ![r].pc = pc, ![r].save = save, ![r].session = session, ![r].rotated = rotated]
  PROVE  Becomes(r, With(req[r], pc, session, save, req[r].tok, req[r].new, rotated))
<1> DEFINE q == req[r]
           f1 == [req EXCEPT ![r].pc = pc]
           f2 == [f1 EXCEPT ![r].save = save]
           f3 == [f2 EXCEPT ![r].session = session]
           f4 == [f3 EXCEPT ![r].rotated = rotated]
           Is(f, w) == f = [req EXCEPT ![r] = w]
<1>1. req' = f4
  OBVIOUS
<1>2. Is(req, With(q, q.pc, q.session, q.save, q.tok, q.new, q.rotated))
  BY RequestFields
<1> HIDE DEF q
<1>3. Is(f1, With(q, pc, q.session, q.save, q.tok, q.new, q.rotated))
  <2>1. [With(q, q.pc, q.session, q.save, q.tok, q.new, q.rotated) EXCEPT !.pc = pc] = With(q, pc, q.session, q.save, q.tok, q.new, q.rotated)
    BY DEF With
  <2> QED BY <1>2, <2>1
<1>4. Is(f2, With(q, pc, q.session, save, q.tok, q.new, q.rotated))
  <2>1. [With(q, pc, q.session, q.save, q.tok, q.new, q.rotated) EXCEPT !.save = save] = With(q, pc, q.session, save, q.tok, q.new, q.rotated)
    BY DEF With
  <2> HIDE DEF f1
  <2> QED BY <1>3, <2>1
<1>5. Is(f3, With(q, pc, session, save, q.tok, q.new, q.rotated))
  <2>1. [With(q, pc, q.session, save, q.tok, q.new, q.rotated) EXCEPT !.session = session] = With(q, pc, session, save, q.tok, q.new, q.rotated)
    BY DEF With
  <2> HIDE DEF f2
  <2> QED BY <1>4, <2>1
<1>6. Is(f4, With(q, pc, session, save, q.tok, q.new, rotated))
  <2>1. [With(q, pc, session, save, q.tok, q.new, q.rotated) EXCEPT !.rotated = rotated] = With(q, pc, session, save, q.tok, q.new, rotated)
    BY DEF With
  <2> HIDE DEF f3
  <2> QED BY <1>5, <2>1
<1> HIDE DEF f4
<1> QED BY <1>1, <1>6 DEF Becomes, q

\* The refresh token a step may be given is one.
LEMMA GivenTyped ==
  ASSUME NEW s \in Sessions, NEW rt \in {s.rt} \cup Fresh
  PROVE  rt \in RefreshTokens /\ (rt # s.rt => rt \in Fresh)
BY SessionEntries DEF Fresh

LEMMA RefreshStep ==
  ASSUME TypeInv, NEW r \in Requests, Refresh(r)
  PROVE  \E pc, session, save, tok, new, rt :
           /\ Retrieved(r, pc, session, save, tok, new, rt)
           /\ FromExchange(r, session, tok, rt)
<1> DEFINE q == req[r]
           s == req[r].session
           S(rt) == IF SessionChanges(s, Refreshed(r, rt), TRUE) = {} THEN s
                    ELSE CHOOSE x \in SessionChanges(s, Refreshed(r, rt), TRUE) : TRUE
           V(rt) == SessionChanges(s, Refreshed(r, rt), TRUE) # {} /\ req[r].kind # "connect"
<1>1. PICK rt \in {s.rt} \cup Fresh :
        /\ Rotate(s.rt, rt)
        /\ req' = [req EXCEPT ![r].pc = Onward(req[r].kind), ![r].tok = Refreshed(r, rt).tok,
                              ![r].new = TRUE, ![r].session = S(rt), ![r].save = V(rt),
                              ![r].rotated = Given(s.rt, rt)]
  BY DEF Refresh
<1>2. /\ q.pc = "retrieve" /\ s.rt \in accepted /\ UNCHANGED <<jar, login, mishap>>
      /\ s \in Sessions
  BY RequestFields DEF Refresh
<1>3. rt \in RefreshTokens /\ (rt # s.rt => rt \in Fresh)
  BY <1>2, GivenTyped
<1> DEFINE t == Refreshed(r, rt)
           changes == SessionChanges(s, t, TRUE)
           session == S(rt)
           save == V(rt)
<1>4. /\ t.aud \in MaybeAudience /\ t.requested \in SUBSET Scopes
      /\ t.tok \in Tokens /\ t.rt = rt
  BY <1>2, <1>3, RefreshedTyped
<1>5. session = s \/ session \in changes
  OBVIOUS
<1>6. save \in BOOLEAN /\ (save => session \in changes)
  OBVIOUS
<1>7. q.kind = "token" /\ Default # NoAudience => save
  <2>1. Default # NoAudience => changes # {}
    <3> HIDE DEF t
    <3> QED BY NewTokenChanges
  <2> QED BY <2>1
<1>8. Becomes(r, With(q, Onward(q.kind), session, save, t.tok, TRUE, Given(s.rt, rt)))
  <2> HIDE DEF S, V, t
  <2> QED BY <1>1, RetrievedIs DEF t
<1> HIDE DEF t, session, save
<1>9. \A x \in changes : x \in Sessions /\ x.rt = rt
  <2> TAKE x \in changes
  <2>1. x \in Sessions
    BY <1>2, <1>3, <1>4, ChangesAreSessions
  <2>2. x.rt = t.rt
    <3> HIDE DEF s
    <3>1. x \in SessionChanges(s, t, TRUE)
      OBVIOUS
    <3> HIDE DEF changes
    <3> QED BY <3>1, ChangesKeepRefreshToken
  <2> QED BY <1>4, <2>1, <2>2
<1>10. /\ session \in Sessions /\ session.rt \in {s.rt, rt} /\ (save => session.rt = rt)
  BY <1>2, <1>5, <1>6, <1>9
<1>11. \/ rt = s.rt /\ UNCHANGED <<accepted, spent>>
       \/ /\ rt \in Fresh /\ accepted' = accepted \cup {rt}
          /\ s.rt \in accepted /\ spent' = (spent \cup {s.rt}) \ {rt}
  BY <1>1, <1>2, <1>3 DEF Rotate
<1>12. Onward(q.kind) \in {"call", "respond"} /\ (Onward(q.kind) = "call" => q.kind # "token")
  BY DEF Onward
<1>13. Retrieved(r, Onward(q.kind), session, save, t.tok, TRUE, rt)
  BY <1>2, <1>4, <1>6, <1>7, <1>8, <1>10, <1>11, <1>12 DEF Retrieved
<1>14. FromExchange(r, session, t.tok, rt)
  BY <1>5 DEF FromExchange, t
<1> QED BY <1>13, <1>14

LEMMA TransferStep ==
  ASSUME TypeInv, NEW r \in Requests, TransferRefreshed(r)
  PROVE  \E pc, session, save, tok, new, rt :
           /\ Retrieved(r, pc, session, save, tok, new, rt)
           /\ FromExchange(r, session, tok, rt)
<1> DEFINE q == req[r]
           s == req[r].session
           S(rt) == WithGlobal(s, TokenSet(s.aud, DefaultScopes, Issued(NoAudience, {}), rt))
<1>1. PICK rt \in {s.rt} \cup Fresh :
        /\ Rotate(s.rt, rt)
        /\ req' = [req EXCEPT ![r].pc = "call", ![r].new = TRUE, ![r].save = TRUE,
                              ![r].session = S(rt), ![r].rotated = Given(s.rt, rt)]
  BY DEF TransferRefreshed
<1>2. /\ q.pc = "retrieve" /\ s.rt \in accepted /\ UNCHANGED <<jar, login, mishap>>
      /\ s \in Sessions /\ q.kind = "transfer" /\ q.tok \in Tokens \cup {NoToken}
  BY RequestFields DEF TransferRefreshed
<1>3. rt \in RefreshTokens /\ (rt # s.rt => rt \in Fresh)
  BY <1>2, GivenTyped
<1>4. S(rt) \in Sessions /\ S(rt).rt = rt
  <2> DEFINE t == TokenSet(s.aud, DefaultScopes, Issued(NoAudience, {}), rt)
  <2>1. Issued(NoAudience, {}) \in Tokens
    BY IssuedTyped DEF TypeInv, MaybeAudience
  <2>2. /\ t.aud \in MaybeAudience /\ t.requested \in SUBSET Scopes /\ t.tok \in Tokens
        /\ t.rt = rt
    BY <1>2, <2>1, SessionEntries, TokenRequestsAssumption DEF TokenSet
  <2> HIDE DEF t
  <2>3. WithGlobal(s, t) \in Sessions /\ WithGlobal(s, t).rt = rt
    BY <1>2, <1>3, <2>2, SessionWith DEF WithGlobal
  <2> QED BY <2>3 DEF t
<1>5. Becomes(r, With(q, "call", S(rt), TRUE, q.tok, TRUE, Given(s.rt, rt)))
  BY <1>1, TransferIs
<1>6. \/ rt = s.rt /\ UNCHANGED <<accepted, spent>>
      \/ /\ rt \in Fresh /\ accepted' = accepted \cup {rt}
         /\ s.rt \in accepted /\ spent' = (spent \cup {s.rt}) \ {rt}
  BY <1>1, <1>2, <1>3 DEF Rotate
<1>7. FromExchange(r, S(rt), q.tok, rt)
  BY DEF FromExchange
<1> HIDE DEF S
<1>8. Retrieved(r, "call", S(rt), TRUE, q.tok, TRUE, rt)
  BY <1>2, <1>4, <1>5, <1>6 DEF Retrieved
<1> QED BY <1>7, <1>8

LEMMA PopupStep ==
  ASSUME TypeInv, NEW r \in Requests, PopupExchange(r)
  PROVE  \E pc, session, save, tok, new, rt :
           /\ Retrieved(r, pc, session, save, tok, new, rt)
           /\ FromExchange(r, session, tok, rt)
<1> DEFINE q == req[r]
           s == req[r].session
           o == req[r].ask
           e == Entry(o.aud, o.scope, [aud |-> o.aud, scope |-> o.scope \cap Allowed[o.aud]])
           S(rt) == PopupMerged(s, e, rt)
<1>1. PICK rt \in {s.rt} \cup Fresh :
        /\ accepted' = IF rt = s.rt THEN accepted ELSE accepted \cup {rt}
        /\ spent' = IF rt = s.rt THEN spent ELSE spent \ {rt}
        /\ req' = [req EXCEPT ![r].pc = "respond", ![r].save = TRUE,
                              ![r].session = S(rt), ![r].rotated = Given(s.rt, rt)]
  BY DEF PopupExchange
<1>2. /\ q.pc = "exchange" /\ UNCHANGED <<jar, login, mishap>>
      /\ s \in Sessions /\ q.tok \in Tokens \cup {NoToken} /\ q.new \in BOOLEAN
      /\ o \in Asks /\ o.aud # NoAudience
  BY RequestFields DEF PopupExchange
<1>3. rt \in RefreshTokens /\ (rt # s.rt => rt \in Fresh)
  BY <1>2, GivenTyped
<1>4. S(rt) \in Sessions /\ S(rt).rt = rt
  <2>1. e \in Entries
    BY <1>2, TokenRequestsAssumption, ResolvedTyped DEF Entry, Entries, Tokens, MaybeAudience
  <2> HIDE DEF e
  <2> QED BY <1>2, <1>3, <2>1, PopupIsSession
<1>5. Becomes(r, With(q, "respond", S(rt), TRUE, q.tok, q.new, Given(s.rt, rt)))
  BY <1>1, PopupIs
<1>6. \/ rt = s.rt /\ UNCHANGED <<accepted, spent>>
      \/ rt \in Fresh /\ accepted' = accepted \cup {rt} /\ spent' = spent \ {rt}
  BY <1>1, <1>3
<1>7. FromExchange(r, S(rt), q.tok, rt)
  BY <1>2 DEF FromExchange
<1> HIDE DEF S
<1>8. Retrieved(r, "respond", S(rt), TRUE, q.tok, q.new, rt)
  BY <1>2, <1>4, <1>5, <1>6 DEF Retrieved
<1> QED BY <1>7, <1>8

\* What a request begins with.
Begun(k, o) ==
    [kind |-> k,
     pc |-> IF k = "popup" THEN "exchange" ELSE IF k = "touch" THEN "respond" ELSE "retrieve",
     ask |-> o, session |-> jar, save |-> k = "touch", tok |-> NoToken, new |-> FALSE,
     read |-> jar.rt, rotated |-> NoRefreshToken]

LEMMA StartStep ==
  ASSUME TypeInv, NEW r \in Requests, NEW k \in Kinds, NEW o \in AsksOf[k], Start(r, k, o)
  PROVE  Becomes(r, Begun(k, o)) /\ UNCHANGED <<jar, accepted, spent, login, mishap>>
<1> DEFINE pc == IF k = "popup" THEN "exchange" ELSE IF k = "touch" THEN "respond" ELSE "retrieve"
           save == k = "touch"
           touch == "touch"
           idle == "idle"
           no == FALSE
           i1 == [Idle EXCEPT !.kind = k]
           i2 == [i1 EXCEPT !.ask = o]
           i3 == [i2 EXCEPT !.pc = pc]
           i4 == [i3 EXCEPT !.save = save]
           i5 == [i4 EXCEPT !.session = jar]
           i6 == [i5 EXCEPT !.read = jar.rt]
<1>1. req' = [req EXCEPT ![r] = i6]
  BY DEF Start
<1>0. Idle = [kind |-> touch, pc |-> idle, ask |-> NoAsk, session |-> NoToken, save |-> no,
           tok |-> NoToken, new |-> no, read |-> NoRefreshToken, rotated |-> NoRefreshToken]
  BY DEF Idle
<1> HIDE DEF pc, save, touch, idle, no
<1>2. i1 = [kind |-> k, pc |-> idle, ask |-> NoAsk, session |-> NoToken, save |-> no,
           tok |-> NoToken, new |-> no, read |-> NoRefreshToken, rotated |-> NoRefreshToken]
  BY <1>0
<1> HIDE DEF i1
<1>3. i2 = [kind |-> k, pc |-> idle, ask |-> o, session |-> NoToken, save |-> no,
           tok |-> NoToken, new |-> no, read |-> NoRefreshToken, rotated |-> NoRefreshToken]
  BY <1>2
<1> HIDE DEF i2
<1>4. i3 = [kind |-> k, pc |-> pc, ask |-> o, session |-> NoToken, save |-> no,
           tok |-> NoToken, new |-> no, read |-> NoRefreshToken, rotated |-> NoRefreshToken]
  BY <1>3
<1> HIDE DEF i3
<1>5. i4 = [kind |-> k, pc |-> pc, ask |-> o, session |-> NoToken, save |-> save,
           tok |-> NoToken, new |-> no, read |-> NoRefreshToken, rotated |-> NoRefreshToken]
  BY <1>4
<1> HIDE DEF i4
<1>6. i5 = [kind |-> k, pc |-> pc, ask |-> o, session |-> jar, save |-> save,
           tok |-> NoToken, new |-> no, read |-> NoRefreshToken, rotated |-> NoRefreshToken]
  BY <1>5
<1> HIDE DEF i5
<1>7. i6 = [kind |-> k, pc |-> pc, ask |-> o, session |-> jar, save |-> save,
           tok |-> NoToken, new |-> no, read |-> jar.rt, rotated |-> NoRefreshToken]
  BY <1>6
<1> HIDE DEF i6
<1>8. Becomes(r, i6)
  BY <1>1 DEF Becomes
<1> QED BY <1>7, <1>8 DEF Begun, pc, save, no, Start

\* Every step is one of these.
LEMMA StepCases ==
  ASSUME TypeInv, Next
  PROVE  \/ \E r \in Requests :
              \/ \E k \in Kinds : \E o \in AsksOf[k] : Start(r, k, o)
              \/ \E pc, save, tok : Advanced(r, pc, save, tok)
              \/ \E pc, session, save, tok, new, rt :
                   /\ Retrieved(r, pc, session, save, tok, new, rt)
                   /\ FromExchange(r, session, tok, rt)
              \/ Respond(r) \/ Fail(r)
         \/ \E rt \in RefreshTokens : OverlapEnds(rt)
<1>1. CASE \E rt \in RefreshTokens : OverlapEnds(rt)
  BY <1>1
<1>2. ASSUME NEW r \in Requests,
             \/ \E k \in Kinds : \E o \in AsksOf[k] : Start(r, k, o)
             \/ Respond(r) \/ Fail(r)
      PROVE  \/ \E k \in Kinds : \E o \in AsksOf[k] : Start(r, k, o)
             \/ Respond(r) \/ Fail(r)
  BY <1>2
<1>3. ASSUME NEW r \in Requests,
             \/ Cached(r) \/ TransferNow(r) \/ Refused(r) \/ MfaRequired(r)
             \/ CallSucceeds(r) \/ CallFails(r)
      PROVE  \E pc, save, tok : Advanced(r, pc, save, tok)
  BY <1>3, CachedStep, OtherSteps
<1>4. ASSUME NEW r \in Requests, Refresh(r) \/ TransferRefreshed(r) \/ PopupExchange(r)
      PROVE  \E pc, session, save, tok, new, rt :
               /\ Retrieved(r, pc, session, save, tok, new, rt)
               /\ FromExchange(r, session, tok, rt)
  BY <1>4, RefreshStep, TransferStep, PopupStep
<1> QED BY <1>1, <1>2, <1>3, <1>4 DEF Next

-----------------------------------------------------------------------------
(* Type correctness.                                                       *)

\* A request that becomes a typed one, and the rest of the state with it.
LEMMA TypesKept ==
  ASSUME TypeInv, NEW r \in Requests, NEW q, Becomes(r, q), RequestTyped(q),
         jar' \in Sessions, accepted' \subseteq RefreshTokens, spent' \subseteq accepted',
         login' = login, mishap' \in BOOLEAN
  PROVE  TypeInv'
<1>1. req' \in [Requests -> RequestType]
  BY DEF TypeInv, Becomes, RequestTyped
<1>2. \A p \in Requests : RequestTyped(req'[p])
  BY DEF TypeInv, Becomes
<1>3. \A p \in Requests : RequestTyped(req[p])'
  BY <1>2 DEF RequestTyped
<1> QED BY <1>1, <1>3 DEF TypeInv

\* An idle request is typed.
LEMMA IdleTyped == RequestTyped(Idle)
<1>1. NoAsk \in Asks
  BY DEF NoAsk, Asks, MaybeAudience
<1>2. Idle \in RequestType
  BY <1>1 DEF Idle, RequestType, MaybeRefreshToken
<1> QED BY <1>2 DEF RequestTyped, Idle

LEMMA StartTyped ==
  ASSUME TypeInv, NEW r \in Requests, NEW k \in Kinds, NEW o \in AsksOf[k], Start(r, k, o)
  PROVE  TypeInv'
<1>1. k \in {"token", "proxy", "transfer", "connect", "popup", "touch"} /\ o \in Asks
      /\ (k = "popup" => o.aud # NoAudience)
  BY TokenRequestsAssumption
<1>2. jar \in Sessions /\ jar.rt \in RefreshTokens
  BY SessionEntries DEF TypeInv
<1>3. Begun(k, o) \in RequestType
  BY <1>1, <1>2 DEF Begun, RequestType, MaybeRefreshToken
<1>4. RequestTyped(Begun(k, o))
  BY <1>1, <1>2, <1>3 DEF RequestTyped, Begun
<1> QED BY <1>4, StartStep, TypesKept DEF TypeInv

LEMMA AdvancedTyped ==
  ASSUME TypeInv, NEW r \in Requests, NEW pc, NEW save, NEW tok, Advanced(r, pc, save, tok)
  PROVE  TypeInv'
<1> DEFINE q == req[r]
           q2 == With(q, pc, q.session, save, tok, q.new, q.rotated)
<1>1. q \in RequestType /\ q.session \in Sessions
  BY RequestFields DEF Advanced
<1>2. /\ pc \in {"call", "respond"} /\ save \in BOOLEAN /\ tok \in Tokens \cup {NoToken}
      /\ Becomes(r, q2) /\ UNCHANGED <<jar, accepted, spent, login, mishap>>
  BY DEF Advanced
<1>3. q2 \in RequestType
  BY <1>1, <1>2 DEF With, RequestType
<1>4. RequestTyped(q2)
  BY <1>1, <1>2, <1>3 DEF RequestTyped, With
<1> HIDE DEF q2
<1> QED BY <1>2, <1>4, TypesKept DEF TypeInv

LEMMA RetrievedTyped ==
  ASSUME TypeInv, NEW r \in Requests, NEW pc, NEW session, NEW save, NEW tok, NEW new, NEW rt,
         Retrieved(r, pc, session, save, tok, new, rt)
  PROVE  TypeInv'
<1> DEFINE q == req[r]
           rotated == Given(q.session.rt, rt)
           q2 == With(q, pc, session, save, tok, new, rotated)
<1>1. /\ q \in RequestType /\ q.session \in Sessions /\ q.session.rt \in RefreshTokens
      /\ accepted \subseteq RefreshTokens /\ spent \subseteq accepted
  BY RequestFields, SessionEntries DEF Retrieved, TypeInv
<1>2. /\ pc \in {"call", "respond"} /\ save \in BOOLEAN /\ tok \in Tokens \cup {NoToken}
      /\ new \in BOOLEAN /\ session \in Sessions
      /\ Becomes(r, q2) /\ UNCHANGED <<jar, login, mishap>>
  BY DEF Retrieved
<1>3. rt \in RefreshTokens
  BY <1>1 DEF Retrieved, Fresh
<1>4. accepted' \subseteq RefreshTokens /\ spent' \subseteq accepted'
  BY <1>1, <1>3 DEF Retrieved
<1>5. rotated \in MaybeRefreshToken
  BY <1>3 DEF Given, MaybeRefreshToken
<1> HIDE DEF rotated
<1>6. q2 \in RequestType
  BY <1>1, <1>2, <1>5 DEF With, RequestType
<1>7. RequestTyped(q2)
  BY <1>2, <1>6 DEF RequestTyped, With
<1> HIDE DEF q2
<1> QED BY <1>2, <1>4, <1>7, TypesKept DEF TypeInv

\* A request ends.
LEMMA EndIs ==
  ASSUME TypeInv, NEW r \in Requests, req' = [req EXCEPT ![r] = Idle]
  PROVE  Becomes(r, Idle)
BY RequestFields DEF Becomes

LEMMA EndTyped ==
  ASSUME TypeInv, NEW r \in Requests, Respond(r) \/ Fail(r)
  PROVE  TypeInv'
<1>1. Becomes(r, Idle) /\ UNCHANGED <<accepted, spent, login>>
  BY EndIs DEF Respond, Fail
<1>2. mishap' \in BOOLEAN
  BY RequestFields DEF TypeInv, Respond, Fail, Mishap
<1>3. jar' \in Sessions
  BY RequestFields DEF TypeInv, Respond, Fail
<1> QED BY <1>1, <1>2, <1>3, IdleTyped, TypesKept DEF TypeInv

LEMMA OverlapTyped ==
  ASSUME TypeInv, NEW rt \in RefreshTokens, OverlapEnds(rt)
  PROVE  TypeInv'
<1>1. accepted' \subseteq RefreshTokens /\ spent' \subseteq accepted'
  BY DEF TypeInv, OverlapEnds
<1>2. jar' = jar /\ req' = req /\ login' = login /\ mishap' = mishap
  BY DEF OverlapEnds
<1> QED BY <1>1, <1>2 DEF TypeInv, RequestTyped

LEMMA InitTyped ==
  ASSUME Init
  PROVE  TypeInv
<1>1. PICK aud \in LoginAudiences, rt \in RefreshTokens :
        /\ jar = [aud |-> aud, requested |-> LoginScope,
                  tok |-> [aud |-> aud, scope |-> LoginScope \cap Allowed[aud]],
                  rt |-> rt, cached |-> <<>>]
        /\ login = aud /\ accepted = {rt} /\ spent = {} /\ mishap = FALSE
        /\ req = [r \in Requests |-> Idle]
  BY DEF Init
<1>2. aud \in MaybeAudience /\ LoginScope \in SUBSET Scopes
  BY TokenRequestsAssumption
<1>3. jar \in Sessions
  <2>1. [aud |-> aud, scope |-> LoginScope \cap Allowed[aud]] \in Tokens
    BY <1>2 DEF Tokens
  <2>2. <<>> \in Seq(Entries)
    OBVIOUS
  <2> QED BY <1>1, <1>2, <2>1, <2>2 DEF Sessions
<1>4. /\ req \in [Requests -> RequestType] /\ \A r \in Requests : RequestTyped(req[r])
  BY <1>1, IdleTyped DEF RequestTyped
<1>5. accepted \subseteq RefreshTokens /\ spent \subseteq accepted
  BY <1>1
<1> QED BY <1>1, <1>2, <1>3, <1>4, <1>5 DEF TypeInv

LEMMA NextTyped ==
  ASSUME TypeInv, [Next]_vars
  PROVE  TypeInv'
<1>1. CASE UNCHANGED vars
  BY <1>1 DEF TypeInv, RequestTyped, vars
<1>2. CASE Next
  BY <1>2, StepCases, StartTyped, AdvancedTyped, RetrievedTyped, EndTyped, OverlapTyped
<1> QED BY <1>1, <1>2

\* The type invariant that the steps keep.
THEOREM TypeInvariant == Spec => []TypeInv
<1> QED BY InitTyped, NextTyped, PTL DEF Spec

(* Sessions, access tokens and refresh tokens stay what they are, whatever *)
(* is merged into a session and however requests overlap.                  *)
THEOREM TokensTypeCorrect == Spec => []TypeOK
<1>1. TypeInv => TypeOK
  BY RequestFields DEF TypeInv, TypeOK
<1> QED BY <1>1, TypeInvariant, PTL

-----------------------------------------------------------------------------
(* Refresh tokens.                                                         *)

\* What a step of one request leaves alone.
LEMMA BecomesIs ==
  ASSUME TypeInv, NEW r \in Requests, NEW q, Becomes(r, q)
  PROVE  req'[r] = q /\ \A p \in Requests \ {r} : req'[p] = req[p]
BY RequestFields DEF Becomes

\* A fresh refresh token is new to everyone.
LEMMA FreshIs ==
  ASSUME NEW rt \in Fresh
  PROVE  /\ rt \in RefreshTokens /\ rt # NoRefreshToken /\ rt # jar.rt
         /\ \A p \in Requests : /\ req[p].rotated # rt
                                /\ req[p].pc # "idle" => req[p].session.rt # rt
BY TokenRequestsAssumption DEF Fresh, Held

LEMMA StartRotation ==
  ASSUME TypeInv, RotationInv, NEW r \in Requests, NEW k \in Kinds, NEW o \in AsksOf[k],
         Start(r, k, o)
  PROVE  RotationInv'
<1>1. /\ UNCHANGED <<jar, accepted, spent, mishap>>
      /\ \A p \in Requests \ {r} : req'[p] = req[p]
      /\ req'[r].rotated = NoRefreshToken /\ req'[r].session = jar
  <2>1. Becomes(r, Begun(k, o)) /\ UNCHANGED <<jar, accepted, spent, login, mishap>>
    BY StartStep
  <2>2. req'[r] = Begun(k, o) /\ \A p \in Requests \ {r} : req'[p] = req[p]
    BY <2>1, BecomesIs
  <2> QED BY <2>1, <2>2 DEF Begun
<1>2. req[r].rotated = NoRefreshToken
  BY DEF RotationInv, Unsaved, Start
<1>3. JarUsable'
  BY <1>1, <1>2 DEF RotationInv, JarUsable
<1>4. \A p \in Requests : Unsaved(p)'
  BY <1>1, <1>2 DEF RotationInv, Unsaved
<1>5. \A p \in Requests : SavesRotated(p)'
  BY <1>1, <1>2 DEF RotationInv, SavesRotated
<1> QED BY <1>3, <1>4, <1>5 DEF RotationInv

LEMMA AdvancedRotation ==
  ASSUME TypeInv, RotationInv, NEW r \in Requests, NEW pc, NEW save, NEW tok,
         Advanced(r, pc, save, tok)
  PROVE  RotationInv'
<1>1. /\ UNCHANGED <<jar, accepted, spent, mishap>>
      /\ \A p \in Requests \ {r} : req'[p] = req[p]
      /\ req'[r].rotated = req[r].rotated /\ req'[r].session = req[r].session
      /\ req'[r].read = req[r].read /\ req'[r].save = save /\ req'[r].pc = pc
  BY BecomesIs DEF Advanced, With
<1>2. req[r].pc # "idle" /\ pc # "idle"
  BY DEF Advanced
<1>3. req[r].rotated # NoRefreshToken /\ save => req[r].save
  BY DEF Advanced, TypeInv, RequestTyped
<1>4. JarUsable'
  BY <1>1 DEF RotationInv, JarUsable
<1>5. \A p \in Requests : Unsaved(p)'
  <2> SUFFICES ASSUME NEW p \in Requests
               PROVE  Unsaved(p)'
    OBVIOUS
  <2>1. req'[p].rotated = req[p].rotated
    BY <1>1
  <2>2. \A q \in Requests : /\ req'[q].rotated = req[q].rotated
                            /\ req'[q].session = req[q].session
                            /\ req'[q].pc # "idle" <=> req[q].pc # "idle"
    BY <1>1, <1>2
  <2> QED BY <1>1, <2>1, <2>2 DEF RotationInv, Unsaved
<1>6. \A p \in Requests : SavesRotated(p)'
  BY <1>1, <1>3 DEF RotationInv, SavesRotated
<1> QED BY <1>4, <1>5, <1>6 DEF RotationInv

\* A request that retrieves a token had no rotated one; those of others are not the
\* token it read, nor the one it is given.
LEMMA RetrievedRotation ==
  ASSUME TypeInv, RotationInv, NEW r \in Requests, NEW pc, NEW session, NEW save, NEW tok,
         NEW new, NEW rt, Retrieved(r, pc, session, save, tok, new, rt)
  PROVE  RotationInv'
<1> DEFINE old == req[r].session.rt
<1>1. /\ UNCHANGED <<jar, mishap>>
      /\ \A p \in Requests \ {r} : req'[p] = req[p]
      /\ req'[r].rotated = Given(old, rt) /\ req'[r].session = session
      /\ req'[r].read = req[r].read /\ req'[r].save = save /\ req'[r].pc = pc
  BY BecomesIs DEF Retrieved, With
<1>2. /\ req[r].pc # "idle" /\ pc # "idle" /\ req[r].rotated = NoRefreshToken
      /\ req[r].read = old /\ session.rt \in {old, rt} /\ (save => session.rt = rt)
  BY DEF Retrieved, TypeInv, RequestTyped
<1>3. CASE rt = old /\ UNCHANGED <<accepted, spent>>
  <2>1. req'[r].rotated = NoRefreshToken /\ session.rt = old
    BY <1>1, <1>2, <1>3 DEF Given
  <2>2. JarUsable'
    BY <1>1, <1>2, <1>3, <2>1 DEF RotationInv, JarUsable
  <2>3. \A p \in Requests : Unsaved(p)'
    BY <1>1, <1>2, <1>3, <2>1 DEF RotationInv, Unsaved
  <2>4. \A p \in Requests : SavesRotated(p)'
    BY <1>1, <2>1 DEF RotationInv, SavesRotated
  <2> QED BY <2>2, <2>3, <2>4 DEF RotationInv
<1>4. CASE /\ rt \in Fresh /\ accepted' = accepted \cup {rt}
           /\ \/ spent' = spent \ {rt}
              \/ old \in accepted /\ spent' = (spent \cup {old}) \ {rt}
  <2>1. /\ rt # NoRefreshToken /\ rt # jar.rt /\ rt # old
        /\ \A p \in Requests : /\ req[p].rotated # rt
                               /\ req[p].pc # "idle" => req[p].session.rt # rt
    BY <1>2, <1>4, FreshIs
  <2>2. req'[r].rotated = rt
    BY <1>1, <2>1 DEF Given
  <2>3. JarUsable'
    <3> SUFFICES ASSUME ~mishap'
                 PROVE  /\ jar'.rt \in accepted'
                        /\ jar'.rt \in spent' =>
                             \E p \in Requests : req'[p].read = jar'.rt
                                                 /\ req'[p].rotated # NoRefreshToken
      BY DEF JarUsable
    <3>1. jar.rt \in accepted'
      BY <1>1, <1>4 DEF RotationInv, JarUsable
    <3>2. ASSUME jar.rt \in spent'
          PROVE  \E p \in Requests : req'[p].read = jar.rt /\ req'[p].rotated # NoRefreshToken
      <4>1. CASE jar.rt = old
        BY <1>1, <1>2, <2>1, <2>2, <4>1
      <4>2. CASE jar.rt # old
        <5>1. jar.rt \in spent
          BY <1>4, <3>2, <4>2
        <5>2. PICK p \in Requests : req[p].read = jar.rt /\ req[p].rotated # NoRefreshToken
          BY <1>1, <5>1 DEF RotationInv, JarUsable
        <5>3. p # r
          BY <1>2, <5>2
        <5> QED BY <1>1, <5>2, <5>3
      <4> QED BY <4>1, <4>2
    <3> QED BY <1>1, <3>1, <3>2
  <2>4. ASSUME NEW p \in Requests
        PROVE  Unsaved(p)'
    <3>1. CASE p = r
      <4>1. rt \in accepted' /\ rt \notin spent' /\ rt # jar'.rt
        BY <1>1, <1>4, <2>1
      <4>2. \A q \in Requests \ {r} : /\ req'[q].rotated # rt
                                      /\ req'[q].pc # "idle" => req'[q].session.rt # rt
        BY <1>1, <2>1
      <4> QED BY <1>1, <1>2, <2>2, <3>1, <4>1, <4>2 DEF Unsaved
    <3>2. CASE p # r
      <4> SUFFICES ASSUME req[p].rotated # NoRefreshToken
                   PROVE  Unsaved(p)'
        BY <1>1, <3>2 DEF Unsaved
      <4>1. /\ req[p].pc # "idle" /\ req[p].rotated \in accepted /\ req[p].rotated \notin spent
            /\ req[p].rotated # jar.rt /\ req[p].rotated # old
            /\ \A q \in Requests \ {p} : /\ req[q].rotated # req[p].rotated
                                         /\ req[q].pc # "idle" => req[q].session.rt # req[p].rotated
        BY <1>2, <3>2 DEF RotationInv, Unsaved
      <4>2. req[p].rotated # rt
        BY <2>1
      <4>3. req[p].rotated \in accepted' /\ req[p].rotated \notin spent'
        BY <1>4, <4>1
      <4>4. \A q \in Requests \ {p} : /\ req'[q].rotated # req[p].rotated
                                      /\ req'[q].pc # "idle" => req'[q].session.rt # req[p].rotated
        BY <1>1, <1>2, <2>2, <4>1, <4>2
      <4>5. req'[p] = req[p]
        BY <1>1, <3>2
      <4> QED BY <1>1, <4>1, <4>3, <4>4, <4>5 DEF Unsaved
    <3> QED BY <3>1, <3>2
  <2>5. \A p \in Requests : SavesRotated(p)'
    BY <1>1, <1>2, <2>2 DEF RotationInv, SavesRotated
  <2> QED BY <2>3, <2>4, <2>5 DEF RotationInv
<1> QED BY <1>3, <1>4 DEF Retrieved

\* A response that saves puts the token it was given, or the one that is there,
\* into the browser, or is a mishap.
LEMMA EndRotation ==
  ASSUME TypeInv, RotationInv, NEW r \in Requests, Respond(r) \/ Fail(r)
  PROVE  RotationInv'
<1>1. /\ UNCHANGED <<accepted, spent>>
      /\ \A p \in Requests \ {r} : req'[p] = req[p]
      /\ req'[r].pc = "idle" /\ req'[r].rotated = NoRefreshToken /\ req'[r].read = NoRefreshToken
      /\ req'[r].save = FALSE
  BY EndIs, BecomesIs DEF Idle, Respond, Fail
<1>2. /\ req[r].pc # "idle" /\ (jar' = jar \/ jar' = req[r].session)
  BY DEF Respond, Fail
<1>3. ~mishap' => /\ ~mishap
                  /\ \/ jar'.rt = jar.rt /\ req[r].rotated = NoRefreshToken
                     \/ jar'.rt = req[r].rotated /\ req[r].rotated # NoRefreshToken
  <2>1. CASE Respond(r)
    BY <2>1 DEF Respond, Mishap, RotationInv, SavesRotated
  <2>2. CASE Fail(r)
    BY <2>2 DEF Fail
  <2> QED BY <2>1, <2>2
<1>4. JarUsable'
  <2> SUFFICES ASSUME ~mishap'
               PROVE  /\ jar'.rt \in accepted'
                      /\ jar'.rt \in spent' =>
                           \E p \in Requests : req'[p].read = jar'.rt
                                               /\ req'[p].rotated # NoRefreshToken
    BY DEF JarUsable
  <2>1. CASE jar'.rt = jar.rt /\ req[r].rotated = NoRefreshToken
    BY <1>1, <1>3, <2>1 DEF RotationInv, JarUsable
  <2>2. CASE jar'.rt = req[r].rotated /\ req[r].rotated # NoRefreshToken
    BY <1>1, <2>2 DEF RotationInv, Unsaved
  <2> QED BY <1>3, <2>1, <2>2
<1>5. ASSUME NEW p \in Requests
      PROVE  Unsaved(p)'
  <2>1. CASE p = r
    BY <1>1, <2>1 DEF Unsaved
  <2>2. CASE p # r
    <3> SUFFICES ASSUME req[p].rotated # NoRefreshToken
                 PROVE  Unsaved(p)'
      BY <1>1, <2>2 DEF Unsaved
    <3>1. /\ req[p].pc # "idle" /\ req[p].rotated \in accepted /\ req[p].rotated \notin spent
          /\ req[p].rotated # jar.rt /\ req[p].rotated # req[r].session.rt
          /\ \A q \in Requests \ {p} : /\ req[q].rotated # req[p].rotated
                                       /\ req[q].pc # "idle" => req[q].session.rt # req[p].rotated
      BY <1>2, <2>2 DEF RotationInv, Unsaved
    <3>2. req'[p] = req[p] /\ req[p].rotated # jar'.rt
      BY <1>1, <1>2, <2>2, <3>1
    <3>3. \A q \in Requests \ {p} : /\ req'[q].rotated # req[p].rotated
                                    /\ req'[q].pc # "idle" => req'[q].session.rt # req[p].rotated
      BY <1>1, <3>1
    <3> QED BY <1>1, <3>1, <3>2, <3>3 DEF Unsaved
  <2> QED BY <2>1, <2>2
<1>6. \A p \in Requests : SavesRotated(p)'
  BY <1>1 DEF RotationInv, SavesRotated
<1> QED BY <1>4, <1>5, <1>6 DEF RotationInv

LEMMA OverlapRotation ==
  ASSUME TypeInv, RotationInv, NEW rt \in RefreshTokens, OverlapEnds(rt)
  PROVE  RotationInv'
<1>1. /\ rt \in spent /\ accepted' = accepted \ {rt} /\ spent' = spent \ {rt}
      /\ \A p \in Requests : req[p].read # rt
      /\ UNCHANGED <<jar, req, mishap>>
  BY DEF OverlapEnds
<1>2. JarUsable'
  BY <1>1 DEF RotationInv, JarUsable
<1>3. \A p \in Requests : Unsaved(p)'
  BY <1>1 DEF RotationInv, Unsaved
<1>4. \A p \in Requests : SavesRotated(p)'
  BY <1>1 DEF RotationInv, SavesRotated
<1> QED BY <1>2, <1>3, <1>4 DEF RotationInv

LEMMA InitRotation ==
  ASSUME Init
  PROVE  RotationInv
<1>1. \A p \in Requests : req[p].rotated = NoRefreshToken
  BY DEF Init, Idle
<1>2. jar.rt \in accepted /\ jar.rt \notin spent
  BY DEF Init
<1> QED BY <1>1, <1>2 DEF RotationInv, JarUsable, Unsaved, SavesRotated

LEMMA NextRotation ==
  ASSUME TypeInv, RotationInv, [Next]_vars
  PROVE  RotationInv'
<1>1. CASE UNCHANGED vars
  BY <1>1 DEF RotationInv, JarUsable, Unsaved, SavesRotated, vars
<1>2. CASE Next
  BY <1>2, StepCases, StartRotation, AdvancedRotation, RetrievedRotation, EndRotation,
     OverlapRotation
<1> QED BY <1>1, <1>2

(* However many requests refresh together, in whatever order they are      *)
(* answered, the browser's refresh token stays accepted while nothing goes *)
(* wrong: whoever rotated it has the next one, and saves it.               *)
THEOREM RefreshTokensUsable == Spec => []RefreshTokenUsable
<1>1. RotationInv => RefreshTokenUsable
  BY DEF RotationInv, JarUsable, RefreshTokenUsable
<1>2. Spec => []RotationInv
  BY InitRotation, NextRotation, TypeInvariant, PTL DEF Spec
<1> QED BY <1>1, <1>2, PTL

LEMMA NextSaved ==
  ASSUME Default # NoAudience, TypeInv, RotationInv, SavedInv, [Next]_vars
  PROVE  SavedInv'
<1>1. CASE UNCHANGED vars
  BY <1>1 DEF SavedInv, TokenSaved, vars
<1>2. ASSUME NEW r \in Requests, NEW k \in Kinds, NEW o \in AsksOf[k], Start(r, k, o)
      PROVE  SavedInv'
  <2>1. Becomes(r, Begun(k, o))
    BY <1>2, StartStep
  <2>2. req'[r] = Begun(k, o) /\ \A p \in Requests \ {r} : req'[p] = req[p]
    BY <2>1, BecomesIs
  <2>3. req'[r].pc # "call" /\ req'[r].rotated = NoRefreshToken
    BY <2>2 DEF Begun
  <2> QED BY <2>2, <2>3 DEF SavedInv, TokenSaved
<1>3. ASSUME NEW r \in Requests, NEW pc, NEW save, NEW tok, Advanced(r, pc, save, tok)
      PROVE  SavedInv'
  <2>1. /\ req'[r].kind = req[r].kind /\ req'[r].pc = pc /\ req'[r].rotated = req[r].rotated
        /\ \A p \in Requests \ {r} : req'[p] = req[p]
    BY <1>3, BecomesIs DEF Advanced, With
  <2>2. /\ pc = "call" => req[r].kind # "token"
        /\ req[r].kind = "token" => req[r].rotated = NoRefreshToken
    BY <1>3 DEF Advanced, SavedInv, TokenSaved, TypeInv, RequestTyped
  <2> QED BY <2>1, <2>2 DEF SavedInv, TokenSaved
<1>4. ASSUME NEW r \in Requests, NEW pc, NEW session, NEW save, NEW tok, NEW new, NEW rt,
             Retrieved(r, pc, session, save, tok, new, rt)
      PROVE  SavedInv'
  <2>1. /\ req'[r].kind = req[r].kind /\ req'[r].pc = pc /\ req'[r].save = save
        /\ \A p \in Requests \ {r} : req'[p] = req[p]
    BY <1>4, BecomesIs DEF Retrieved, With
  <2>2. /\ pc = "call" => req[r].kind # "token"
        /\ req[r].kind = "token" => save
    BY <1>4 DEF Retrieved
  <2> QED BY <2>1, <2>2 DEF SavedInv, TokenSaved
<1>5. ASSUME NEW r \in Requests, Respond(r) \/ Fail(r)
      PROVE  SavedInv'
  <2>1. /\ \A p \in Requests \ {r} : req'[p] = req[p]
        /\ req'[r].kind = "touch"
    BY <1>5, EndIs, BecomesIs DEF Idle, Respond, Fail
  <2> QED BY <2>1 DEF SavedInv, TokenSaved
<1>6. ASSUME NEW rt \in RefreshTokens, OverlapEnds(rt)
      PROVE  SavedInv'
  BY <1>6 DEF SavedInv, TokenSaved, OverlapEnds
<1>7. CASE Next
  BY <1>2, <1>3, <1>4, <1>5, <1>6, <1>7, StepCases
<1> QED BY <1>1, <1>7

(* With an audience configured, the refresh token that a request for an    *)
(* access token was given is in the session its response saves.  Without   *)
(* one it need not be: a token for no audience and more scopes than the    *)
(* login's is not kept (getSessionChangesAfterGetAccessToken), and nor is  *)
(* the refresh token that came with it.                                    *)
THEOREM RotatedArePersisted ==
  ASSUME Default # NoAudience
  PROVE  Spec => []RotationPersisted
<1>1. Init => SavedInv
  BY DEF Init, SavedInv, TokenSaved, Idle
<1>2. Spec => []RotationInv
  BY InitRotation, NextRotation, TypeInvariant, PTL DEF Spec
<1>3. TypeInv /\ RotationInv /\ SavedInv /\ [Next]_vars => SavedInv'
  BY NextSaved
<1>4. RotationInv /\ SavedInv => RotationPersisted
  BY DEF RotationInv, SavesRotated, SavedInv, TokenSaved, RotationPersisted
<1> QED BY <1>1, <1>2, <1>3, <1>4, TypeInvariant, PTL DEF Spec

-----------------------------------------------------------------------------
(* The tokens that answer.                                                 *)

\* Logins ask for the audience of the configuration, and for some scope, which
\* DEFAULT_SCOPES sees to.
UsualLogin == LoginAudiences \subseteq {Default} /\ LoginScope # {}

\* What the server issues covers what a request comes down to.
LEMMA IssuedFits ==
  ASSUME login = Default, NEW o \in Asks
  PROVE  LET t   == Issued(o.aud, IF o.scope = {} THEN {} ELSE Resolved(o))
             aud == OrElse(o.aud, Default)
         IN  /\ t.aud = aud /\ Resolved(o) \cap Allowed[aud] \subseteq t.scope
             /\ Resolved(o) = {} => t.scope = Allowed[aud]
BY DEF Issued

\* The token set that is found is for the audience, with every scope.
LEMMA FoundFits ==
  ASSUME NEW s \in Sessions, SessionFits(s), NEW o \in Asks
  PROVE  LET aud == OrElse(o.aud, Default)
             t   == getTokenSetFromSession(s, aud, Resolved(o))
         IN  /\ OrElse(OrElse(t.aud, o.aud), Default) = aud
             /\ t.tok # NoToken =>
                  t.tok.aud = aud /\ Resolved(o) \cap Allowed[aud] \subseteq t.tok.scope
<1> DEFINE aud == OrElse(o.aud, Default)
           scope == Resolved(o)
           t == getTokenSetFromSession(s, aud, scope)
           Goal == /\ OrElse(OrElse(t.aud, o.aud), Default) = aud
                   /\ t.tok # NoToken =>
                        t.tok.aud = aud /\ scope \cap Allowed[aud] \subseteq t.tok.scope
<1>1. /\ OrElse(s.aud, Default) = Default /\ s.tok.aud = Default
      /\ HeldScope(s, Default) \cap Allowed[Default] \subseteq s.tok.scope
      /\ \A i \in DOMAIN s.cached : EntryFits(s.cached[i])
  BY DEF SessionFits
<1>2. \/ t = Global(s) /\ AnswersGlobal(s, aud, scope)
      \/ \E i \in DOMAIN s.cached :
           /\ AnswersEntry(s, i, aud, scope)
           /\ t = TokenSet(s.cached[i].aud, s.cached[i].requested, s.cached[i].tok, s.rt)
      \/ t = TokenSet(NoAudience, {}, NoToken, s.rt)
  BY SessionEntries, TokenSetCases
<1> SUFFICES Goal
  OBVIOUS
<1> HIDE DEF t, scope
<1>3. CASE t = Global(s) /\ AnswersGlobal(s, aud, scope)
  <2>1. t.aud = s.aud /\ t.tok = s.tok
    BY <1>3 DEF Global, TokenSet
  <2>2. aud = Default /\ scope \subseteq HeldScope(s, Default)
    BY <1>1, <1>3 DEF AnswersGlobal, OrElse
  <2>3. OrElse(OrElse(s.aud, o.aud), Default) = aud
    BY <1>1, <2>2 DEF OrElse
  <2>4. t.tok.aud = aud /\ scope \cap Allowed[aud] \subseteq t.tok.scope
    BY <1>1, <2>1, <2>2
  <2> HIDE DEF aud
  <2> QED BY <2>1, <2>3, <2>4
<1>4. ASSUME NEW i \in DOMAIN s.cached, AnswersEntry(s, i, aud, scope),
             t = TokenSet(s.cached[i].aud, s.cached[i].requested, s.cached[i].tok, s.rt)
      PROVE  Goal
  <2>1. t.aud = s.cached[i].aud /\ t.tok = s.cached[i].tok
    BY <1>4 DEF TokenSet
  <2>2. s.cached[i].aud = aud /\ aud # NoAudience /\ scope \subseteq s.cached[i].requested
    BY <1>4 DEF AnswersEntry
  <2>3. s.cached[i].tok.aud = aud
        /\ s.cached[i].requested \cap Allowed[aud] \subseteq s.cached[i].tok.scope
    BY <1>1, <2>2 DEF EntryFits
  <2>4. OrElse(OrElse(aud, o.aud), Default) = aud
    BY <2>2 DEF OrElse
  <2> QED BY <2>1, <2>2, <2>3, <2>4
<1>5. CASE t = TokenSet(NoAudience, {}, NoToken, s.rt)
  <2>1. t.aud = NoAudience /\ t.tok = NoToken
    BY <1>5 DEF TokenSet
  <2>2. OrElse(OrElse(NoAudience, o.aud), Default) = aud
    BY DEF OrElse
  <2> HIDE DEF aud
  <2> QED BY <2>1, <2>2
<1> QED BY <1>2, <1>3, <1>4, <1>5 DEF t, scope

\* A session that changes for a token set fits, if the token set does.
LEMMA ChangesFit ==
  ASSUME NEW s \in Sessions, SessionFits(s), NEW t, NEW new, NEW x \in SessionChanges(s, t, new),
         t.tok.aud = OrElse(t.aud, Default),
         t.requested \cap Allowed[OrElse(t.aud, Default)] \subseteq t.tok.scope,
         t.requested = {} => t.tok.scope = Allowed[OrElse(t.aud, Default)]
  PROVE  SessionFits(x)
<1> DEFINE aud == OrElse(t.aud, Default)
<1>1. /\ OrElse(s.aud, Default) = Default /\ s.tok.aud = Default
      /\ HeldScope(s, Default) \cap Allowed[Default] \subseteq s.tok.scope
      /\ \A i \in DOMAIN s.cached : EntryFits(s.cached[i])
  BY DEF SessionFits
<1>2. CASE isGlobalAudienceAndScope(s, t) /\ x = WithGlobal(s, t)
  <2>1. aud = Default
    BY <1>1, <1>2 DEF isGlobalAudienceAndScope, OrElse
  <2>2. x.aud = t.aud /\ x.requested = t.requested /\ x.tok = t.tok /\ x.cached = s.cached
    BY <1>2 DEF WithGlobal
  <2>3. HeldScope(x, Default) \cap Allowed[Default] \subseteq x.tok.scope
    BY <2>1, <2>2 DEF HeldScope
  <2> QED BY <1>1, <2>1, <2>2, <2>3 DEF SessionFits
<1>3. ASSUME NEW e, EntryFor(s, t, e),
             \/ x = WithCached(s, t, Append(s.cached, e))
             \/ \E i \in DOMAIN s.cached : x = WithCached(s, t, [s.cached EXCEPT ![i] = e])
      PROVE  SessionFits(x)
  <2>1. e.aud = aud /\ e.tok = t.tok
    BY <1>3 DEF EntryFor
  <2>2. EntryFits(e)
    <3>1. CASE e.requested = t.requested
      BY <2>1, <3>1 DEF EntryFits
    <3>2. ASSUME NEW i \in DOMAIN s.cached,
                 s.cached[i].aud = e.aud, s.cached[i].tok.scope = t.tok.scope,
                 e.requested = s.cached[i].requested \cup t.requested
          PROVE  EntryFits(e)
      BY <1>1, <2>1, <3>2 DEF EntryFits
    <3> QED BY <1>3, <3>1, <3>2 DEF EntryFor
  <2>3. PICK c : /\ x = WithCached(s, t, c)
                 /\ \A j \in DOMAIN c : c[j] = e \/ (j \in DOMAIN s.cached /\ c[j] = s.cached[j])
    <3>1. CASE x = WithCached(s, t, Append(s.cached, e))
      <4>1. \A j \in DOMAIN Append(s.cached, e) :
              Append(s.cached, e)[j] = e \/ (j \in DOMAIN s.cached /\ Append(s.cached, e)[j] = s.cached[j])
        BY SessionEntries
      <4> QED BY <3>1, <4>1
    <3>2. ASSUME NEW i \in DOMAIN s.cached, x = WithCached(s, t, [s.cached EXCEPT ![i] = e])
          PROVE  \E c : /\ x = WithCached(s, t, c)
                        /\ \A j \in DOMAIN c : c[j] = e \/ (j \in DOMAIN s.cached /\ c[j] = s.cached[j])
      BY <3>2
    <3> QED BY <1>3, <3>1, <3>2
  <2>4. \A j \in DOMAIN c : EntryFits(c[j])
    BY <1>1, <2>2, <2>3
  <2>5. x.aud = s.aud /\ x.requested = s.requested /\ x.tok = s.tok /\ x.cached = c
    BY <2>3 DEF WithCached
  <2> QED BY <1>1, <2>4, <2>5 DEF SessionFits, HeldScope
<1> QED BY <1>2, <1>3, ChangeCases, SessionEntries

\* So does the session a popup's token is merged into.
LEMMA PopupFits ==
  ASSUME NEW s \in Sessions, SessionFits(s), NEW e, EntryFits(e), NEW rt
  PROVE  SessionFits(PopupMerged(s, e, rt))
<1> DEFINE M == {i \in DOMAIN s.cached : s.cached[i].aud = e.aud}
           first == CHOOSE i \in M : \A j \in M : i <= j
           c == IF M = {} THEN Append(s.cached, e) ELSE [s.cached EXCEPT ![first] = e]
           x == PopupMerged(s, e, rt)
<1>1. \A j \in DOMAIN c : c[j] = e \/ (j \in DOMAIN s.cached /\ c[j] = s.cached[j])
  <2>1. CASE M = {}
    <3>1. \A j \in DOMAIN Append(s.cached, e) :
            \/ Append(s.cached, e)[j] = e
            \/ j \in DOMAIN s.cached /\ Append(s.cached, e)[j] = s.cached[j]
      BY SessionEntries
    <3> QED BY <2>1, <3>1
  <2>2. CASE M # {}
    <3> HIDE DEF first
    <3> QED BY <2>2
  <2> QED BY <2>1, <2>2
<1>2. x = [s EXCEPT !.rt = rt, !.cached = c]
  BY DEF PopupMerged
<1> HIDE DEF c, x
<1>3. x.aud = s.aud /\ x.requested = s.requested /\ x.tok = s.tok /\ x.cached = c
  <2>1. s = [aud |-> s.aud, requested |-> s.requested, tok |-> s.tok, rt |-> s.rt,
             cached |-> s.cached]
    BY DEF Sessions
  <2> QED BY <1>2, <2>1
<1>4. SessionFits(x)
  <2>1. /\ OrElse(s.aud, Default) = Default /\ s.tok.aud = Default
        /\ HeldScope(s, Default) \cap Allowed[Default] \subseteq s.tok.scope
        /\ \A i \in DOMAIN s.cached : EntryFits(s.cached[i])
    BY DEF SessionFits
  <2>2. \A j \in DOMAIN c : EntryFits(c[j])
    BY <1>1, <2>1
  <2> QED BY <1>3, <2>1, <2>2 DEF SessionFits, HeldScope
<1> QED BY <1>4 DEF x

\* Whatever a request retrieves fits it, and so does the session it goes on with.
LEMMA ExchangeFits ==
  ASSUME TypeInv, FitInv, NEW r \in Requests, req[r].pc # "idle",
         NEW session, NEW tok, NEW rt, FromExchange(r, session, tok, rt)
  PROVE  /\ SessionFits(session)
         /\ \/ tok = req[r].tok
            \/ LET aud == OrElse(req[r].ask.aud, Default)
               IN  tok.aud = aud /\ Resolved(req[r].ask) \cap Allowed[aud] \subseteq tok.scope
<1> DEFINE s == req[r].session
           o == req[r].ask
           aud == OrElse(o.aud, Default)
           t == Refreshed(r, rt)
           g == TokenSet(s.aud, DefaultScopes, Issued(NoAudience, {}), rt)
           e == Entry(o.aud, o.scope, [aud |-> o.aud, scope |-> o.scope \cap Allowed[o.aud]])
<1>1. s \in Sessions /\ SessionFits(s) /\ o \in Asks /\ login = Default
  BY RequestFields DEF FitInv
<1>2. /\ t.tok.aud = aud /\ OrElse(t.aud, Default) = aud /\ t.requested = Resolved(o)
      /\ Resolved(o) \cap Allowed[aud] \subseteq t.tok.scope
      /\ Resolved(o) = {} => t.tok.scope = Allowed[aud]
  <2>1. OrElse(OrElse(Found(r).aud, o.aud), Default) = aud
    BY <1>1, FoundFits DEF Found
  <2>2. t = TokenSet(OrElse(Found(r).aud, o.aud), Resolved(o),
                     Issued(o.aud, IF o.scope = {} THEN {} ELSE Resolved(o)), rt)
    BY DEF Refreshed
  <2> HIDE DEF t
  <2>3. /\ t.aud = OrElse(Found(r).aud, o.aud) /\ t.requested = Resolved(o)
        /\ t.tok = Issued(o.aud, IF o.scope = {} THEN {} ELSE Resolved(o))
    BY <2>2 DEF TokenSet
  <2> HIDE DEF s, o
  <2> QED BY <1>1, <2>1, <2>3, IssuedFits
<1> HIDE DEF t
<1>3. CASE tok = t.tok /\ (session = s \/ session \in SessionChanges(s, t, TRUE))
  <2>1. SessionFits(session)
    BY <1>1, <1>2, <1>3, ChangesFit
  <2> QED BY <1>2, <1>3, <2>1
<1>4. CASE tok = req[r].tok /\ session = WithGlobal(s, g)
  <2>1. /\ g.aud = s.aud /\ g.requested = DefaultScopes
        /\ g.tok.aud = Default /\ g.tok.scope = Allowed[Default]
    BY <1>1 DEF TokenSet, Issued, OrElse
  <2> HIDE DEF g
  <2>2. /\ session.aud = s.aud /\ session.tok.aud = Default
        /\ session.tok.scope = Allowed[Default] /\ session.cached = s.cached
    BY <1>4, <2>1 DEF WithGlobal
  <2>3. SessionFits(session)
    BY <1>1, <2>2 DEF SessionFits
  <2> QED BY <1>4, <2>3
<1>5. CASE tok = req[r].tok /\ session = PopupMerged(s, e, rt)
  <2>1. EntryFits(e)
    BY DEF EntryFits, Entry
  <2> HIDE DEF e
  <2>2. SessionFits(session)
    BY <1>1, <1>5, <2>1, PopupFits
  <2> QED BY <1>5, <2>2
<1> QED BY <1>3, <1>4, <1>5 DEF FromExchange, t

\* A request that becomes one whose session and token fit.
LEMMA FitsKept ==
  ASSUME TypeInv, FitInv, NEW r \in Requests, NEW q, Becomes(r, q),
         q.pc # "idle" => SessionFits(q.session), TokenFits(q),
         login' = login, SessionFits(jar')
  PROVE  FitInv'
<1>1. req'[r] = q /\ \A p \in Requests \ {r} : req'[p] = req[p]
  BY BecomesIs
<1>2. \A p \in Requests : /\ req'[p].pc # "idle" => SessionFits(req'[p].session)
                          /\ TokenFits(req'[p])
  BY <1>1 DEF FitInv
<1>3. \A p \in Requests : /\ (req[p].pc # "idle" => SessionFits(req[p].session))'
                          /\ TokenFits(req[p])'
  BY <1>2 DEF SessionFits, TokenFits, HeldScope, EntryFits
<1>4. SessionFits(jar)'
  BY DEF SessionFits, HeldScope, EntryFits
<1> QED BY <1>3, <1>4 DEF FitInv

LEMMA NextFit ==
  ASSUME TypeInv, FitInv, [Next]_vars
  PROVE  FitInv'
<1>0. SessionFits(jar)
  BY DEF FitInv
<1>1. CASE UNCHANGED vars
  BY <1>1 DEF FitInv, SessionFits, TokenFits, HeldScope, EntryFits, vars
<1>2. ASSUME NEW r \in Requests, NEW k \in Kinds, NEW o \in AsksOf[k], Start(r, k, o)
      PROVE  FitInv'
  <2>1. Becomes(r, Begun(k, o)) /\ jar' = jar /\ login' = login
    BY <1>2, StartStep
  <2>2. SessionFits(Begun(k, o).session) /\ TokenFits(Begun(k, o))
    BY <1>0 DEF Begun, TokenFits
  <2> QED BY <1>0, <2>1, <2>2, FitsKept
<1>3. ASSUME NEW r \in Requests, NEW pc, NEW save, NEW tok, Advanced(r, pc, save, tok)
      PROVE  FitInv'
  <2> DEFINE q == req[r]
             q2 == With(q, pc, q.session, save, tok, q.new, q.rotated)
  <2>1. /\ q.session \in Sessions /\ SessionFits(q.session) /\ q.ask \in Asks /\ TokenFits(q)
        /\ Becomes(r, q2) /\ jar' = jar /\ login' = login
        /\ tok = q.tok \/ (tok = Found(r).tok /\ tok # NoToken)
    BY <1>3, RequestFields DEF Advanced, FitInv
  <2>2. q2.session = q.session /\ q2.ask = q.ask /\ q2.tok = tok
    BY DEF With
  <2>3. TokenFits(q2)
    <3>1. CASE tok = q.tok
      BY <2>1, <2>2, <3>1 DEF TokenFits
    <3>2. CASE tok = Found(r).tok /\ tok # NoToken
      BY <2>1, <2>2, <3>2, FoundFits DEF TokenFits, Found
    <3> QED BY <2>1, <3>1, <3>2
  <2> HIDE DEF q2
  <2> QED BY <1>0, <2>1, <2>2, <2>3, FitsKept
<1>4. ASSUME NEW r \in Requests, NEW pc, NEW session, NEW save, NEW tok, NEW new, NEW rt,
             Retrieved(r, pc, session, save, tok, new, rt), FromExchange(r, session, tok, rt)
      PROVE  FitInv'
  <2> DEFINE q == req[r]
             q2 == With(q, pc, session, save, tok, new, Given(q.session.rt, rt))
  <2>1. Becomes(r, q2) /\ jar' = jar /\ login' = login /\ q.pc # "idle" /\ TokenFits(q)
    BY <1>4 DEF Retrieved, FitInv
  <2>2. q2.session = session /\ q2.ask = q.ask /\ q2.tok = tok
    BY DEF With
  <2>3. SessionFits(session)
    BY <1>4, <2>1, ExchangeFits
  <2>4. \/ tok = q.tok
        \/ LET aud == OrElse(q.ask.aud, Default)
           IN  tok.aud = aud /\ Resolved(q.ask) \cap Allowed[aud] \subseteq tok.scope
    BY <1>4, <2>1, ExchangeFits
  <2>5. TokenFits(q2)
    BY <2>1, <2>2, <2>4 DEF TokenFits
  <2> HIDE DEF q2
  <2> QED BY <1>0, <2>1, <2>2, <2>3, <2>5, FitsKept
<1>5. ASSUME NEW r \in Requests, Respond(r) \/ Fail(r)
      PROVE  FitInv'
  <2>1. Becomes(r, Idle) /\ login' = login /\ req[r].pc # "idle"
        /\ (jar' = jar \/ jar' = req[r].session)
    BY <1>5, EndIs DEF Respond, Fail
  <2>2. SessionFits(jar')
    BY <1>0, <2>1 DEF FitInv
  <2>3. Idle.pc = "idle" /\ TokenFits(Idle)
    BY DEF Idle, TokenFits
  <2> QED BY <2>1, <2>2, <2>3, FitsKept
<1>6. ASSUME NEW rt \in RefreshTokens, OverlapEnds(rt)
      PROVE  FitInv'
  BY <1>6 DEF OverlapEnds, FitInv, SessionFits, TokenFits, HeldScope, EntryFits
<1>7. CASE Next
  BY <1>2, <1>3, <1>4, <1>5, <1>6, <1>7, StepCases
<1> QED BY <1>1, <1>7

LEMMA InitFit ==
  ASSUME UsualLogin, Init
  PROVE  FitInv
<1>1. PICK aud \in LoginAudiences, rt \in RefreshTokens :
        /\ jar = [aud |-> aud, requested |-> LoginScope,
                  tok |-> [aud |-> aud, scope |-> LoginScope \cap Allowed[aud]],
                  rt |-> rt, cached |-> <<>>]
        /\ login = aud /\ req = [r \in Requests |-> Idle]
  BY DEF Init
<1>2. aud = Default /\ LoginScope # {}
  BY DEF UsualLogin
<1>3. /\ jar.aud = Default /\ jar.tok.aud = Default /\ jar.requested = LoginScope
      /\ jar.tok.scope = LoginScope \cap Allowed[Default] /\ jar.cached = <<>>
  BY <1>1, <1>2
<1>4. SessionFits(jar)
  BY <1>2, <1>3 DEF SessionFits, HeldScope, OrElse
<1>5. \A r \in Requests : req[r].pc = "idle" /\ req[r].tok = NoToken
  BY <1>1 DEF Idle
<1> QED BY <1>1, <1>2, <1>4, <1>5 DEF FitInv, TokenFits

(* Whatever was requested, cached, merged and replaced before, in whatever *)
(* order, a request gets a token for the audience it asks for, with every  *)
(* scope it asks for that the server would grant.  Assumed of the login is *)
(* that it was for the audience of the configuration and asked for a       *)
(* scope, as logins do whose authorization parameters are not overridden.  *)
THEOREM TokensFitRequests ==
  ASSUME UsualLogin
  PROVE  Spec => []TokenFitsRequest
<1>1. Init => FitInv
  BY InitFit
<1>2. TypeInv /\ FitInv /\ [Next]_vars => FitInv'
  BY NextFit
<1>3. FitInv => TokenFitsRequest
  <2> SUFFICES ASSUME FitInv, NEW r \in Requests, req[r].tok # NoToken
               PROVE  LET aud == OrElse(OrElse(req[r].ask.aud, Default), login)
                      IN  /\ req[r].tok.aud = aud
                          /\ Resolved(req[r].ask) \cap Allowed[aud] \subseteq req[r].tok.scope
    BY DEF TokenFitsRequest
  <2>1. TokenFits(req[r]) /\ login = Default
    BY DEF FitInv
  <2>2. OrElse(OrElse(req[r].ask.aud, Default), login) = OrElse(req[r].ask.aud, Default)
    BY <2>1 DEF OrElse
  <2> QED BY <2>1, <2>2 DEF TokenFits
<1> QED BY <1>1, <1>2, <1>3, TypeInvariant, PTL DEF Spec
=============================================================================
