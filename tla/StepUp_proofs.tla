--------------------------- MODULE StepUp_proofs ---------------------------
(***************************************************************************)
(* Theorems about StepUp, for any number of calls and popups, any          *)
(* audiences, scopes and grants, and any number of cached access tokens.   *)
(*                                                                         *)
(* First the lookup among a session's tokens, and what the calls come to:  *)
(* what every method throws, and that the routes and the browser's methods *)
(* report the same.  Then the steps, each as what it does to the session   *)
(* and what it does to the page, and the invariants.                       *)
(***************************************************************************)
EXTENDS StepUp, FiniteSetTheorems, SequenceTheorems, WellFoundedInduction, TLAPS

-----------------------------------------------------------------------------
(* The tokens of a session (AccessTokens): which one answers for an        *)
(* audience and a scope, and how the session changes with a new one.  They *)
(* carry here what TokenRequests leaves out, so the same is shown again.   *)

\* A set of natural numbers has a smallest element.
LEMMA SmallestOf ==
  ASSUME NEW T, T \subseteq Nat, T # {}
  PROVE  \E n \in T : \A m \in T : n <= m
<1> DEFINE R == OpToRel(<, Nat)
<1>1. IsWellFoundedOn(R, Nat)
  BY NatLessThanWellFounded
<1>2. R = {ss \in Nat \X Nat : ss[1] < ss[2]}
  BY DEF OpToRel
<1> HIDE DEF R
<1>3. PICK n \in T : \A m \in T : ~ (<<m, n>> \in R)
  BY <1>1, WFMin
<1>4. \A m \in T : ~(m < n)
  BY <1>2, <1>3
<1> QED BY <1>4

\* The entries of a session hold access tokens for scopes there are.
EntriesScoped(s) ==
    /\ DOMAIN s.cached \subseteq Nat
    /\ \A i \in DOMAIN s.cached : s.cached[i].tok.scope \subseteq Scopes

\* What answers for an audience and a scope: the token set of the login, an entry,
\* or none but the refresh token.
AnswersGlobal(s, aud, scope) ==
    /\ aud = NoAudience \/ aud = OrElse(s.aud, Default)
    /\ scope \subseteq HeldScope(s, aud)

AnswersEntry(s, i, aud, scope) ==
    /\ i \in DOMAIN s.cached /\ aud # NoAudience
    /\ s.cached[i].aud = aud /\ scope \subseteq s.cached[i].requested

LEMMA TokenSetCases ==
  ASSUME NEW s, NEW aud, NEW scope
  PROVE  LET t == getTokenSetFromSession(s, aud, scope)
         IN  \/ t = Global(s) /\ AnswersGlobal(s, aud, scope)
             \/ \E i \in DOMAIN s.cached :
                  /\ AnswersEntry(s, i, aud, scope)
                  /\ t = TokenSet(s.cached[i].aud, s.cached[i].requested, s.cached[i].tok, s.rt)
             \/ t = TokenSet(NoAudience, {}, NoToken, s.rt)
<1> DEFINE t == getTokenSetFromSession(s, aud, scope)
           found == FindRequested(s, aud, scope)
           global == /\ aud = NoAudience \/ aud = OrElse(s.aud, Default)
                     /\ scope = {} \/ compareScopes(HeldScope(s, aud), scope)
           i == CHOOSE i \in found : TRUE
<1>1. CASE global
  BY <1>1 DEF getTokenSetFromSession, AnswersGlobal, compareScopes
<1>2. CASE ~global /\ aud # NoAudience /\ found # {}
  <2>1. i \in found
    BY <1>2
  <2>2. t = TokenSet(s.cached[i].aud, s.cached[i].requested, s.cached[i].tok, s.rt)
    BY <1>2 DEF getTokenSetFromSession
  <2> HIDE DEF t, i
  <2>3. AnswersEntry(s, i, aud, scope)
    BY <1>2, <2>1 DEF AnswersEntry, FindRequested, Best, compareScopes
  <2> QED BY <2>2, <2>3 DEF AnswersEntry, t
<1>3. CASE ~global /\ ~(aud # NoAudience /\ found # {})
  BY <1>3 DEF getTokenSetFromSession
<1> QED BY <1>1, <1>2, <1>3

\* The entry a session gets with token set t: with what was requested of t, and of
\* an entry that was granted the same.
EntryFor(s, t, e) ==
    /\ e.aud = OrElse(t.aud, Default) /\ e.aud # NoAudience /\ e.tok = t.tok
    /\ e = Entry(e.aud, e.requested, e.tok)
    /\ \/ e.requested = t.requested
       \/ \E i \in DOMAIN s.cached :
            /\ s.cached[i].aud = e.aud /\ s.cached[i].tok.scope = t.tok.scope
            /\ e.requested = s.cached[i].requested \cup t.requested

\* A session that changes has the new token as the login's or in an entry.
LEMMA ChangeCases ==
  ASSUME NEW s, NEW t, NEW new, NEW x \in SessionChanges(s, t, new)
  PROVE  \/ isGlobalAudienceAndScope(s, t) /\ x = WithGlobal(s, t)
         \/ \E e : /\ EntryFor(s, t, e)
                   /\ \/ x = WithCached(s, t, Append(s.cached, e))
                      \/ \E i \in DOMAIN s.cached :
                           /\ s.cached[i].aud = e.aud
                           /\ x = WithCached(s, t, [s.cached EXCEPT ![i] = e])
<1> DEFINE aud   == OrElse(t.aud, Default)
           asked == FindRequested(s, aud, t.requested)
           same  == FindGranted(s, aud, t.tok.scope)
           a == CHOOSE i \in asked : TRUE
           b == CHOOSE i \in same : TRUE
           New(requested) == Entry(aud, requested, t.tok)
<1>1. CASE isGlobalAudienceAndScope(s, t)
  BY <1>1 DEF SessionChanges, handleGlobalTokenSetUpdate
<1>2. CASE ~isGlobalAudienceAndScope(s, t)
  <2>1. aud # NoAudience /\ x \in handleSpecificAccessTokenUpdate(s, t, new)
    BY <1>2 DEF SessionChanges
  <2>2. asked # {} => a \in DOMAIN s.cached /\ s.cached[a].aud = aud
    BY DEF FindRequested, Best
  <2>3. same # {} => /\ b \in DOMAIN s.cached /\ s.cached[b].aud = aud
                     /\ s.cached[b].tok.scope = t.tok.scope
    BY DEF FindGranted, Best
  <2>4. PICK e, after : /\ EntryFor(s, t, e) /\ x = WithCached(s, t, after)
                        /\ \/ after = Append(s.cached, e)
                           \/ \E i \in DOMAIN s.cached :
                                s.cached[i].aud = e.aud /\ after = [s.cached EXCEPT ![i] = e]
    <3>1. CASE asked # {}
      <4>1. x = WithCached(s, t, [s.cached EXCEPT ![a] = New(t.requested)])
        BY <2>1, <3>1 DEF handleSpecificAccessTokenUpdate
      <4>2. EntryFor(s, t, New(t.requested)) /\ New(t.requested).aud = aud
        BY <2>1 DEF EntryFor, Entry
      <4> QED BY <2>2, <3>1, <4>1, <4>2
    <3>2. CASE asked = {} /\ same # {}
      <4> DEFINE requested == s.cached[b].requested \cup t.requested
      <4>1. x = WithCached(s, t, [s.cached EXCEPT ![b] = New(requested)])
        BY <2>1, <3>2 DEF handleSpecificAccessTokenUpdate
      <4> HIDE DEF b, aud
      <4>2. EntryFor(s, t, New(requested)) /\ New(requested).aud = aud
        BY <2>1, <2>3, <3>2 DEF EntryFor, Entry, aud
      <4> QED BY <2>3, <3>2, <4>1, <4>2
    <3>3. CASE asked = {} /\ same = {}
      <4>1. x = WithCached(s, t, Append(s.cached, New(t.requested)))
        BY <2>1, <3>3 DEF handleSpecificAccessTokenUpdate
      <4>2. EntryFor(s, t, New(t.requested))
        BY <2>1 DEF EntryFor, Entry
      <4> QED BY <4>1, <4>2
    <3> QED BY <3>1, <3>2, <3>3
  <2> QED BY <2>4
<1> QED BY <1>1, <1>2

\* A session that changes has the refresh token it was given.
LEMMA ChangesKeepRefreshToken ==
  ASSUME NEW s, NEW t, NEW new, NEW x \in SessionChanges(s, t, new)
  PROVE  x.rt = t.rt
BY DEF SessionChanges, handleGlobalTokenSetUpdate, handleSpecificAccessTokenUpdate,
       WithGlobal, WithCached

-----------------------------------------------------------------------------
(* What is thrown and what is reported.                                    *)
Results == {"done", "mfa", "expired", "failed"}

\* An error of the SDK: only an MfaRequiredError holds a token.
SdkError(e) ==
    /\ e.class \in {"mfa", "own", "other", "sdk"} /\ e # NoError
    /\ e.class = "mfa" => e.code = "mfa_required"
    /\ e.token \in BOOLEAN
    /\ e.token => e.class = "mfa"

\* An answer is its status with the error's code, and whether it holds an MFA token.
LEMMA AnswerFields ==
  ASSUME NEW status, NEW e
  PROVE  Answer(status, e).status = status /\ Answer(status, e).error = e.code
         /\ Answer(status, e).token = e.token
BY DEF Answer

\* What errors are made of.
LEMMA ErrorFields ==
  /\ NoError.class = "none" /\ NoError.code = "none" /\ NoError.token = FALSE
  /\ \A code : /\ Own(code).class = "own" /\ Own(code).code = code /\ Own(code).token = FALSE
               /\ Other(code).class = "other" /\ Other(code).code = code /\ Other(code).token = FALSE
  /\ \A t : /\ MfaRequiredError(t).class = "mfa" /\ MfaRequiredError(t).code = "mfa_required"
            /\ MfaRequiredError(t).token = t
  /\ InvalidRequest.class = "sdk" /\ InvalidRequest.code = "invalid_request" /\ InvalidRequest.token = FALSE
BY DEF NoError, Own, Other, MfaRequiredError, InvalidRequest

\* What a page is told is one of the results, whatever was answered or thrown.
LEMMA ResultsOnly ==
  /\ \A a : Reported(a) \in Results
  /\ \A e : Thrown(e) \in Results
BY DEF Reported, Thrown, Results

\* What an error of the SDK that is thrown tells the caller.
LEMMA ThrownError ==
  ASSUME NEW e, SdkError(e)
  PROVE  /\ e.class = "mfa" /\ e.token => Thrown(e) = "mfa"
         /\ e.code = "mfa_token_expired" => Thrown(e) = "expired"
         /\ ~(e.class = "mfa" /\ e.token) /\ e.code # "mfa_token_expired" => Thrown(e) = "failed"
BY DEF Thrown, SdkError

\* An answer with an error tells the page what throwing it would have.
LEMMA ReportedError ==
  ASSUME NEW e, SdkError(e), NEW a, a.status # 200, a.error = e.code, a.token = e.token
  PROVE  Reported(a) = Thrown(e)
BY ThrownError DEF Reported, SdkError

\* A route reports what its method throws.
LEMMA RouteReports ==
  ASSUME NEW e, SdkError(e), NEW status, status # 200
  PROVE  /\ Reported(Handled(e, status)) = Thrown(e)
         /\ Reported(handleMfaError(e)) = Thrown(e)
<1>1. \A st : st # 200 => Reported(Answer(st, e)) = Thrown(e)
  BY AnswerFields, ReportedError
<1>2. \A code : code \notin {"mfa_required", "mfa_token_expired"}
                 => Reported(Answer(500, Own(code))) = "failed"
  BY AnswerFields, ErrorFields DEF Reported
<1>7. Reported(handleMfaError(e)) = Thrown(e)
  <2>1. getMfaErrorStatusCode(e) \in {400, 401, 403, 500}
    BY DEF getMfaErrorStatusCode
  <2>2. getMfaErrorStatusCode(e) # 200
    BY <2>1
  <2>3. handleMfaError(e) = Answer(getMfaErrorStatusCode(e), e)
    BY DEF handleMfaError, SdkError
  <2> QED BY <1>1, <2>2, <2>3
<1> SUFFICES Reported(Handled(e, status)) = Thrown(e)
  BY <1>7
<1>3. CASE e.class = "mfa"
  <2>1. Handled(e, status) = Answer(403, e)
    BY <1>3 DEF Handled, SdkError
  <2> QED BY <1>1, <2>1
<1>4. CASE e.class = "own" /\ e.code \in {"discovery_error", "unexpected_error"}
  <2>1. Handled(e, status) = Answer(500, Own("server_error"))
    BY <1>4 DEF Handled, SdkError
  <2>2. Thrown(e) = "failed"
    BY <1>4, ThrownError DEF SdkError
  <2> QED BY <1>2, <2>1, <2>2
<1>5. CASE e.class = "own" /\ e.code \notin {"discovery_error", "unexpected_error"}
  <2>1. Handled(e, status) = Answer(status, e)
    BY <1>5 DEF Handled, SdkError
  <2> QED BY <1>1, <2>1
<1>6. CASE e.class \notin {"mfa", "own"}
  <2>1. Handled(e, status) = Answer(400, e)
    BY <1>6 DEF Handled, SdkError
  <2> QED BY <1>1, <2>1
<1> QED BY <1>3, <1>4, <1>5, <1>6

\* No error is reported as success, by every route and every method.
LEMMA SuccessReported ==
  /\ Thrown(NoError) = "done"
  /\ \A status : Reported(Handled(NoError, status)) = "done"
  /\ Reported(handleMfaError(NoError)) = "done"
  /\ getAccessToken(handleAccessToken(NoError)) = "done"
<1>1. Thrown(NoError) = "done"
  BY ErrorFields DEF Thrown
<1>2. Reported(Success) = "done" /\ Success.status = 200
  <2>1. Success.status = 200 /\ Success.error = "none" /\ Success.token = FALSE
    BY AnswerFields, ErrorFields DEF Success
  <2> QED BY <2>1 DEF Reported
<1>3. \A status : Handled(NoError, status) = Success
  BY ErrorFields DEF Handled
<1> QED BY <1>1, <1>2, <1>3 DEF handleMfaError, handleAccessToken, getAccessToken

\* The answer to a request for a token too, unless the MFA token has expired.
LEMMA RetrievalReports ==
  ASSUME NEW e, SdkError(e), e.code # "mfa_token_expired"
  PROVE  getAccessToken(handleAccessToken(e)) = Thrown(e)
<1> DEFINE st == IF e.class = "mfa" THEN 403 ELSE 401
<1>1. handleAccessToken(e) = Answer(st, e)
  BY DEF handleAccessToken, SdkError
<1>2. CASE e.class = "mfa"
  <2>1. Reported(Answer(403, e)) = Thrown(e)
    BY AnswerFields, ReportedError
  <2> QED BY <1>1, <1>2, <2>1, AnswerFields DEF getAccessToken
<1>3. CASE e.class # "mfa"
  <2>1. Thrown(e) = "failed"
    BY <1>3, ThrownError
  <2> QED BY <1>1, <1>3, <2>1, AnswerFields DEF getAccessToken
<1> QED BY <1>2, <1>3
-----------------------------------------------------------------------------
(* What the methods of the server throw.                                   *)

\* An error there is no going on from.
Final(e) == SdkError(e) /\ ~e.token /\ e.code # "mfa_token_expired"

\* Which errors there is no going on from, and the two there is.
LEMMA FinalErrors ==
  /\ \A code : code # "mfa_token_expired" =>
        Final(Own(code)) /\ (code # "mfa_required" => Final(Other(code)))
  /\ Final(MfaRequiredError(FALSE)) /\ Final(InvalidRequest)
  /\ SdkError(MfaRequiredError(TRUE)) /\ SdkError(Own("mfa_token_expired"))
<1>1. \A code : Own(code) # NoError /\ Other(code) # NoError
  BY ErrorFields
<1>2. \A t : MfaRequiredError(t) # NoError
  BY ErrorFields
<1>3. InvalidRequest # NoError
  BY ErrorFields
<1> QED BY <1>1, <1>2, <1>3, ErrorFields DEF Final, SdkError

\* The former fail the call.
LEMMA FinalThrown ==
  ASSUME NEW e, Final(e)
  PROVE  Thrown(e) = "failed"
BY ThrownError DEF Final

\* What a grant throws.
GrantThrows(o, e) ==
    /\ o = "tokens" => e = NoError
    /\ o = "no_id_token" => e = NoError \/ Final(e)
    /\ o = "mfa_required" => e = MfaRequiredError(TRUE)
    /\ o = "expired" => e = Own("mfa_token_expired")
    /\ o \in {"mfa_without_token", "claim_mismatch", "refused", "denied", "unreachable",
              "undiscovered", "invalid", "malformed"}
          => Final(e)

\* A refusal of the token endpoint is one.
LEMMA Refusals ==
  ASSUME NEW o \in Outcomes
  PROVE  Final(Refusal(o))
<1>1. extractOAuthErrorDetails(o) \in {{"invalid_grant"}, {"access_denied"}, {}}
  BY DEF extractOAuthErrorDetails
<1>2. \A code \in {"unknown_error", "invalid_grant", "access_denied"} : Final(Own(code))
  BY FinalErrors
<1>3. CASE extractOAuthErrorDetails(o) = {}
  BY <1>2, <1>3 DEF Refusal
<1>4. CASE extractOAuthErrorDetails(o) # {}
  <2>1. (CHOOSE code \in extractOAuthErrorDetails(o) : TRUE) \in {"invalid_grant", "access_denied"}
    BY <1>1, <1>4
  <2> QED BY <1>2, <1>4, <2>1 DEF Refusal
<1> QED BY <1>3, <1>4

\* The grant with a credential throws what its outcome calls for.
LEMMA CredentialGrantThrows ==
  ASSUME NEW o \in Outcomes
  PROVE  GrantThrows(o, CredentialGrant(o))
<1>1. /\ Final(Own("discovery_error")) /\ Final(Own("invalid_issuer")) /\ Final(Own("mfa_required"))
      /\ Final(Refusal(o))
  BY FinalErrors, Refusals
<1>2. CASE o = "undiscovered"
  BY <1>1, <1>2 DEF CredentialGrant, GrantThrows,
        throwIfMfaRequired, isMfaRequiredError, extractMfaErrorDetails
<1>3. CASE o = "claim_mismatch"
  BY <1>1, <1>3 DEF CredentialGrant, GrantThrows,
        throwIfMfaRequired, isMfaRequiredError, extractMfaErrorDetails
<1>4. CASE o = "mfa_required"
  BY <1>1, <1>4 DEF CredentialGrant, GrantThrows,
        throwIfMfaRequired, isMfaRequiredError, extractMfaErrorDetails
<1>5. CASE o = "mfa_without_token"
  BY <1>1, <1>5 DEF CredentialGrant, GrantThrows,
        throwIfMfaRequired, isMfaRequiredError, extractMfaErrorDetails
<1>6. CASE o \in {"refused", "denied", "unreachable"}
  BY <1>1, <1>6 DEF CredentialGrant, GrantThrows,
        throwIfMfaRequired, isMfaRequiredError, extractMfaErrorDetails
<1>7. CASE o \in {"tokens", "no_id_token"}
  BY <1>1, <1>7 DEF CredentialGrant, GrantThrows,
        throwIfMfaRequired, isMfaRequiredError, extractMfaErrorDetails
<1> QED BY <1>2, <1>3, <1>4, <1>5, <1>6, <1>7 DEF Outcomes

\* So does what the methods make of it.
LEMMA SignInThrows ==
  ASSUME NEW o \in Outcomes
  PROVE  /\ GrantThrows(o, passkeyGetToken(o))
         /\ GrantThrows(o, passwordlessVerify(o))
         /\ GrantThrows(o, passwordlessDbGetToken(o))
<1>1. GrantThrows(o, CredentialGrant(o))
  BY CredentialGrantThrows
<1>2. Final(Own("missing_id_token")) /\ Final(Other("missing_id_token"))
  BY FinalErrors
<1> QED
  BY <1>1, <1>2 DEF GrantThrows, passkeyGetToken, passwordlessVerify, passwordlessDbGetToken

\* So does the refresh of a token set, which never finds an MFA token expired.
LEMMA RefreshThrows ==
  ASSUME NEW o \in Outcomes
  PROVE  GrantThrows(o, refreshTokenSet(o)) /\ refreshTokenSet(o).code # "mfa_token_expired"
<1>1. /\ Final(Own("discovery_error")) /\ Final(Own("failed_to_refresh_token"))
      /\ Final(MfaRequiredError(FALSE))
  BY FinalErrors
<1>2. CASE o = "undiscovered"
  BY <1>1, <1>2, ErrorFields DEF refreshTokenSet, GrantThrows,
        isMfaRequiredError, extractMfaErrorDetails
<1>3. CASE o = "mfa_required"
  BY <1>1, <1>3, ErrorFields DEF refreshTokenSet, GrantThrows,
        isMfaRequiredError, extractMfaErrorDetails
<1>4. CASE o = "mfa_without_token"
  BY <1>1, <1>4, ErrorFields DEF refreshTokenSet, GrantThrows,
        isMfaRequiredError, extractMfaErrorDetails
<1>5. CASE o \in {"refused", "denied", "unreachable", "claim_mismatch"}
  BY <1>1, <1>5, ErrorFields DEF refreshTokenSet, GrantThrows,
        isMfaRequiredError, extractMfaErrorDetails
<1>6. CASE o \in {"tokens", "no_id_token"}
  BY <1>1, <1>6, ErrorFields DEF refreshTokenSet, GrantThrows,
        isMfaRequiredError, extractMfaErrorDetails
<1> QED BY <1>2, <1>3, <1>4, <1>5, <1>6 DEF Outcomes

\* The MFA token is decrypted first; a server that wants another factor is taken to
\* send its token.
LEMMA Decrypts ==
  /\ decryptMfaToken("expired") = Own("mfa_token_expired")
  /\ decryptMfaToken("invalid") = Own("mfa_token_invalid")
  /\ \A o : o \notin {"expired", "invalid"} => decryptMfaToken(o) = NoError
  /\ Own("mfa_token_expired") # NoError /\ Own("mfa_token_invalid") # NoError
BY ErrorFields DEF decryptMfaToken

\* So does the verification of a factor.
LEMMA VerifyThrows ==
  ASSUME NEW o \in (Outcomes \ {"mfa_without_token"}) \cup {"expired", "invalid", "malformed"},
         NEW fields, getVerifyGrantType(buildVerifyParams(fields)) = {} <=> o = "malformed"
  PROVE  GrantThrows(o, mfaVerify(o, fields))
<1>1. /\ Final(Own("discovery_error")) /\ Final(Own("mfa_token_invalid"))
      /\ Final(Own("invalid_request"))
  BY FinalErrors
<1>2. CASE o \in {"expired", "invalid"}
  <2>1. decryptMfaToken(o) # NoError
    BY <1>2, Decrypts
  <2>2. mfaVerify(o, fields) = decryptMfaToken(o)
    BY <1>2, <2>1 DEF mfaVerify
  <2> QED BY <1>1, <1>2, <2>2, Decrypts DEF GrantThrows
<1>3. CASE o \in Outcomes \ {"mfa_without_token"}
  <2>1. decryptMfaToken(o) = NoError
    BY <1>3, Decrypts DEF Outcomes
  <2>2. Final(Refusal(o))
    BY <1>3, Refusals
  <2>3. CASE o = "undiscovered"
    BY <1>1, <2>1, <2>3 DEF mfaVerify, GrantThrows
  <2>4. CASE o = "mfa_required"
    BY <1>1, <2>1, <2>4 DEF mfaVerify, GrantThrows
  <2>5. CASE o \in {"refused", "denied", "unreachable", "claim_mismatch"}
    BY <2>1, <2>2, <2>5 DEF mfaVerify, GrantThrows
  <2>6. CASE o \in {"tokens", "no_id_token"}
    BY <1>1, <2>1, <2>6 DEF mfaVerify, GrantThrows
  <2> QED BY <1>3, <2>3, <2>4, <2>5, <2>6 DEF Outcomes
<1>4. CASE o = "malformed"
  <2>1. decryptMfaToken(o) = NoError
    BY <1>4, Decrypts
  <2>2. mfaVerify(o, fields) = Own("invalid_request")
    BY <1>4, <2>1 DEF mfaVerify
  <2> QED BY <1>1, <1>4, <2>2 DEF GrantThrows
<1> QED BY <1>2, <1>3, <1>4

\* The credential a route passes on has the grant that the whole body has.
LEMMA CredentialPassedOn ==
  ASSUME NEW fields \in VerifyOptions
  PROVE  LET passed == transformVerifyBodyToOptions(fields) IN
         /\ passed = {} <=> getVerifyGrantType(buildVerifyParams(fields)) = {}
         /\ buildVerifyParams(passed) = buildVerifyParams(fields)
BY DEF VerifyOptions, transformVerifyBodyToOptions, buildVerifyParams, getVerifyGrantType

\* What the page is told, or the Server Action, of an outcome.
Tells(o, result) ==
    /\ result \in Results
    /\ result = "done" => Said(o) \in {"tokens", "no_id_token"}
    /\ Said(o) = "tokens" => result = "done"
    /\ Said(o) = "mfa" => result = "mfa"
    /\ Said(o) = "expired" <=> result = "expired"
    /\ Said(o) = "failed" => result = "failed"

\* What is kept of an outcome.
LEMMA Saying ==
  /\ Said("tokens") = "tokens" /\ Said("no_id_token") = "no_id_token"
  /\ Said("expired") = "expired" /\ Said("mfa_required") = "mfa"
  /\ \A o : o \notin {"tokens", "no_id_token", "expired", "mfa_required"} => Said(o) = "failed"
BY DEF Said

\* What a grant throws tells what came of it.
LEMMA GrantsTell ==
  ASSUME NEW o \in Outcomes \cup {"expired", "invalid", "malformed"}, NEW e, GrantThrows(o, e)
  PROVE  Tells(o, Thrown(e))
<1>1. Thrown(NoError) = "done" /\ Thrown(MfaRequiredError(TRUE)) = "mfa"
      /\ Thrown(Own("mfa_token_expired")) = "expired"
  BY SuccessReported, ThrownError, FinalErrors, ErrorFields
<1>2. Final(e) => Thrown(e) = "failed"
  BY FinalThrown
<1> QED BY <1>1, <1>2, Saying DEF GrantThrows, Tells, Results, Outcomes

\* And the routes report the same.
LEMMA GrantsReported ==
  ASSUME NEW o \in Outcomes \cup {"expired", "invalid", "malformed"}, NEW e, GrantThrows(o, e)
  PROVE  /\ \A status : status # 200 => Reported(Handled(e, status)) = Thrown(e)
         /\ Reported(handleMfaError(e)) = Thrown(e)
         /\ e.code # "mfa_token_expired" => getAccessToken(handleAccessToken(e)) = Thrown(e)
<1>1. e = NoError \/ SdkError(e)
  BY FinalErrors DEF GrantThrows, Final, Outcomes
<1> QED BY <1>1, SuccessReported, RouteReports, RetrievalReports

-----------------------------------------------------------------------------
(* What the calls come to.                                                 *)
LEMMA SignInTells ==
  ASSUME NEW o \in Outcomes, NEW result \in SignInResults[o]
  PROVE  Tells(o, result)
<1>1. PICK how \in SignInMethods, via \in Callers : result = SignedIn(how, via, o)
  BY DEF SignInResults
<1>2. how \in Methods
  BY StepUpAssumption
<1>3. /\ Tells(o, Thrown(passkeyGetToken(o)))
      /\ Tells(o, Thrown(passwordlessVerify(o)))
      /\ Tells(o, Thrown(passwordlessDbGetToken(o)))
  BY SignInThrows, GrantsTell
<1>4. /\ _verify(handlePasskeyGetToken(passkeyGetToken(o))) = Thrown(passkeyGetToken(o))
      /\ verify(handlePasswordlessVerify(passwordlessVerify(o))) = Thrown(passwordlessVerify(o))
      /\ loginWithOtp(handlePasswordlessDbGetToken(passwordlessDbGetToken(o)))
            = Thrown(passwordlessDbGetToken(o))
  BY SignInThrows, GrantsReported
     DEF _verify, verify, loginWithOtp, handlePasskeyGetToken, handlePasswordlessVerify,
         handlePasswordlessDbGetToken
<1>5. CASE how \in {"signup", "login"}
  BY <1>1, <1>3, <1>4, <1>5 DEF SignedIn, ServerPasskeyClient, Callers
<1>6. CASE how = "passwordless"
  BY <1>1, <1>3, <1>4, <1>6 DEF SignedIn, ServerPasswordlessClient, Callers
<1>7. CASE how = "otp"
  BY <1>1, <1>3, <1>4, <1>7 DEF SignedIn, ServerPasswordlessClient, Callers
<1> QED BY <1>2, <1>5, <1>6, <1>7 DEF Methods

\* The results of retrieving a token tell what the token endpoint said.
LEMMA RetrievalTells ==
  ASSUME NEW o \in Outcomes, NEW result \in TokenResults[o]["asking"] \cup TokenResults[o]["settled"]
  PROVE  Tells(o, result)
<1>1. result = Retrieved(o)
  BY DEF TokenResults
<1>2. Retrieved(o) = Thrown(refreshTokenSet(o))
  BY RefreshThrows, GrantsReported DEF Retrieved
<1> QED BY <1>1, <1>2, RefreshThrows, GrantsTell

\* Those of enrolling a passkey are results.
LEMMA EnrolmentResults ==
  ASSUME NEW o \in Outcomes, NEW result \in TokenResults[o]["enrolling"]
  PROVE  result \in Results
<1>1. result \in Enrolled(o)
  BY DEF TokenResults
<1> QED BY <1>1, ResultsOnly DEF Enrolled, enrollmentChallenge, enrollmentVerify, ServerPasskeyClient

\* Those of a verification tell it too.
LEMMA VerificationTells ==
  ASSUME NEW o \in (Outcomes \ {"mfa_without_token"}) \cup {"expired", "invalid", "malformed"},
         NEW result \in VerifyResults[o]
  PROVE  Tells(o, result)
<1>1. PICK via \in Callers, fields \in CredentialsOf(o) : result = Verified(via, o, fields)
  BY DEF VerifyResults, Replies
<1> DEFINE passed == transformVerifyBodyToOptions(fields)
<1>2. /\ getVerifyGrantType(buildVerifyParams(fields)) = {} <=> o = "malformed"
      /\ fields \in VerifyOptions
  BY <1>1 DEF CredentialsOf
<1>3. /\ passed = {} <=> o = "malformed"
      /\ getVerifyGrantType(buildVerifyParams(passed)) = {} <=> o = "malformed"
  BY <1>2, CredentialPassedOn
<1> HIDE DEF passed
<1>4. GrantThrows(o, mfaVerify(o, fields)) /\ GrantThrows(o, mfaVerify(o, passed))
  BY <1>2, <1>3, VerifyThrows
<1>5. Tells(o, ServerMfaClient(mfaVerify(o, fields)))
  BY <1>4, GrantsTell DEF ServerMfaClient
<1>6. Tells(o, verifyFactor(o, fields))
  <2>1. CASE o = "malformed"
    <3>1. GrantThrows(o, InvalidRequest)
      BY <2>1, FinalErrors DEF GrantThrows
    <3>2. handleVerify(o, fields) = handleMfaError(InvalidRequest)
      BY <1>3, <2>1 DEF handleVerify, passed
    <3> QED BY <3>1, <3>2, GrantsReported, GrantsTell DEF verifyFactor, parseError
  <2>2. CASE o # "malformed"
    <3>1. handleVerify(o, fields) = handleMfaError(mfaVerify(o, passed))
      BY <1>3, <2>2 DEF handleVerify, passed
    <3> QED BY <1>4, <3>1, GrantsReported, GrantsTell DEF verifyFactor, parseError
  <2> QED BY <2>1, <2>2
<1> QED BY <1>1, <1>5, <1>6 DEF Verified

\* A request for a challenge throws what is wrong with it, or nothing.
RequestThrows(o, e) ==
    \/ e = NoError
    \/ Final(e) /\ o # "expired"
    \/ e = Own("mfa_token_expired") /\ o = "expired"

Stops(o, result) ==
    \/ result = "done"
    \/ result = "failed" /\ o # "expired"
    \/ result = "expired" /\ o = "expired"

\* The methods that ask for a factor throw what became of the request.
LEMMA RequestsThrow ==
  ASSUME NEW o \in Replies
  PROVE  /\ RequestThrows(o, Requested(o))
         /\ RequestThrows(o, mfaGetAuthenticators(o))
         /\ RequestThrows(o, mfaChallenge(o))
         /\ RequestThrows(o, mfaAssociate(o))
<1>1. /\ Final(Own("invalid_request")) /\ Final(Own("unexpected_error"))
      /\ Final(Own("mfa_token_invalid")) /\ Final(Own("mfa_no_available_factors"))
      /\ Final(Other("invalid_request")) /\ Final(Other("unexpected_error"))
  BY FinalErrors
<1>2. /\ Requested("refused") = Own("invalid_request")
      /\ Requested("unreachable") = Own("unexpected_error")
      /\ \A p : p \notin {"refused", "unreachable"} => Requested(p) = NoError
  BY DEF Requested
<1>3. RequestThrows(o, Requested(o))
  BY <1>1, <1>2 DEF RequestThrows
<1>4. \A e : RequestThrows(o, e) => RequestThrows(o, WithMfaToken(o, e))
  <2>1. CASE o \in {"expired", "invalid"}
    BY <1>1, <2>1, Decrypts DEF RequestThrows, WithMfaToken
  <2>2. CASE o \notin {"expired", "invalid"}
    <3>1. decryptMfaToken(o) = NoError
      BY <2>2, Decrypts
    <3> QED BY <3>1 DEF WithMfaToken
  <2> QED BY <2>1, <2>2
<1>5. RequestThrows(o, IF o = "no_factor" THEN Own("mfa_no_available_factors") ELSE Requested(o))
  BY <1>1, <1>3 DEF RequestThrows
<1>6. RequestThrows(o, IF Requested(o) = NoError THEN NoError ELSE Other(Requested(o).code))
  <2>1. Own("invalid_request").code = "invalid_request" /\ Own("unexpected_error").code = "unexpected_error"
    BY ErrorFields
  <2>2. CASE o = "refused"
    BY <1>1, <1>2, <2>1, <2>2 DEF RequestThrows
  <2>3. CASE o = "unreachable"
    BY <1>1, <1>2, <2>1, <2>3 DEF RequestThrows
  <2>4. CASE o \notin {"refused", "unreachable"}
    BY <1>2, <2>4 DEF RequestThrows
  <2> QED BY <2>2, <2>3, <2>4
<1> QED
  BY <1>3, <1>4, <1>5, <1>6 DEF mfaGetAuthenticators, mfaChallenge, mfaAssociate

\* An error of such a request ends the call, whoever reports it.
LEMMA RequestsStop ==
  ASSUME NEW o \in Replies, NEW e, RequestThrows(o, e)
  PROVE  /\ Stops(o, Thrown(e))
         /\ Stops(o, Reported(Handled(Parsed(o, e), 400)))
         /\ Stops(o, parseError(handleMfaError(Parsed(o, e))))
         /\ Stops(o, parseError(handleMfaError(InvalidRequest))) \/ o = "expired"
<1>1. \A x : RequestThrows(o, x) =>
         /\ x = NoError \/ SdkError(x)
         /\ Stops(o, Thrown(x))
  BY FinalErrors, FinalThrown, SuccessReported, ThrownError, ErrorFields
     DEF RequestThrows, Stops, Final
<1>2. RequestThrows(o, InvalidRequest) \/ o = "expired"
  BY FinalErrors DEF RequestThrows
<1>3. RequestThrows(o, Parsed(o, e))
  BY <1>2 DEF Parsed
<1>4. \A x : RequestThrows(o, x) =>
         /\ Stops(o, Reported(Handled(x, 400)))
         /\ Stops(o, parseError(handleMfaError(x)))
  <2> SUFFICES ASSUME NEW x, RequestThrows(o, x)
               PROVE  /\ Stops(o, Reported(Handled(x, 400)))
                      /\ Stops(o, parseError(handleMfaError(x)))
    OBVIOUS
  <2>1. CASE x = NoError
    BY <2>1, SuccessReported DEF Stops, parseError
  <2>2. CASE SdkError(x)
    BY <1>1, <2>2, RouteReports DEF parseError
  <2> QED BY <1>1, <2>1, <2>2
<1> QED BY <1>1, <1>2, <1>3, <1>4

\* What a page goes on with after it asked for a factor, or for a challenge.
LEMMA FactorsStop ==
  ASSUME NEW o \in Replies, NEW result \in FactorResults[o]
  PROVE  Stops(o, result)
<1>1. PICK f \in Factors, via \in Callers, opts \in OptionsOf(o) : result = SecondFactor(f, via, o, opts)
  BY DEF FactorResults
<1>2. /\ Stops(o, Thrown(mfaGetAuthenticators(o))) /\ Stops(o, getAuthenticators(o))
      /\ Stops(o, Thrown(mfaChallenge(o))) /\ Stops(o, challenge(o))
      /\ Stops(o, Thrown(mfaAssociate(o)))
  BY RequestsThrow, RequestsStop
     DEF getAuthenticators, handleGetAuthenticators, challenge, handleChallenge
<1> DEFINE body == normalizeEnrollOptions(opts)
<1>3. UnknownFactor(opts) \/ buildEnrollOptions(body) = {} => o = "malformed"
  BY <1>1 DEF OptionsOf
<1> HIDE DEF body
<1>4. UnknownFactor(opts) => Stops(o, "failed")
  BY <1>3 DEF Stops
<1>5. Stops(o, parseError(handleAssociate(o, body)))
  <2>1. CASE buildEnrollOptions(body) = {}
    BY <1>3, <2>1, RequestsThrow, RequestsStop DEF handleAssociate
  <2>2. CASE buildEnrollOptions(body) # {}
    BY <2>2, RequestsThrow, RequestsStop DEF handleAssociate
  <2> QED BY <2>1, <2>2
<1>6. Stops(o, enroll(o, opts))
  BY <1>4, <1>5 DEF enroll, body
<1>7. CASE f = "authenticators"
  BY <1>1, <1>2, <1>7 DEF SecondFactor, ServerMfaClient, Callers
<1>8. CASE f = "challenge"
  BY <1>1, <1>2, <1>8 DEF SecondFactor, ServerMfaClient, Callers
<1>9. CASE f = "associate"
  BY <1>1, <1>2, <1>6, <1>9, <1>4 DEF SecondFactor, ServerMfaClient, Callers
<1> QED BY <1>7, <1>8, <1>9 DEF Factors

\* The same of the challenge of a sign-in.
LEMMA ChallengesStop ==
  ASSUME NEW o \in Replies, NEW result \in ChallengeResults[o]
  PROVE  Stops(o, result)
<1>1. PICK how \in SignInMethods, via \in Callers : result = Challenged(how, via, o)
  BY DEF ChallengeResults
<1>2. how \in Methods
  BY StepUpAssumption
<1>3. /\ Stops(o, Thrown(Requested(o))) /\ Stops(o, Reported(Handled(Parsed(o, Requested(o)), 400)))
  BY RequestsThrow, RequestsStop
<1>4. /\ Stops(o, start(o)) /\ Stops(o, sendChallenge(o))
      /\ Stops(o, signup(o)) /\ Stops(o, login(o))
  BY <1>3 DEF Stops, start, sendChallenge, signup, login, WithCredential, handlePasswordlessStart,
     handlePasswordlessDbOtpChallenge, handlePasskeyRegister, handlePasskeyChallenge,
     passwordlessStart, passwordlessDbOtpChallenge, passkeyRegister, passkeyChallenge
<1>5. /\ Stops(o, ServerPasskeyClient(passkeyRegister(o)))
      /\ Stops(o, ServerPasskeyClient(passkeyChallenge(o)))
      /\ Stops(o, ServerPasswordlessClient(passwordlessStart(o)))
      /\ Stops(o, ServerPasswordlessClient(passwordlessDbOtpChallenge(o)))
  BY <1>3 DEF ServerPasskeyClient, ServerPasswordlessClient,
     passwordlessStart, passwordlessDbOtpChallenge, passkeyRegister, passkeyChallenge
<1>6. CASE how = "signup"
  BY <1>1, <1>4, <1>5, <1>6 DEF Challenged, Callers
<1>7. CASE how = "login"
  BY <1>1, <1>4, <1>5, <1>7 DEF Challenged, Callers
<1>8. CASE how = "passwordless"
  BY <1>1, <1>4, <1>5, <1>8 DEF Challenged, Callers
<1>9. CASE how = "otp"
  BY <1>1, <1>4, <1>5, <1>9 DEF Challenged, Callers
<1> QED BY <1>2, <1>6, <1>7, <1>8, <1>9 DEF Methods

\* The errors a popup posts end the call.
LEMMA PopupErrorsFinal ==
  ASSUME NEW error \in {parsePopupError(code) : code \in PopupErrors}
  PROVE  error = "failed"
<1>1. /\ Thrown(MfaRequiredError(FALSE)) = "failed"
      /\ Thrown(Other("access_denied")) = "failed" /\ Thrown(Other("callback_error")) = "failed"
  BY FinalErrors, FinalThrown
<1> QED BY <1>1 DEF parsePopupError, PopupErrors

-----------------------------------------------------------------------------
(* Types.                                                                  *)
AllAsks == TokenAsks \cup EnrollAsks \cup PopupAsks

CallType ==
    [pc : {"idle", "waiting", "settled", "mfa", "answered", "verified", "expired", "failed"},
     ask : AllAsks \cup {NoAsk}, mfa : MfaContexts \cup {NoToken},
     tok : AccessToken \cup {NoToken},
     told : {"tokens", "no_id_token", "mfa", "expired", "failed", NoOutcome}]

\* A call has an MFA token where it can go on with it; one that waits for a popup has
\* been told nothing.
CallTyped(q) ==
    /\ q \in CallType
    /\ q.pc \in {"mfa", "verified"} <=> q.mfa # NoToken
    /\ q.pc \in {"waiting", "settled"} => q.ask \in PopupAsks /\ q.told = NoOutcome

WaitsInCall(c) == call[c].pc = "waiting" <=> waits[c] # NoPopup

TransactionsTyped ==
    /\ transaction \in [Popups -> PopupAsks \cup {NoAsk}]
    /\ \A p \in Popups : window[p] = "open" => transaction[p] \in PopupAsks

TypeInv ==
    /\ PopupTypeOK /\ TransactionsTyped
    /\ session \in Session \cup {NoSession}
    /\ call \in [Calls -> CallType]
    /\ \A c \in Calls : CallTyped(call[c]) /\ WaitsInCall(c)

\* What PageKnowsOutcome says of a call.
Knows(q) ==
    q.ask \notin EnrollAsks =>
        /\ q.pc \in {"answered", "verified"} => q.told \in {NoOutcome, "tokens", "no_id_token"}
        /\ q.told = "tokens" => q.pc \in {"answered", "verified"}
        /\ q.told = "mfa" => q.pc = "mfa"
        /\ q.told = "expired" <=> q.pc = "expired"
        /\ q.told = "failed" => q.pc = "failed"

KnowsInv == \A c \in Calls : Knows(call[c])

\* The parts of a call.
LEMMA CallFields ==
  ASSUME NEW pc, NEW ask, NEW mfa, NEW tok, NEW told
  PROVE  LET q == Call(pc, ask, mfa, tok, told)
         IN  /\ q.pc = pc /\ q.ask = ask /\ q.mfa = mfa /\ q.tok = tok /\ q.told = told
             /\ /\ pc \in {"idle", "waiting", "settled", "mfa", "answered", "verified", "expired", "failed"}
                /\ ask \in AllAsks \cup {NoAsk} /\ mfa \in MfaContexts \cup {NoToken}
                /\ tok \in AccessToken \cup {NoToken}
                /\ told \in {"tokens", "no_id_token", "mfa", "expired", "failed", NoOutcome}
                => q \in CallType
BY DEF Call, CallType

\* What the types say of a call.
LEMMA CallsTyped ==
  ASSUME TypeInv, NEW c \in Calls
  PROVE  LET q == call[c]
         IN  /\ q \in CallType
             /\ q.pc \in {"mfa", "verified"} <=> q.mfa # NoToken
             /\ q.pc \in {"waiting", "settled"} => q.ask \in PopupAsks /\ q.told = NoOutcome
             /\ q.pc \in {"idle", "waiting", "settled", "mfa", "answered", "verified", "expired", "failed"}
             /\ q.ask \in AllAsks \cup {NoAsk} /\ q.mfa \in MfaContexts \cup {NoToken}
             /\ q.tok \in AccessToken \cup {NoToken}
             /\ q.pc = "waiting" <=> waits[c] # NoPopup
<1>1. CallTyped(call[c]) /\ (call[c].pc = "waiting" <=> waits[c] # NoPopup)
  BY DEF TypeInv, WaitsInCall
<1>2. call[c] \in CallType
  BY <1>1 DEF CallTyped
<1>3. /\ call[c].pc \in {"idle", "waiting", "settled", "mfa", "answered", "verified", "expired", "failed"}
      /\ call[c].ask \in AllAsks \cup {NoAsk} /\ call[c].mfa \in MfaContexts \cup {NoToken}
      /\ call[c].tok \in AccessToken \cup {NoToken}
  BY <1>2 DEF CallType
<1> QED BY <1>1, <1>2, <1>3 DEF CallTyped

\* Something is kept of every outcome.
LEMMA SaidTyped ==
  ASSUME NEW out
  PROVE  Said(out) \in {"tokens", "no_id_token", "mfa", "expired", "failed"}
BY Saying

\* A call goes on as one, and the page knows why.
LEMMA ToldTyped ==
  ASSUME NEW o \in AllAsks \cup {NoAsk}, NEW out, NEW result \in Results, NEW mfa, NEW tok,
         result = "mfa" => mfa \in MfaContexts, result = "done" => tok \in AccessToken
  PROVE  LET q == Told(o, out, result, mfa, tok)
         IN  /\ CallTyped(q) /\ q.ask = o
             /\ q.pc \in {"answered", "mfa", "expired", "failed"}
             /\ Tells(out, result) => Knows(q)
<1> DEFINE q == Told(o, out, result, mfa, tok)
<1>1. /\ Said(out) \in {"tokens", "no_id_token", "mfa", "expired", "failed"}
      /\ \A m \in MfaContexts : m # NoToken
      /\ NoOutcome \notin {"tokens", "no_id_token", "mfa", "expired", "failed"}
  BY SaidTyped, NothingAssumption
<1>2. CASE result = "done"
  <2>1. q = Call("answered", o, NoToken, tok, Said(out))
    BY <1>2 DEF Told
  <2> HIDE DEF q
  <2>2. /\ q.pc = "answered" /\ q.ask = o /\ q.mfa = NoToken /\ q.told = Said(out)
        /\ q \in CallType
    BY <1>1, <1>2, <2>1, CallFields
  <2> QED BY <1>1, <1>2, <2>2 DEF CallTyped, Tells, Knows, q
<1>3. CASE result = "mfa"
  <2>1. q = Call("mfa", o, mfa, NoToken, Said(out))
    BY <1>3 DEF Told
  <2> HIDE DEF q
  <2>2. /\ q.pc = "mfa" /\ q.ask = o /\ q.mfa = mfa /\ q.told = Said(out)
        /\ q \in CallType
    BY <1>1, <1>3, <2>1, CallFields
  <2> QED BY <1>1, <1>3, <2>2 DEF CallTyped, Tells, Knows, q
<1>4. CASE result \in {"expired", "failed"}
  <2>1. q = Call(result, o, NoToken, NoToken, Said(out))
    BY <1>4 DEF Told
  <2> HIDE DEF q
  <2>2. /\ q.pc = result /\ q.ask = o /\ q.mfa = NoToken /\ q.told = Said(out)
        /\ q \in CallType
    BY <1>1, <1>4, <2>1, CallFields
  <2> QED BY <1>1, <1>4, <2>2 DEF CallTyped, Tells, Knows, q
<1> QED BY <1>2, <1>3, <1>4 DEF Results

\* So does one that was told nothing.
LEMMA UntoldTyped ==
  ASSUME NEW pc \in {"idle", "waiting", "answered", "failed"}, NEW o \in AllAsks \cup {NoAsk},
         NEW tok \in AccessToken \cup {NoToken}, pc = "waiting" => o \in PopupAsks
  PROVE  LET q == Call(pc, o, NoToken, tok, NoOutcome)
         IN  CallTyped(q) /\ Knows(q) /\ q.ask = o /\ q.pc = pc /\ q.mfa = NoToken
<1> DEFINE q == Call(pc, o, NoToken, tok, NoOutcome)
<1>1. /\ q.pc = pc /\ q.ask = o /\ q.mfa = NoToken /\ q.told = NoOutcome /\ q \in CallType
  BY CallFields
<1> HIDE DEF q
<1> QED BY <1>1, NothingAssumption DEF CallTyped, Knows, q

-----------------------------------------------------------------------------
(* Sessions and tokens.                                                    *)

\* The parts of a session.
LEMMA SessionFields ==
  ASSUME NEW s \in Session
  PROVE  /\ s.rt \in MaybeAudience /\ s.aud \in MaybeAudience /\ s.requested \in SUBSET Scopes
         /\ s.tok \in AccessToken /\ s.cached \in Seq(CachedToken)
         /\ \A i \in DOMAIN s.cached :
              /\ s.cached[i] \in CachedToken /\ s.cached[i].aud \in MaybeAudience
              /\ s.cached[i].requested \in SUBSET Scopes /\ s.cached[i].tok \in AccessToken
         /\ EntriesScoped(s)
<1>1. /\ s.rt \in MaybeAudience /\ s.aud \in MaybeAudience /\ s.requested \in SUBSET Scopes
      /\ s.tok \in AccessToken /\ s.cached \in Seq(CachedToken)
  BY DEF Session
<1>2. DOMAIN s.cached \subseteq Nat /\ \A i \in DOMAIN s.cached : s.cached[i] \in CachedToken
  BY <1>1
<1>3. \A i \in DOMAIN s.cached :
         /\ s.cached[i].aud \in MaybeAudience
         /\ s.cached[i].requested \in SUBSET Scopes /\ s.cached[i].tok \in AccessToken
  BY <1>2 DEF CachedToken
<1>4. \A i \in DOMAIN s.cached : s.cached[i].tok.scope \subseteq Scopes
  BY <1>3 DEF AccessToken
<1> QED BY <1>1, <1>2, <1>3, <1>4 DEF EntriesScoped

\* The scope and the context of a request are ones.
LEMMA ResolvedTyped ==
  ASSUME NEW o \in AllAsks
  PROVE  /\ Resolved(o) \in SUBSET Scopes /\ o.aud \in MaybeAudience /\ o.scope \in SUBSET Scopes
         /\ o \in Asks
         /\ \A family \in MaybeAudience : MfaContext(o, family) \in MfaContexts
<1>1. o \in Asks /\ Default \in MaybeAudience
  BY AccessTokensAssumption, StepUpAssumption DEF AllAsks, MaybeAudience
<1>2. Resolved(o) \in SUBSET Scopes /\ o.aud \in MaybeAudience /\ o.scope \in SUBSET Scopes
  BY <1>1, AccessTokensAssumption DEF Resolved, Asks, OrElse, MaybeAudience
<1> QED BY <1>1, <1>2 DEF MfaContext, MfaContexts, OrElse

\* What the authorization server issues: for the audience, all that it grants of what
\* it was asked for.
LEMMA IssuedIs ==
  ASSUME NEW aud \in MaybeAudience, NEW scope \in SUBSET Scopes
  PROVE  LET t == Issued(aud, scope)
         IN  /\ t \in AccessToken /\ t.aud = aud /\ t.live /\ ~t.popup
             /\ scope \cap Allowed[aud] \subseteq t.scope
             /\ scope = {} => t.scope = Allowed[aud]
             /\ scope # {} => t.scope = scope \cap Allowed[aud]
<1>1. Allowed[aud] \in SUBSET Scopes
  BY StepUpAssumption
<1> QED BY <1>1 DEF Issued, Token, AccessToken

\* The token a popup brings.
LEMMA FromPopupIs ==
  ASSUME NEW o \in PopupAsks
  PROVE  LET t == FromPopup(o)
         IN  /\ t \in AccessToken /\ t.aud = o.aud /\ t.asked = Resolved(o) /\ t.live
             /\ t.scope = Issued(o.aud, Resolved(o)).scope
<1>1. o.aud \in MaybeAudience /\ Resolved(o) \in SUBSET Scopes
  BY ResolvedTyped DEF AllAsks
<1>2. Issued(o.aud, Resolved(o)).scope \in SUBSET Scopes
  BY <1>1, IssuedIs DEF AccessToken
<1> QED BY <1>1, <1>2 DEF FromPopup, AccessToken

\* A new session is one.
LEMMA NewTyped ==
  ASSUME NEW aud \in MaybeAudience, NEW requested \in SUBSET Scopes, NEW tok \in AccessToken,
         NEW family \in MaybeAudience
  PROVE  LET s == NewSession(aud, requested, tok, family)
         IN  /\ s \in Session /\ s.aud = aud /\ s.requested = requested /\ s.tok = tok
             /\ s.rt = family /\ s.cached = <<>> /\ DOMAIN s.cached = {}
BY DEF NewSession, Session

\* What a session comes to for a request.
LEMMA FoundTyped ==
  ASSUME session \in Session, NEW o
  PROVE  /\ Found(o).aud \in MaybeAudience /\ Found(o).requested \in SUBSET Scopes
         /\ Found(o).tok \in AccessToken \cup {NoToken} /\ Found(o).rt = session.rt
<1> DEFINE s == session
           t == Found(o)
<1>1. CASE t = Global(s)
  BY <1>1, SessionFields DEF Global, TokenSet
<1>2. ASSUME NEW i \in DOMAIN s.cached,
             t = TokenSet(s.cached[i].aud, s.cached[i].requested, s.cached[i].tok, s.rt)
      PROVE  /\ t.aud \in MaybeAudience /\ t.requested \in SUBSET Scopes
             /\ t.tok \in AccessToken \cup {NoToken} /\ t.rt = s.rt
  BY <1>2, SessionFields DEF TokenSet
<1>3. CASE t = TokenSet(NoAudience, {}, NoToken, s.rt)
  BY <1>3 DEF TokenSet, MaybeAudience
<1> HIDE DEF t
<1>4. \/ t = Global(s)
      \/ \E i \in DOMAIN s.cached :
           t = TokenSet(s.cached[i].aud, s.cached[i].requested, s.cached[i].tok, s.rt)
      \/ t = TokenSet(NoAudience, {}, NoToken, s.rt)
  BY SessionFields, TokenSetCases DEF t, Found
<1> QED BY <1>1, <1>2, <1>3, <1>4 DEF t

\* The token set a refresh gives: for the audience named, or the refresh token's.
LEMMA RefreshedIs ==
  ASSUME session \in Session, NEW o \in AllAsks
  PROVE  LET t == Refreshed(o)
             scope == IF o.scope = {} THEN {} ELSE Resolved(o)
         IN  /\ t.aud = OrElse(Found(o).aud, o.aud) /\ t.aud \in MaybeAudience
             /\ t.requested = Resolved(o) /\ t.requested \in SUBSET Scopes
             /\ scope \in SUBSET Scopes /\ OrElse(o.aud, session.rt) \in MaybeAudience
             /\ t.tok = Issued(OrElse(o.aud, session.rt), scope)
             /\ t.tok \in AccessToken /\ t.rt = session.rt
             /\ t.tok.aud = OrElse(o.aud, session.rt) /\ t.tok.live /\ ~t.tok.popup
             /\ Resolved(o) \cap Allowed[t.tok.aud] \subseteq t.tok.scope
<1> DEFINE scope == IF o.scope = {} THEN {} ELSE Resolved(o)
           aud == OrElse(o.aud, session.rt)
           t == Refreshed(o)
<1>1. /\ Resolved(o) \in SUBSET Scopes /\ o.aud \in MaybeAudience /\ o.scope \in SUBSET Scopes
      /\ session.rt \in MaybeAudience /\ Found(o).aud \in MaybeAudience
  BY ResolvedTyped, SessionFields, FoundTyped
<1>2. scope \in SUBSET Scopes /\ aud \in MaybeAudience
  BY <1>1 DEF OrElse
<1>3. /\ t.aud = OrElse(Found(o).aud, o.aud) /\ t.requested = Resolved(o)
      /\ t.tok = Issued(aud, scope) /\ t.rt = session.rt
  BY DEF Refreshed, TokenSet
<1> HIDE DEF t, aud, scope
<1>4. /\ t.tok \in AccessToken /\ t.tok.aud = aud /\ t.tok.live /\ ~t.tok.popup
      /\ scope \cap Allowed[aud] \subseteq t.tok.scope
      /\ scope = {} => t.tok.scope = Allowed[aud]
  BY <1>2, <1>3, IssuedIs
<1>5. scope = {} \/ scope = Resolved(o)
  BY DEF scope
<1>6. t.aud \in MaybeAudience
  BY <1>1, <1>3 DEF OrElse
<1> QED BY <1>1, <1>2, <1>3, <1>4, <1>5, <1>6 DEF t, aud, scope

\* A session with another token set, or other entries, is one.
LEMMA WithTyped ==
  ASSUME NEW s \in Session, NEW t, t.rt \in MaybeAudience
  PROVE  /\ t.aud \in MaybeAudience /\ t.requested \in SUBSET Scopes /\ t.tok \in AccessToken
              => WithGlobal(s, t) \in Session
         /\ \A c \in Seq(CachedToken) : WithCached(s, t, c) \in Session
BY SessionFields DEF WithGlobal, WithCached, Session

\* The session a refresh changes.
LEMMA RenewedTyped ==
  ASSUME session \in Session, NEW o \in AllAsks, NEW x \in SessionChanges(session, Refreshed(o), TRUE)
  PROVE  x \in Session /\ x.rt = session.rt
<1> DEFINE s == session
           t == Refreshed(o)
<1>0. /\ t.rt \in MaybeAudience /\ t.aud \in MaybeAudience /\ t.requested \in SUBSET Scopes
      /\ t.tok \in AccessToken /\ EntriesScoped(s) /\ t.rt = s.rt
  BY RefreshedIs, SessionFields
<1> HIDE DEF t
<1>1. ASSUME isGlobalAudienceAndScope(s, t) /\ x = WithGlobal(s, t)
      PROVE  x \in Session
  BY <1>0, <1>1, WithTyped
<1>2. ASSUME NEW e, EntryFor(s, t, e),
             \/ x = WithCached(s, t, Append(s.cached, e))
             \/ \E i \in DOMAIN s.cached : x = WithCached(s, t, [s.cached EXCEPT ![i] = e])
      PROVE  x \in Session
  <2>1. e.aud \in MaybeAudience /\ e.tok \in AccessToken
    BY <1>0, <1>2, AccessTokensAssumption DEF EntryFor, OrElse, MaybeAudience
  <2>2. e.requested \in SUBSET Scopes
    BY <1>0, <1>2, SessionFields DEF EntryFor
  <2>3. e \in CachedToken
    BY <1>2, <2>1, <2>2 DEF EntryFor, Entry, CachedToken
  <2>4. Append(s.cached, e) \in Seq(CachedToken)
    BY <2>3, SessionFields
  <2>5. \A i \in DOMAIN s.cached : [s.cached EXCEPT ![i] = e] \in Seq(CachedToken)
    BY <2>3, SessionFields, ExceptSeq
  <2> QED BY <1>0, <1>2, <2>4, <2>5, WithTyped
<1>3. x \in Session
  BY <1>0, <1>1, <1>2, ChangeCases DEF t
<1>4. x.rt = t.rt
  <2>1. x \in SessionChanges(s, t, TRUE)
    BY <1>0 DEF t
  <2> HIDE DEF s
  <2> QED BY ONLY <2>1, ChangesKeepRefreshToken
<1> QED BY <1>0, <1>3, <1>4

\* Where a popup's token goes: to the first entry of its audience, or to the end.
PopupEntry(o) == Entry(o.aud, Resolved(o), FromPopup(o))

Placed(s, e, x) ==
    \/ /\ \A i \in DOMAIN s.cached : s.cached[i].aud # e.aud
       /\ x = Append(s.cached, e)
    \/ \E i \in DOMAIN s.cached :
         /\ s.cached[i].aud = e.aud
         /\ \A j \in DOMAIN s.cached : j < i => s.cached[j].aud # e.aud
         /\ x = [s.cached EXCEPT ![i] = e]

\* A popup's token merged leaves the rest of the session as it was.
LEMMA MergedIs ==
  ASSUME session \in Session, NEW o \in PopupAsks
  PROVE  LET x == mergePopupTokenIntoSession(o, FromPopup(o))
         IN  /\ x \in Session
             /\ Placed(session, PopupEntry(o), x.cached)
             /\ x.aud = session.aud /\ x.requested = session.requested /\ x.tok = session.tok
             /\ x.rt = IF "refresh_token" \in PopupGrants THEN o.aud ELSE session.rt
<1> DEFINE s == session
           e == PopupEntry(o)
           M == {i \in DOMAIN s.cached : s.cached[i].aud = o.aud}
           first == CHOOSE i \in M : \A j \in M : i <= j
           c == IF M = {} THEN Append(s.cached, e) ELSE [s.cached EXCEPT ![first] = e]
           rt == IF "refresh_token" \in PopupGrants THEN o.aud ELSE s.rt
           x == mergePopupTokenIntoSession(o, FromPopup(o))
<1>1. o.aud \in MaybeAudience /\ Resolved(o) \in SUBSET Scopes /\ FromPopup(o) \in AccessToken
  BY ResolvedTyped, FromPopupIs DEF AllAsks
<1>2. e \in CachedToken /\ e.aud = o.aud
  BY <1>1 DEF PopupEntry, Entry, CachedToken
<1>3. c \in Seq(CachedToken) /\ Placed(s, e, c)
  <2>1. CASE M = {}
    BY <1>2, <2>1, SessionFields DEF Placed
  <2>2. CASE M # {}
    <3>1. M \subseteq Nat
      BY SessionFields DEF EntriesScoped
    <3>2. first \in M /\ \A j \in M : first <= j
      BY <2>2, <3>1, SmallestOf
    <3> HIDE DEF first
    <3>3. [s.cached EXCEPT ![first] = e] \in Seq(CachedToken)
      BY <1>2, <3>2, SessionFields, ExceptSeq
    <3>4. \A j \in DOMAIN s.cached : j < first => s.cached[j].aud # e.aud
      <4> TAKE j \in DOMAIN s.cached
      <4>1. j \in M => first <= j
        BY <3>2
      <4>2. j \in Nat /\ first \in Nat
        BY <3>1, <3>2, SessionFields DEF EntriesScoped
      <4> QED BY <1>2, <4>1, <4>2
    <3> QED BY <1>2, <2>2, <3>2, <3>3, <3>4 DEF Placed
  <2> QED BY <2>1, <2>2
<1>4. x = [s EXCEPT !.rt = rt, !.cached = c]
  BY DEF mergePopupTokenIntoSession, PopupEntry
<1> HIDE DEF c, rt
<1>5. x = [aud |-> s.aud, requested |-> s.requested, tok |-> s.tok, rt |-> rt, cached |-> c]
  <2> DEFINE m == [s EXCEPT !.rt = rt]
  <2>1. s = [aud |-> s.aud, requested |-> s.requested, tok |-> s.tok, rt |-> s.rt,
             cached |-> s.cached]
    BY DEF Session
  <2>2. m = [aud |-> s.aud, requested |-> s.requested, tok |-> s.tok, rt |-> rt,
             cached |-> s.cached]
    BY <2>1
  <2> HIDE DEF m
  <2>3. [m EXCEPT !.cached = c] =
          [aud |-> s.aud, requested |-> s.requested, tok |-> s.tok, rt |-> rt, cached |-> c]
    BY <2>2
  <2> QED BY <1>4, <2>3 DEF m
<1>6. rt \in MaybeAudience
  BY <1>1, SessionFields DEF rt
<1> HIDE DEF x
<1> QED BY <1>3, <1>5, <1>6, SessionFields DEF Session, rt, x

\* The token of a verification is appended.
LEMMA VerifiedIs ==
  ASSUME session \in Session, NEW m \in MfaContexts
  PROVE  LET tok == Issued(m.for, m.scope)
             x == cacheTokenFromMfaVerify(m, tok)
         IN  /\ x \in Session /\ Len(x.cached) = Len(session.cached) + 1
             /\ x.cached = Append(session.cached, Entry(m.aud, tok.scope, tok))
             /\ x.aud = session.aud /\ x.requested = session.requested /\ x.tok = session.tok
             /\ x.rt = session.rt
<1> DEFINE s == session
           tok == Issued(m.for, m.scope)
           c == Append(s.cached, Entry(m.aud, tok.scope, tok))
           x == cacheTokenFromMfaVerify(m, tok)
<1>1. m.aud \in MaybeAudience /\ tok \in AccessToken /\ tok.scope \in SUBSET Scopes
  BY IssuedIs DEF MfaContexts, AccessToken
<1> HIDE DEF tok
<1>2. Entry(m.aud, tok.scope, tok) \in CachedToken
  BY <1>1 DEF Entry, CachedToken
<1>3. c \in Seq(CachedToken) /\ Len(c) = Len(s.cached) + 1
  BY <1>2, SessionFields
<1>4. x = [s EXCEPT !.cached = c]
  BY DEF cacheTokenFromMfaVerify
<1> HIDE DEF c
<1>5. x = [aud |-> s.aud, requested |-> s.requested, tok |-> s.tok, rt |-> s.rt, cached |-> c]
  <2>1. s = [aud |-> s.aud, requested |-> s.requested, tok |-> s.tok, rt |-> s.rt,
             cached |-> s.cached]
    BY DEF Session
  <2> QED BY <1>4, <2>1
<1> HIDE DEF x
<1> QED BY <1>3, <1>5, SessionFields DEF Session, c, x, tok

\* Time changes nothing of a session but whether one of its tokens is live.
Aging(t, u) ==
    /\ u \in AccessToken /\ u.aud = t.aud /\ u.scope = t.scope /\ u.popup = t.popup
    /\ u.asked = t.asked /\ (u.live => t.live)

Aged ==
    /\ session \in Session /\ session' \in Session
    /\ session'.aud = session.aud /\ session'.requested = session.requested
    /\ session'.rt = session.rt /\ Aging(session.tok, session'.tok)
    /\ DOMAIN session'.cached = DOMAIN session.cached
    /\ \A i \in DOMAIN session.cached :
         LET a == session.cached[i]
             b == session'.cached[i]
         IN  b.aud = a.aud /\ b.requested = a.requested /\ Aging(a.tok, b.tok)

\* The expiry of a token ages the session.
LEMMA ExpireAges ==
  ASSUME TypeInv, Expire
  PROVE  Aged
<1> DEFINE s == session
           no == FALSE
           Late(t) == [t EXCEPT !.live = no]
           Explicit(aud, requested, tok, rt, cached) ==
             [aud |-> aud, requested |-> requested, tok |-> tok, rt |-> rt, cached |-> cached]
<1>1. s \in Session
  BY DEF Expire, TypeInv
<1>2. ASSUME NEW t \in AccessToken PROVE Late(t) \in AccessToken /\ Aging(t, Late(t)) /\ Aging(t, t)
  BY <1>2 DEF Aging, AccessToken
<1>3. s = Explicit(s.aud, s.requested, s.tok, s.rt, s.cached)
  BY <1>1 DEF Session
<1> HIDE DEF Late, no
<1>4. CASE session' = [session EXCEPT !.tok.live = FALSE]
  <2>1. session' = [s EXCEPT !.tok = Late(s.tok)]
    BY <1>1, <1>4 DEF Late, no, Session
  <2>2. session' = Explicit(s.aud, s.requested, Late(s.tok), s.rt, s.cached)
    BY <1>3, <2>1
  <2>3. session' \in Session
    BY <1>1, <1>2, <2>2, SessionFields DEF Session
  <2> QED BY <1>1, <1>2, <2>2, <2>3, SessionFields DEF Aged
<1>5. ASSUME NEW i \in DOMAIN session.cached,
             session' = [session EXCEPT !.cached[i].tok.live = FALSE]
      PROVE  Aged
  <2> DEFINE e == s.cached[i]
             f == [e EXCEPT !.tok = Late(e.tok)]
             c == [s.cached EXCEPT ![i] = f]
  <2>1. e \in CachedToken /\ e.tok \in AccessToken
    BY <1>1, SessionFields
  <2>2. f \in CachedToken /\ f.aud = e.aud /\ f.requested = e.requested /\ f.tok = Late(e.tok)
    BY <1>2, <2>1 DEF CachedToken
  <2>3. session' = [s EXCEPT !.cached = c]
    BY <1>5 DEF Late, no
  <2> HIDE DEF f
  <2>4. c \in Seq(CachedToken)
    BY <1>1, <2>2, SessionFields, ExceptSeq
  <2>5. /\ DOMAIN c = DOMAIN s.cached /\ c[i] = f
        /\ \A j \in DOMAIN s.cached : j # i => c[j] = s.cached[j]
    BY <1>1, SessionFields
  <2> HIDE DEF c
  <2>6. session' = Explicit(s.aud, s.requested, s.tok, s.rt, c)
    BY <1>3, <2>3
  <2>7. session' \in Session
    BY <1>1, <2>4, <2>6, SessionFields DEF Session
  <2>8. ASSUME NEW j \in DOMAIN s.cached
        PROVE  c[j].aud = s.cached[j].aud /\ c[j].requested = s.cached[j].requested
               /\ Aging(s.cached[j].tok, c[j].tok)
    BY <1>1, <1>2, <2>1, <2>2, <2>5, <2>8, SessionFields
  <2>9. Aging(s.tok, s.tok)
    BY <1>1, <1>2, SessionFields
  <2>10. /\ session'.aud = s.aud /\ session'.requested = s.requested /\ session'.rt = s.rt
         /\ session'.tok = s.tok /\ session'.cached = c
    BY <2>6
  <2> QED BY <1>1, <2>5, <2>7, <2>8, <2>9, <2>10 DEF Aged
<1> QED BY <1>4, <1>5 DEF Expire

-----------------------------------------------------------------------------
(* What the steps do to the session.                                       *)

\* An MFA token a call has, or the one of a sign-in.
Held(m) ==
    /\ m \in MfaContexts
    /\ m = SignInContext \/ \E c \in Calls : call[c].pc = "mfa" /\ m = call[c].mfa

Renewed(o) == session \in Session /\ session' \in SessionChanges(session, Refreshed(o), TRUE)

VerifiedInto(m) ==
    session \in Session /\ session' = cacheTokenFromMfaVerify(m, Issued(m.for, m.scope))

SignedInWith(m) == session' = createSessionFromPasswordlessVerify(Issued(m.for, m.scope))

PopupMerged(o) ==
    session \in Session /\ session' = mergePopupTokenIntoSession(o, FromPopup(o))

PopupBegan(o) == session' = NewSession(o.aud, Resolved(o), FromPopup(o), o.aud)

LoggedIn ==
    session' = NewSession(Default, GlobalScope[Default], Issued(Default, GlobalScope[Default]), Default)

SessionStep ==
    \/ session' = session
    \/ session' = NoSession
    \/ \E o \in AllAsks : Renewed(o)
    \/ \E m \in MfaContexts : Held(m) /\ (VerifiedInto(m) \/ SignedInWith(m))
    \/ \E o \in PopupAsks : PopupMerged(o) \/ PopupBegan(o)
    \/ LoggedIn
    \/ Aged

\* The tokens and the context of a login are ones.
LEMMA DefaultTyped ==
  /\ Default \in MaybeAudience /\ GlobalScope[Default] \in SUBSET Scopes
  /\ SignInContext \in MfaContexts
  /\ Issued(Default, GlobalScope[Default]) \in AccessToken
<1>1. Default \in MaybeAudience /\ GlobalScope[Default] \in SUBSET Scopes
  BY AccessTokensAssumption DEF MaybeAudience
<1> QED BY <1>1, IssuedIs DEF SignInContext, MfaContexts

\* A session stays one.
LEMMA SessionStays ==
  ASSUME TypeInv, SessionStep
  PROVE  session' \in Session \cup {NoSession}
<1>1. CASE session' = session \/ session' = NoSession
  BY <1>1 DEF TypeInv
<1>2. ASSUME NEW o \in AllAsks, Renewed(o)
      PROVE  session' \in Session
  <2>1. session \in Session /\ session' \in SessionChanges(session, Refreshed(o), TRUE)
    BY <1>2 DEF Renewed
  <2> QED BY <2>1, RenewedTyped
<1>3. ASSUME NEW m \in MfaContexts, VerifiedInto(m) \/ SignedInWith(m)
      PROVE  session' \in Session
  <2>1. CASE VerifiedInto(m)
    BY <2>1, VerifiedIs DEF VerifiedInto
  <2>2. CASE SignedInWith(m)
    <3>1. /\ m.for \in MaybeAudience /\ Issued(m.for, m.scope) \in AccessToken
          /\ Issued(m.for, m.scope).aud = m.for /\ NoAudience \in MaybeAudience
      BY IssuedIs DEF MfaContexts, MaybeAudience
    <3> QED BY <2>2, <3>1, NewTyped DEF SignedInWith, createSessionFromPasswordlessVerify
  <2> QED BY <1>3, <2>1, <2>2
<1>4. ASSUME NEW o \in PopupAsks, PopupMerged(o) \/ PopupBegan(o)
      PROVE  session' \in Session
  <2>1. CASE PopupMerged(o)
    BY <2>1, MergedIs DEF PopupMerged
  <2>2. CASE PopupBegan(o)
    <3>1. o.aud \in MaybeAudience /\ Resolved(o) \in SUBSET Scopes /\ FromPopup(o) \in AccessToken
      BY ResolvedTyped, FromPopupIs DEF AllAsks
    <3> QED BY <2>2, <3>1, NewTyped DEF PopupBegan
  <2> QED BY <1>4, <2>1, <2>2
<1>5. CASE LoggedIn
  BY <1>5, DefaultTyped, NewTyped DEF LoggedIn
<1>6. CASE Aged
  BY <1>6 DEF Aged
<1> QED BY <1>1, <1>2, <1>3, <1>4, <1>5, <1>6 DEF SessionStep

-----------------------------------------------------------------------------
(* What the steps do to the calls.                                         *)

\* Call c becomes q.
Becomes(c, q) == call' = [call EXCEPT ![c] = q]

\* One that is over, or goes on with an MFA token; the rest of the page is as it was.
Answers(c, q) ==
    /\ CallTyped(q) /\ Becomes(c, q)
    /\ q.pc \in {"answered", "verified", "mfa", "expired", "failed"}
    /\ Knows(q)

Going(how, o) ==
    \/ how = "asking" /\ o \in TokenAsks
    \/ how = "enrolling" /\ o \in EnrollAsks
    \/ how = "settled" /\ o \in PopupAsks

\* What getting a token comes to.
LEMMA GetTokenStep ==
  ASSUME TypeInv, NEW c \in Calls, NEW how, NEW o, Going(how, o), GetToken(c, how, o)
  PROVE  /\ SessionStep
         /\ \E q : Answers(c, q) /\ q.ask = o
<1>0. o \in AllAsks /\ session \in Session \cup {NoSession}
  BY DEF Going, AllAsks, TypeInv
<1>1. CASE FromCache(c, o)
  <2> DEFINE q == Call("answered", o, NoToken, Found(o).tok, NoOutcome)
  <2>1. Becomes(c, q) /\ session' = session /\ session \in Session
    BY <1>0, <1>1 DEF FromCache, Becomes
  <2>2. Found(o).tok \in AccessToken \cup {NoToken}
    BY <2>1, FoundTyped
  <2>3. CallTyped(q) /\ Knows(q) /\ q.ask = o /\ q.pc = "answered"
    BY <1>0, <2>2, UntoldTyped
  <2> HIDE DEF q
  <2>4. Answers(c, q)
    BY <2>1, <2>3 DEF Answers
  <2> QED BY <2>1, <2>3, <2>4 DEF SessionStep
<1>2. CASE NoSessionFound(c, o)
  <2> DEFINE q == Call("failed", o, NoToken, NoToken, NoOutcome)
  <2>1. Becomes(c, q) /\ session' = session
    BY <1>2 DEF NoSessionFound, Becomes
  <2>2. CallTyped(q) /\ Knows(q) /\ q.ask = o /\ q.pc = "failed"
    BY <1>0, UntoldTyped
  <2> HIDE DEF q
  <2>3. Answers(c, q)
    BY <2>1, <2>2 DEF Answers
  <2> QED BY <2>1, <2>2, <2>3 DEF SessionStep
<1>3. CASE Refreshes(c, how, o)
  <2> DEFINE t == Refreshed(o)
             changes == SessionChanges(session, t, TRUE)
             mfa == MfaContext(o, session.rt)
  <2>1. session \in Session
    BY <1>0, <1>3 DEF Refreshes
  <2>2. PICK out \in {"tokens"} \cup Faults : \E result \in TokenResults[out][how] :
          /\ call' = [call EXCEPT ![c] = Told(o, out, result, mfa, t.tok)]
          /\ session' \in IF result = "done" /\ how # "enrolling" /\ changes # {}
                            THEN changes ELSE {session}
    BY <1>3 DEF Refreshes
  <2>3. PICK result \in TokenResults[out][how] :
          /\ call' = [call EXCEPT ![c] = Told(o, out, result, mfa, t.tok)]
          /\ session' \in IF result = "done" /\ how # "enrolling" /\ changes # {}
                            THEN changes ELSE {session}
    BY <2>2
  <2>4. out \in Outcomes
    BY StepUpAssumption DEF Outcomes
  <2>5. result \in Results /\ (o \notin EnrollAsks => Tells(out, result))
    <3>1. CASE how = "enrolling"
      BY <2>4, <3>1, EnrolmentResults DEF Going
    <3>2. CASE how = "asking"
      BY <2>4, <3>2, RetrievalTells DEF Tells
    <3>3. CASE how = "settled"
      BY <2>4, <3>3, RetrievalTells DEF Tells
    <3> QED BY <3>1, <3>2, <3>3 DEF Going
  <2>6. mfa \in MfaContexts /\ t.tok \in AccessToken
    BY <1>0, <2>1, ResolvedTyped, SessionFields, RefreshedIs
  <2>7. session' = session \/ session' \in changes
    BY <2>3
  <2> DEFINE q == Told(o, out, result, mfa, t.tok)
  <2>8. /\ CallTyped(q) /\ q.ask = o /\ q.pc \in {"answered", "mfa", "expired", "failed"}
        /\ Tells(out, result) => Knows(q)
    BY <1>0, <2>5, <2>6, ToldTyped
  <2>9. Becomes(c, q)
    BY <2>3 DEF Becomes
  <2> HIDE DEF q
  <2>10. Knows(q)
    BY <2>5, <2>8 DEF Knows
  <2>11. Answers(c, q)
    BY <2>8, <2>9, <2>10 DEF Answers
  <2>12. SessionStep
    BY <1>0, <2>1, <2>7 DEF SessionStep, Renewed
  <2> QED BY <2>8, <2>11, <2>12
<1> QED BY <1>1, <1>2, <1>3 DEF GetToken

\* A request for a token ends in an answer.
LEMMA AskStep ==
  ASSUME TypeInv, NEW c \in Calls, NEW how, NEW o, Going(how, o), Ask(c, how, o)
  PROVE  /\ SessionStep /\ call[c].pc = "idle" /\ UNCHANGED <<transaction, popupVars>>
         /\ \E q : Answers(c, q)
<1>1. GetToken(c, how, o) /\ call[c].pc = "idle" /\ UNCHANGED <<transaction, popupVars>>
  BY DEF Ask
<1> QED BY <1>1, GetTokenStep

\* So does the one a popup's success leads to.
LEMMA PopupTokenStep ==
  ASSUME TypeInv, NEW c \in Calls, PopupToken(c)
  PROVE  /\ SessionStep /\ call[c].pc = "settled" /\ EndCall(c)
         /\ UNCHANGED <<window, mail, transaction>>
         /\ \E q : Answers(c, q)
<1>1. call[c].pc = "settled" /\ GetToken(c, "settled", call[c].ask)
  BY DEF PopupToken
<1>2. call[c].ask \in PopupAsks
  BY <1>1, CallsTyped
<1>3. Going("settled", call[c].ask)
  BY <1>2 DEF Going
<1>4. SessionStep /\ \E q : Answers(c, q)
  BY <1>1, <1>3, GetTokenStep
<1> QED BY <1>1, <1>4 DEF PopupToken

\* The request for a factor leaves the call as it is, or ends it.
LEMMA PrepareStep ==
  ASSUME TypeInv, NEW c \in Calls, Prepare(c)
  PROVE  /\ session' = session /\ call[c].pc = "mfa" /\ UNCHANGED <<transaction, popupVars>>
         /\ call' = call \/ \E q : Answers(c, q)
<1>1. PICK o \in {"sent"} \cup RequestFaults : \E result \in FactorResults[o] :
        call' = IF result = "done" THEN call
                ELSE [call EXCEPT ![c] = Told(call[c].ask, o, result, NoToken, NoToken)]
  BY DEF Prepare
<1>2. PICK result \in FactorResults[o] :
        call' = IF result = "done" THEN call
                ELSE [call EXCEPT ![c] = Told(call[c].ask, o, result, NoToken, NoToken)]
  BY <1>1
<1>3. o \in Replies
  BY StepUpAssumption DEF Replies
<1>4. Stops(o, result)
  BY <1>3, FactorsStop
<1>5. ASSUME result # "done"
      PROVE  \E q : Answers(c, q)
  <2> DEFINE q == Told(call[c].ask, o, result, NoToken, NoToken)
  <2>1. result \in {"expired", "failed"} /\ Tells(o, result)
    <3>1. o \notin {"tokens", "no_id_token", "mfa_required"}
      BY <1>3 DEF Replies
    <3> QED BY <1>4, <1>5, <3>1, Saying DEF Stops, Tells, Results
  <2>2. call[c].ask \in AllAsks \cup {NoAsk}
    BY CallsTyped
  <2>3. CallTyped(q) /\ Knows(q) /\ q.pc \in {"answered", "mfa", "expired", "failed"}
    BY <2>1, <2>2, ToldTyped DEF Results
  <2>4. Becomes(c, q)
    BY <1>2, <1>5 DEF Becomes
  <2> HIDE DEF q
  <2>5. Answers(c, q)
    BY <2>3, <2>4 DEF Answers
  <2> QED BY <2>5
<1> QED BY <1>2, <1>5 DEF Prepare

\* A verification ends in an answer.
LEMMA VerifyStep ==
  ASSUME TypeInv, NEW c \in Calls, Verify(c)
  PROVE  /\ SessionStep /\ call[c].pc = "mfa" /\ UNCHANGED <<transaction, popupVars>>
         /\ \E q : Answers(c, q)
<1> DEFINE m   == call[c].mfa
           o   == call[c].ask
           tok == Issued(m.for, m.scope)
           expiry == RequestFaults \cap {"expired", "invalid", "malformed"}
           outs == {"tokens"} \cup (Faults \ {"mfa_without_token"}) \cup expiry
           Lost(out) == out = "no_id_token" /\ session = NoSession
           Next_(out, result) ==
             /\ call' = [call EXCEPT ![c] =
                   IF result = "done" THEN Call("verified", o, m, tok, Said(out))
                   ELSE Told(o, out, result, m, NoToken)]
             /\ session' = IF result # "done" THEN session
                           ELSE IF session = NoSession
                             THEN createSessionFromPasswordlessVerify(tok)
                           ELSE cacheTokenFromMfaVerify(m, tok)
<1>1. PICK out \in outs : \E result \in IF Lost(out) THEN {"failed"} ELSE VerifyResults[out] :
        Next_(out, result)
  BY DEF Verify
<1>2. PICK result \in IF Lost(out) THEN {"failed"} ELSE VerifyResults[out] : Next_(out, result)
  BY <1>1
<1>3. call[c].pc = "mfa" /\ UNCHANGED <<transaction, popupVars>>
  BY DEF Verify
<1>4. m \in MfaContexts /\ Held(m) /\ m # NoToken /\ o \in AllAsks \cup {NoAsk}
  BY <1>3, CallsTyped DEF Held
<1>5. tok \in AccessToken
  BY <1>4, IssuedIs DEF MfaContexts
<1>6. out \in (Outcomes \ {"mfa_without_token"}) \cup {"expired", "invalid", "malformed"}
  BY StepUpAssumption DEF Outcomes
<1>7. Tells(out, result) \/ (out = "no_id_token" /\ result = "failed")
  BY <1>2, <1>6, VerificationTells
<1>8. result \in Results
  BY <1>7 DEF Tells, Results
<1>9. SessionStep
  <2>1. \/ session' = session
        \/ session' = createSessionFromPasswordlessVerify(tok)
        \/ session # NoSession /\ session' = cacheTokenFromMfaVerify(m, tok)
    BY <1>2
  <2>2. session \in Session \cup {NoSession}
    BY DEF TypeInv
  <2> HIDE DEF tok, Next_
  <2> QED BY <1>4, <2>1, <2>2 DEF SessionStep, VerifiedInto, SignedInWith, tok
<1>10. CASE result = "done"
  <2> DEFINE q == Call("verified", o, m, tok, Said(out))
  <2>1. Becomes(c, q)
    BY <1>2, <1>10 DEF Becomes
  <2>2. Said(out) \in {"tokens", "no_id_token"}
    BY <1>7, <1>10 DEF Tells
  <2> HIDE DEF tok
  <2>3. q.pc = "verified" /\ q.ask = o /\ q.mfa = m /\ q.told = Said(out) /\ q \in CallType
    BY <1>4, <1>5, <2>2, CallFields
  <2> HIDE DEF q
  <2>4. CallTyped(q) /\ Knows(q)
    BY <1>4, <2>2, <2>3 DEF CallTyped, Knows
  <2>5. Answers(c, q)
    BY <2>1, <2>3, <2>4 DEF Answers
  <2> QED BY <1>3, <1>9, <2>5
<1>11. CASE result # "done"
  <2> DEFINE q == Told(o, out, result, m, NoToken)
  <2>1. Becomes(c, q)
    BY <1>2, <1>11 DEF Becomes
  <2>2. /\ CallTyped(q) /\ q.pc \in {"answered", "mfa", "expired", "failed"}
        /\ Tells(out, result) => Knows(q)
    BY <1>4, <1>8, <1>11, ToldTyped
  <2>3. Knows(q)
    <3>1. CASE out = "no_id_token" /\ result = "failed"
      <4>1. q = Call("failed", o, NoToken, NoToken, "no_id_token")
        BY <3>1, Saying DEF Told
      <4>2. q.pc = "failed" /\ q.told = "no_id_token"
        BY <4>1, CallFields
      <4> HIDE DEF q
      <4> QED BY <4>2 DEF Knows
    <3> QED BY <1>7, <2>2, <3>1
  <2> HIDE DEF q
  <2>4. Answers(c, q)
    BY <2>1, <2>2, <2>3 DEF Answers
  <2> QED BY <1>3, <1>9, <2>4
<1> QED BY <1>10, <1>11

\* So does a sign-in.
LEMMA SignInStep ==
  ASSUME TypeInv, NEW c \in Calls, SignIn(c)
  PROVE  /\ SessionStep /\ call[c].pc = "idle" /\ UNCHANGED <<transaction, popupVars>>
         /\ \E q : Answers(c, q)
<1> DEFINE m   == SignInContext
           tok == Issued(Default, GlobalScope[Default])
<1>0. /\ call[c].pc = "idle" /\ UNCHANGED <<transaction, popupVars>>
      /\ m \in MfaContexts /\ tok \in AccessToken
  BY DefaultTyped DEF SignIn
<1>1. ASSUME NEW o \in RequestFaults, NEW result \in ChallengeResults[o] \ {"done"},
             call' = [call EXCEPT ![c] = Told(NoAsk, o, result, m, NoToken)], session' = session
      PROVE  SessionStep /\ \E q : Answers(c, q)
  <2> DEFINE q == Told(NoAsk, o, result, m, NoToken)
  <2>1. o \in Replies
    BY StepUpAssumption
  <2>2. Stops(o, result)
    BY <2>1, ChallengesStop
  <2>3. result \in {"expired", "failed"} /\ Tells(o, result)
    <3>1. o \notin {"tokens", "no_id_token", "mfa_required"}
      BY <2>1 DEF Replies
    <3> QED BY <2>2, <3>1, Saying DEF Stops, Tells, Results
  <2>4. CallTyped(q) /\ Knows(q) /\ q.pc \in {"answered", "mfa", "expired", "failed"}
    BY <2>3, ToldTyped DEF Results
  <2>5. Becomes(c, q)
    BY <1>1 DEF Becomes
  <2> HIDE DEF q
  <2>6. Answers(c, q)
    BY <2>4, <2>5 DEF Answers
  <2> QED BY <1>1, <2>6 DEF SessionStep
<1>2. ASSUME NEW out \in {"tokens"} \cup Faults, NEW result \in SignInResults[out],
             call' = [call EXCEPT ![c] = Told(NoAsk, out, result, m, tok)],
             session' = IF result = "done" THEN createSessionFromPasswordlessVerify(tok)
                        ELSE session
      PROVE  SessionStep /\ \E q : Answers(c, q)
  <2> DEFINE q == Told(NoAsk, out, result, m, tok)
  <2>1. out \in Outcomes
    BY StepUpAssumption DEF Outcomes
  <2>2. Tells(out, result)
    BY <2>1, SignInTells
  <2>3. CallTyped(q) /\ Knows(q) /\ q.pc \in {"answered", "mfa", "expired", "failed"}
    BY <1>0, <2>2, ToldTyped DEF Tells
  <2>4. Becomes(c, q)
    BY <1>2 DEF Becomes
  <2> HIDE DEF q
  <2>5. Answers(c, q)
    BY <2>3, <2>4 DEF Answers
  <2>6. session' = session \/ SignedInWith(m)
    BY <1>2 DEF SignedInWith, SignInContext
  <2>7. Held(m)
    BY <1>0 DEF Held
  <2> QED BY <1>0, <2>5, <2>6, <2>7 DEF SessionStep
<1> QED BY <1>0, <1>1, <1>2 DEF SignIn

-----------------------------------------------------------------------------
(* Every step is one of these.                                             *)

\* A call that began without a popup comes to something.
Direct(c) ==
    /\ call[c].pc \in {"idle", "mfa"} /\ UNCHANGED <<transaction, popupVars>>
    /\ \E q : Answers(c, q)

\* One whose popup succeeded does.
Settled(c) ==
    /\ call[c].pc = "settled" /\ EndCall(c) /\ UNCHANGED <<window, mail, transaction>>
    /\ \E q : Answers(c, q)

Opens(c, p, o) == challengeWithPopup(c, p, o)

\* A popup is gone.
Gone(p) == PopupCallback(p) \/ PopupFails(p) \/ Close(p)

Elsewhere == UNCHANGED <<call, transaction, popupVars>>

PageStep ==
    \/ \E c \in Calls : Direct(c) \/ Settled(c) \/ GiveUp(c)
    \/ \E c \in Calls : \E p \in Popups : \E o \in PopupAsks : Opens(c, p, o)
    \/ \E p \in Popups : Gone(p)
    \/ \E m \in mail : Message(m)
    \/ Elsewhere

\* A step takes an answer, or does one thing to the session and one to the page.
LEMMA StepCases ==
  ASSUME TypeInv, Next
  PROVE  \/ \E c \in Calls : End(c)
         \/ Ended = {} /\ SessionStep /\ PageStep
<1>1. CASE \E c \in Calls : End(c)
  BY <1>1
<1>2. ASSUME NEW c \in DirectCalls,
             \/ \E o \in TokenAsks : Ask(c, "asking", o)
             \/ \E o \in EnrollAsks : Ask(c, "enrolling", o)
             \/ SignIn(c)
      PROVE  SessionStep /\ PageStep
  <2>1. c \in Calls
    BY StepUpAssumption
  <2>2. /\ SessionStep /\ call[c].pc = "idle" /\ UNCHANGED <<transaction, popupVars>>
        /\ \E q : Answers(c, q)
    <3>1. ASSUME NEW o \in TokenAsks, Ask(c, "asking", o)
          PROVE  /\ SessionStep /\ call[c].pc = "idle" /\ UNCHANGED <<transaction, popupVars>>
                 /\ \E q : Answers(c, q)
      BY <2>1, <3>1, AskStep DEF Going
    <3>2. ASSUME NEW o \in EnrollAsks, Ask(c, "enrolling", o)
          PROVE  /\ SessionStep /\ call[c].pc = "idle" /\ UNCHANGED <<transaction, popupVars>>
                 /\ \E q : Answers(c, q)
      BY <2>1, <3>2, AskStep DEF Going
    <3>3. CASE SignIn(c)
      BY <2>1, <3>3, SignInStep
    <3> QED BY <1>2, <3>1, <3>2, <3>3
  <2>3. Direct(c)
    BY <2>2 DEF Direct
  <2> QED BY <2>1, <2>2, <2>3 DEF PageStep
<1>3. ASSUME NEW c \in Calls, NEW p \in Popups, NEW o \in PopupAsks, challengeWithPopup(c, p, o)
      PROVE  SessionStep /\ PageStep
  BY <1>3 DEF SessionStep, PageStep, Opens, challengeWithPopup
<1>4. ASSUME NEW c \in Calls, Prepare(c)
      PROVE  SessionStep /\ PageStep
  <2>1. /\ session' = session /\ call[c].pc = "mfa" /\ UNCHANGED <<transaction, popupVars>>
        /\ call' = call \/ \E q : Answers(c, q)
    BY <1>4, PrepareStep
  <2>2. Elsewhere \/ Direct(c)
    BY <2>1 DEF Elsewhere, Direct
  <2> QED BY <2>1, <2>2 DEF SessionStep, PageStep
<1>5. ASSUME NEW c \in Calls, Verify(c)
      PROVE  SessionStep /\ PageStep
  <2>1. /\ SessionStep /\ call[c].pc = "mfa" /\ UNCHANGED <<transaction, popupVars>>
        /\ \E q : Answers(c, q)
    BY <1>5, VerifyStep
  <2>2. Direct(c)
    BY <2>1 DEF Direct
  <2> QED BY <2>1, <2>2 DEF PageStep
<1>6. ASSUME NEW c \in Calls, PopupToken(c)
      PROVE  SessionStep /\ PageStep
  <2>1. /\ SessionStep /\ call[c].pc = "settled" /\ EndCall(c)
        /\ UNCHANGED <<window, mail, transaction>> /\ \E q : Answers(c, q)
    BY <1>6, PopupTokenStep
  <2>2. Settled(c)
    BY <2>1 DEF Settled
  <2> QED BY <2>1, <2>2 DEF PageStep
<1>7. ASSUME NEW c \in Calls, GiveUp(c)
      PROVE  SessionStep /\ PageStep
  <2>1. session' = session
    BY <1>7 DEF GiveUp
  <2> QED BY <1>7, <2>1 DEF SessionStep, PageStep
<1>8. ASSUME NEW p \in Popups, PopupCallback(p) \/ PopupFails(p) \/ Close(p)
      PROVE  SessionStep /\ PageStep
  <2>1. Gone(p)
    BY <1>8 DEF Gone
  <2>2. CASE PopupCallback(p)
    <3> DEFINE o == transaction[p]
               ok == session # NoSession \/ "id_token" \in PopupGrants
    <3>1. /\ window[p] = "open"
          /\ session' = IF session # NoSession THEN mergePopupTokenIntoSession(o, FromPopup(o))
                        ELSE IF ok THEN NewSession(o.aud, Resolved(o), FromPopup(o), o.aud)
                        ELSE session
      BY <2>2 DEF PopupCallback, PostResult
    <3>2. o \in PopupAsks /\ session \in Session \cup {NoSession}
      BY <3>1 DEF TypeInv, TransactionsTyped
    <3> HIDE DEF o
    <3>3. session' = session \/ PopupMerged(o) \/ PopupBegan(o)
      BY <3>1, <3>2 DEF PopupMerged, PopupBegan
    <3> QED BY <2>1, <3>2, <3>3 DEF SessionStep, PageStep
  <2>3. CASE PopupFails(p) \/ Close(p)
    BY <2>1, <2>3 DEF PopupFails, Close, SessionStep, PageStep
  <2> QED BY <1>8, <2>2, <2>3
<1>9. ASSUME NEW m \in mail, Message(m)
      PROVE  SessionStep /\ PageStep
  <2>1. session' = session
    BY <1>9 DEF Message
  <2> QED BY <1>9, <2>1 DEF SessionStep, PageStep
<1>10. ASSUME Login \/ Logout \/ Expire
       PROVE  SessionStep /\ PageStep
  <2>1. CASE Login
    BY <2>1 DEF Login, SessionStep, LoggedIn, PageStep, Elsewhere
  <2>2. CASE Logout
    BY <2>2 DEF Logout, SessionStep, PageStep, Elsewhere
  <2>3. CASE Expire
    <3>1. Aged
      BY <2>3, ExpireAges
    <3>2. Elsewhere
      BY <2>3 DEF Expire, Elsewhere
    <3> QED BY <3>1, <3>2 DEF SessionStep, PageStep
  <2> QED BY <1>10, <2>1, <2>2, <2>3
<1> QED BY <1>1, <1>2, <1>3, <1>4, <1>5, <1>6, <1>7, <1>8, <1>9, <1>10 DEF Next

-----------------------------------------------------------------------------
(* Invariants.                                                             *)

\* What becomes of a call that is not the one a step is about.
LEMMA BecomesIs ==
  ASSUME TypeInv, NEW c \in Calls, NEW q, Becomes(c, q)
  PROVE  /\ call'[c] = q /\ \A d \in Calls : d # c => call'[d] = call[d]
         /\ q \in CallType => call' \in [Calls -> CallType]
BY DEF TypeInv, Becomes

\* A call that changes where it is, and nothing else.
LEMMA MovedTyped ==
  ASSUME NEW q, CallTyped(q), NEW pc \in {"settled", "failed"}, q.pc = "waiting"
  PROVE  LET w == [q EXCEPT !.pc = pc]
         IN  /\ CallTyped(w) /\ w \in CallType /\ w.pc = pc /\ Knows(w)
             /\ w.ask = q.ask /\ w.mfa = q.mfa /\ w.tok = q.tok /\ w.told = q.told
<1> DEFINE w == [q EXCEPT !.pc = pc]
<1>1. /\ w.pc = pc /\ w.ask = q.ask /\ w.mfa = q.mfa /\ w.tok = q.tok /\ w.told = q.told
      /\ w \in CallType
  BY DEF CallTyped, CallType
<1>2. q.mfa = NoToken /\ q.ask \in PopupAsks /\ q.told = NoOutcome
  BY DEF CallTyped
<1> HIDE DEF w
<1> QED BY <1>1, <1>2, NothingAssumption DEF CallTyped, Knows, w

\* Taking an answer, or giving up an MFA token, frees the call.
LEMMA EndStep ==
  ASSUME TypeInv, NEW c \in Calls, End(c)
  PROVE  /\ CallTyped(Idle) /\ Knows(Idle) /\ Idle.pc = "idle" /\ Becomes(c, Idle)
         /\ Idle.mfa = NoToken
         /\ call[c].pc \notin {"waiting", "settled"}
         /\ UNCHANGED <<session, transaction, popupVars>>
<1>1. CallTyped(Idle) /\ Knows(Idle) /\ Idle.pc = "idle" /\ Idle.mfa = NoToken
  BY UntoldTyped DEF Idle
<1> QED BY <1>1 DEF End, Becomes

\* A message settles every call that waits, or ends it.
LEMMA MessageStep ==
  ASSUME TypeInv, NEW m \in mail, Message(m)
  PROVE  /\ call' \in [Calls -> CallType]
         /\ waits' = [c \in Calls |-> NoPopup] /\ mail' = mail \ {m} /\ UNCHANGED <<window, transaction>>
         /\ active' = IF m[2] \/ Waiting = {} THEN active ELSE NoPopup
         /\ \A c \in Calls :
              /\ call[c].pc # "waiting" => call'[c] = call[c]
              /\ call[c].pc = "waiting" =>
                   /\ CallTyped(call'[c]) /\ Knows(call'[c])
                   /\ call'[c].pc = IF m[2] THEN "settled" ELSE "failed"
                   /\ call'[c].ask = call[c].ask /\ call'[c].mfa = NoToken
<1>1. /\ waits' = [c \in Calls |-> NoPopup] /\ mail' = mail \ {m} /\ UNCHANGED <<window, transaction>>
      /\ active' = IF m[2] \/ Waiting = {} THEN active ELSE NoPopup
  BY DEF Message, TakeMessage
<1>2. PICK error \in {parsePopupError(code) : code \in PopupErrors} :
        call' = [c \in Calls |-> IF c \notin Waiting THEN call[c]
                                 ELSE [call[c] EXCEPT !.pc = IF m[2] THEN "settled" ELSE error]]
  BY DEF Message
<1>3. error = "failed"
  BY PopupErrorsFinal
<1> DEFINE pc == IF m[2] THEN "settled" ELSE error
<1>4. pc \in {"settled", "failed"} /\ pc = IF m[2] THEN "settled" ELSE "failed"
  BY <1>3
<1> HIDE DEF pc
<1>5. ASSUME NEW c \in Calls
      PROVE  /\ call'[c] \in CallType
             /\ call[c].pc # "waiting" => call'[c] = call[c]
             /\ call[c].pc = "waiting" =>
                  /\ CallTyped(call'[c]) /\ Knows(call'[c])
                  /\ call'[c].pc = pc /\ call'[c].ask = call[c].ask /\ call'[c].mfa = NoToken
  <2>1. CallTyped(call[c]) /\ call[c] \in CallType /\ (call[c].pc = "waiting" <=> c \in Waiting)
        /\ (call[c].pc = "waiting" => call[c].mfa = NoToken)
    BY CallsTyped DEF CallTyped, Waiting
  <2>2. CASE call[c].pc = "waiting"
    <3>1. call'[c] = [call[c] EXCEPT !.pc = pc]
      BY <1>2, <2>1, <2>2 DEF pc
    <3> DEFINE q == call[c]
               w == [q EXCEPT !.pc = pc]
    <3>2. /\ CallTyped(w) /\ w \in CallType /\ w.pc = pc /\ Knows(w)
          /\ w.ask = q.ask /\ w.mfa = q.mfa
      <4>1. CallTyped(q) /\ q.pc = "waiting"
        BY <2>1, <2>2
      <4> HIDE DEF q
      <4> QED BY <1>4, <4>1, MovedTyped
    <3>3. call'[c] = w
      BY <3>1
    <3> HIDE DEF w
    <3> QED BY <1>4, <2>1, <2>2, <3>2, <3>3
  <2>3. CASE call[c].pc # "waiting"
    BY <1>2, <2>1, <2>3
  <2> QED BY <2>2, <2>3
<1>6. call' \in [Calls -> CallType]
  <2>1. DOMAIN call' = Calls /\ call' = [c \in Calls |-> call'[c]]
    BY <1>2
  <2> QED BY <1>5, <2>1
<1> QED BY <1>1, <1>4, <1>5, <1>6

\* A call that gives up does so alone.
LEMMA GiveUpStep ==
  ASSUME TypeInv, NEW c \in Calls, GiveUp(c)
  PROVE  /\ call[c].pc = "waiting" /\ EndCall(c) /\ UNCHANGED <<window, mail, transaction, session>>
         /\ \E q : Becomes(c, q) /\ CallTyped(q) /\ Knows(q) /\ q.pc = "failed" /\ q.mfa = NoToken
<1>1. /\ waits[c] # NoPopup /\ EndCall(c) /\ UNCHANGED <<window, mail, transaction, session>>
      /\ call' = [call EXCEPT ![c].pc = "failed"]
  BY DEF GiveUp, PollFindsClosed, TimeOut
<1>2. call[c].pc = "waiting" /\ call[c].mfa = NoToken /\ CallTyped(call[c])
  BY <1>1, CallsTyped DEF CallTyped
<1> DEFINE q == call[c]
           failed == "failed"
           w == [q EXCEPT !.pc = failed]
<1>3. Becomes(c, w)
  BY <1>1 DEF Becomes
<1>4. CallTyped(w) /\ Knows(w) /\ w.pc = "failed" /\ w.mfa = q.mfa
  <2>1. CallTyped(q) /\ q.pc = "waiting"
    BY <1>2
  <2>2. failed \in {"settled", "failed"}
    OBVIOUS
  <2>3. failed = "failed"
    OBVIOUS
  <2> HIDE DEF q, failed
  <2> QED BY <2>1, <2>2, <2>3, MovedTyped
<1> HIDE DEF w
<1> QED BY <1>1, <1>2, <1>3, <1>4

\* A call that ends resets the guard, and waits no more.
LEMMA EndCallTyped ==
  ASSUME TypeInv, NEW c \in Calls, EndCall(c), UNCHANGED <<window, mail, transaction>>
  PROVE  /\ PopupTypeOK' /\ TransactionsTyped' /\ active' = NoPopup
         /\ waits'[c] = NoPopup /\ \A d \in Calls : d # c => waits'[d] = waits[d]
BY DEF TypeInv, EndCall, PopupTypeOK, TransactionsTyped

\* A popup that is gone leaves the calls as they are; it may have posted how it ended.
LEMMA GoneStep ==
  ASSUME NEW p \in Popups, Gone(p)
  PROVE  /\ call' = call /\ waits' = waits /\ active' = active
         /\ window' = [window EXCEPT ![p] = "closed"]
         /\ transaction' = [transaction EXCEPT ![p] = NoAsk]
         /\ mail' \subseteq mail \cup ({p} \X BOOLEAN)
<1>1. ASSUME NEW ok \in BOOLEAN, PostResult(p, ok)
      PROVE  /\ waits' = waits /\ active' = active
             /\ window' = [window EXCEPT ![p] = "closed"]
             /\ mail' \subseteq mail \cup ({p} \X BOOLEAN)
  BY <1>1 DEF PostResult
<1>2. CASE PopupCallback(p)
  <2> DEFINE ok == session # NoSession \/ "id_token" \in PopupGrants
  <2>1. ok \in BOOLEAN
    OBVIOUS
  <2>2. /\ PostResult(p, ok) /\ call' = call
        /\ transaction' = [transaction EXCEPT ![p] = NoAsk]
    BY <1>2 DEF PopupCallback
  <2> HIDE DEF ok
  <2> QED BY <1>1, <2>1, <2>2
<1>3. CASE PopupFails(p)
  <2>1. /\ PostResult(p, FALSE) /\ call' = call
        /\ transaction' = [transaction EXCEPT ![p] = NoAsk]
    BY <1>3 DEF PopupFails
  <2> QED BY <1>1, <2>1
<1>4. CASE Close(p)
  BY <1>4 DEF Close, ClosePopup
<1> QED BY <1>2, <1>3, <1>4 DEF Gone

\* Every step keeps the types.
LEMMA TypeStep ==
  ASSUME TypeInv, [Next]_vars
  PROVE  TypeInv'
<1> DEFINE CallsInv == call \in [Calls -> CallType] /\ \A c \in Calls : CallTyped(call[c]) /\ WaitsInCall(c)
<1>1. CASE UNCHANGED vars
  BY <1>1 DEF vars, popupVars, TypeInv, PopupTypeOK, TransactionsTyped, WaitsInCall, Waiting
<1>2. ASSUME NEW c \in Calls, End(c)
      PROVE  TypeInv'
  <2>1. /\ CallTyped(Idle) /\ Idle.pc = "idle" /\ Becomes(c, Idle)
        /\ call[c].pc \notin {"waiting", "settled"}
        /\ UNCHANGED <<session, transaction, popupVars>>
    BY <1>2, EndStep
  <2>2. /\ call'[c] = Idle /\ call' \in [Calls -> CallType]
        /\ \A d \in Calls : d # c => call'[d] = call[d]
    BY <2>1, BecomesIs DEF CallTyped
  <2>3. ASSUME NEW d \in Calls
        PROVE  (CallTyped(call[d]) /\ WaitsInCall(d))'
    BY <2>1, <2>2 DEF TypeInv, WaitsInCall, popupVars
  <2> QED
    BY <2>1, <2>2, <2>3 DEF TypeInv, PopupTypeOK, TransactionsTyped, popupVars
<1>3. ASSUME SessionStep, PageStep
      PROVE  TypeInv'
  <2>1. session' \in Session \cup {NoSession}
    BY <1>3, SessionStays
  <2> SUFFICES PopupTypeOK' /\ TransactionsTyped' /\ CallsInv'
    BY <2>1 DEF TypeInv
  <2>2. ASSUME NEW c \in Calls, Direct(c)
        PROVE  PopupTypeOK' /\ TransactionsTyped' /\ CallsInv'
    <3>1. PICK q : Answers(c, q)
      BY <2>2 DEF Direct
    <3>2. /\ call'[c] = q /\ call' \in [Calls -> CallType]
          /\ \A d \in Calls : d # c => call'[d] = call[d]
          /\ CallTyped(q) /\ q.pc # "waiting"
      BY <3>1, BecomesIs DEF Answers, CallTyped
    <3>3. call[c].pc # "waiting" /\ UNCHANGED <<transaction, popupVars>>
      BY <2>2 DEF Direct
    <3>4. ASSUME NEW d \in Calls
          PROVE  (CallTyped(call[d]) /\ WaitsInCall(d))'
      BY <3>2, <3>3 DEF TypeInv, WaitsInCall, popupVars
    <3> QED BY <3>2, <3>3, <3>4 DEF TypeInv, PopupTypeOK, TransactionsTyped, popupVars
  <2>3. ASSUME NEW c \in Calls, Settled(c) \/ GiveUp(c)
        PROVE  PopupTypeOK' /\ TransactionsTyped' /\ CallsInv'
    <3>1. EndCall(c) /\ UNCHANGED <<window, mail, transaction>>
      BY <2>3, GiveUpStep DEF Settled
    <3>2. PICK q : Becomes(c, q) /\ CallTyped(q) /\ q.pc # "waiting"
      <4>1. CASE Settled(c)
        BY <4>1 DEF Settled, Answers
      <4>2. CASE GiveUp(c)
        BY <4>2, GiveUpStep
      <4> QED BY <2>3, <4>1, <4>2
    <3>3. /\ call'[c] = q /\ call' \in [Calls -> CallType]
          /\ \A d \in Calls : d # c => call'[d] = call[d]
      BY <3>2, BecomesIs DEF CallTyped
    <3>4. /\ PopupTypeOK' /\ TransactionsTyped'
          /\ waits'[c] = NoPopup /\ \A d \in Calls : d # c => waits'[d] = waits[d]
      BY <3>1, EndCallTyped
    <3>5. ASSUME NEW d \in Calls
          PROVE  (CallTyped(call[d]) /\ WaitsInCall(d))'
      BY <3>2, <3>3, <3>4 DEF TypeInv, WaitsInCall
    <3> QED BY <3>3, <3>4, <3>5
  <2>4. ASSUME NEW c \in Calls, NEW p \in Popups, NEW o \in PopupAsks, Opens(c, p, o)
        PROVE  PopupTypeOK' /\ TransactionsTyped' /\ CallsInv'
    <3> DEFINE q == Call("waiting", o, NoToken, NoToken, NoOutcome)
    <3>1. /\ Becomes(c, q) /\ OpenPopup(c, p) /\ transaction' = [transaction EXCEPT ![p] = o]
      BY <2>4 DEF Opens, challengeWithPopup, Becomes
    <3>2. CallTyped(q) /\ q.pc = "waiting"
      BY UntoldTyped DEF AllAsks
    <3> HIDE DEF q
    <3>3. /\ call'[c] = q /\ call' \in [Calls -> CallType]
          /\ \A d \in Calls : d # c => call'[d] = call[d]
      BY <3>1, <3>2, BecomesIs DEF CallTyped
    <3>4. /\ PopupTypeOK' /\ TransactionsTyped'
          /\ waits'[c] = p /\ \A d \in Calls : d # c => waits'[d] = waits[d]
      BY <3>1 DEF OpenPopup, TypeInv, PopupTypeOK, TransactionsTyped
    <3>5. p # NoPopup
      BY PopupCallsAssumption
    <3>6. ASSUME NEW d \in Calls
          PROVE  (CallTyped(call[d]) /\ WaitsInCall(d))'
      BY <3>2, <3>3, <3>4, <3>5 DEF TypeInv, WaitsInCall
    <3> QED BY <3>3, <3>4, <3>6
  <2>5. ASSUME NEW p \in Popups, Gone(p)
        PROVE  PopupTypeOK' /\ TransactionsTyped' /\ CallsInv'
    <3>1. /\ call' = call /\ waits' = waits /\ active' = active
          /\ window' = [window EXCEPT ![p] = "closed"]
          /\ transaction' = [transaction EXCEPT ![p] = NoAsk]
          /\ mail' \subseteq mail \cup ({p} \X BOOLEAN)
      BY <2>5, GoneStep
    <3>2. PopupTypeOK' /\ TransactionsTyped'
      BY <3>1 DEF TypeInv, PopupTypeOK, TransactionsTyped
    <3>3. CallsInv'
      BY <3>1 DEF TypeInv, WaitsInCall
    <3> QED BY <3>2, <3>3
  <2>6. ASSUME NEW m \in mail, Message(m)
        PROVE  PopupTypeOK' /\ TransactionsTyped' /\ CallsInv'
    <3>1. /\ call' \in [Calls -> CallType]
          /\ waits' = [c \in Calls |-> NoPopup] /\ mail' = mail \ {m} /\ UNCHANGED <<window, transaction>>
          /\ active' \in {active, NoPopup}
      BY <2>6, MessageStep
    <3>2. PopupTypeOK' /\ TransactionsTyped'
      BY <3>1 DEF TypeInv, PopupTypeOK, TransactionsTyped
    <3>3. ASSUME NEW d \in Calls
          PROVE  CallTyped(call'[d]) /\ call'[d].pc # "waiting" /\ waits'[d] = NoPopup
      <4>1. call[d].pc # "waiting" => call'[d] = call[d] /\ CallTyped(call[d])
        BY <2>6, MessageStep DEF TypeInv
      <4>2. call[d].pc = "waiting" => CallTyped(call'[d]) /\ call'[d].pc \in {"settled", "failed"}
        BY <2>6, MessageStep
      <4> QED BY <3>1, <4>1, <4>2
    <3>4. ASSUME NEW d \in Calls
          PROVE  (CallTyped(call[d]) /\ WaitsInCall(d))'
      BY <3>3 DEF WaitsInCall
    <3> QED BY <3>1, <3>2, <3>4
  <2>7. CASE Elsewhere
    <3>1. UNCHANGED <<call, transaction, active, window, waits, mail>>
      BY <2>7 DEF Elsewhere, popupVars
    <3> QED BY <3>1 DEF TypeInv, PopupTypeOK, TransactionsTyped, WaitsInCall
  <2> QED BY <1>3, <2>2, <2>3, <2>4, <2>5, <2>6, <2>7 DEF PageStep
<1> QED BY <1>1, <1>2, <1>3, StepCases

\* They hold at first.
LEMMA InitTyped == Init => TypeInv /\ KnowsInv
<1> SUFFICES ASSUME Init PROVE TypeInv /\ KnowsInv
  OBVIOUS
<1>1. CallTyped(Idle) /\ Knows(Idle) /\ Idle.pc = "idle"
  BY UntoldTyped DEF Idle
<1>2. Idle \in CallType
  BY <1>1 DEF CallTyped
<1>3. PopupTypeOK /\ TransactionsTyped
  BY DEF Init, PopupInit, PopupTypeOK, TransactionsTyped
<1>4. session \in Session \cup {NoSession} /\ call \in [Calls -> CallType]
  BY <1>2 DEF Init
<1>5. \A c \in Calls : call[c] = Idle /\ waits[c] = NoPopup
  BY DEF Init, PopupInit
<1>6. \A c \in Calls : CallTyped(call[c]) /\ WaitsInCall(c) /\ Knows(call[c])
  BY <1>1, <1>5 DEF WaitsInCall
<1> HIDE DEF Idle
<1> QED BY <1>3, <1>4, <1>6 DEF TypeInv, KnowsInv

\* What becomes of a call that a step is not about, and of the one it is about.
LEMMA CallStep ==
  ASSUME TypeInv, [Next]_vars, NEW d \in Calls
  PROVE  call'[d] = call[d] \/ Knows(call'[d])
<1>1. CASE UNCHANGED vars
  BY <1>1 DEF vars
<1>2. ASSUME NEW c \in Calls, NEW q, Becomes(c, q), Knows(q)
      PROVE  call'[d] = call[d] \/ Knows(call'[d])
  BY <1>2, BecomesIs
<1>3. ASSUME NEW c \in Calls, End(c)
      PROVE  call'[d] = call[d] \/ Knows(call'[d])
  BY <1>2, <1>3, EndStep
<1>4. CASE PageStep
  <2>1. ASSUME NEW c \in Calls, Direct(c) \/ Settled(c) \/ GiveUp(c)
        PROVE  call'[d] = call[d] \/ Knows(call'[d])
    <3>1. \E q : Becomes(c, q) /\ Knows(q)
      BY <2>1, GiveUpStep DEF Direct, Settled, Answers
    <3> QED BY <1>2, <3>1
  <2>2. ASSUME NEW c \in Calls, NEW p \in Popups, NEW o \in PopupAsks, Opens(c, p, o)
        PROVE  call'[d] = call[d] \/ Knows(call'[d])
    <3> DEFINE q == Call("waiting", o, NoToken, NoToken, NoOutcome)
    <3>1. Becomes(c, q)
      BY <2>2 DEF Opens, challengeWithPopup, Becomes
    <3>2. Knows(q)
      BY UntoldTyped DEF AllAsks
    <3> HIDE DEF q
    <3> QED BY <1>2, <3>1, <3>2
  <2>3. ASSUME NEW p \in Popups, Gone(p)
        PROVE  call'[d] = call[d]
    BY <2>3, GoneStep
  <2>4. ASSUME NEW m \in mail, Message(m)
        PROVE  call'[d] = call[d] \/ Knows(call'[d])
    BY <2>4, MessageStep
  <2>5. CASE Elsewhere
    BY <2>5 DEF Elsewhere
  <2> QED BY <1>4, <2>1, <2>2, <2>3, <2>4, <2>5 DEF PageStep
<1> QED BY <1>1, <1>3, <1>4, StepCases

\* Every step keeps the pages informed.
LEMMA KnowsStep ==
  ASSUME TypeInv, KnowsInv, [Next]_vars
  PROVE  KnowsInv'
BY CallStep DEF KnowsInv

\* Every step leaves the guard to a call in progress: those that end reset it, a message
\* settles who waits or ends them all.
LEMMA GuardStep ==
  ASSUME TypeInv, GuardHasCall, [Next]_vars
  PROVE  GuardHasCall'
<1> DEFINE Under(pc) == pc \in {"waiting", "settled"}
<1>1. ASSUME active' # NoPopup, active' = active,
             \A d \in Calls : Under(call[d].pc) => Under(call'[d].pc)
      PROVE  GuardHasCall'
  BY <1>1 DEF GuardHasCall
<1>2. CASE UNCHANGED vars
  BY <1>2 DEF vars, popupVars, GuardHasCall
<1>3. ASSUME NEW c \in Calls, ~Under(call[c].pc), active' = active, NEW q, Becomes(c, q)
      PROVE  GuardHasCall'
  <2>1. \A d \in Calls : Under(call[d].pc) => call'[d] = call[d]
    BY <1>3, BecomesIs
  <2> QED BY <1>3, <2>1 DEF GuardHasCall
<1>4. ASSUME NEW c \in Calls, End(c)
      PROVE  GuardHasCall'
  <2>1. ~Under(call[c].pc) /\ active' = active /\ Becomes(c, Idle)
    BY <1>4, EndStep DEF popupVars
  <2> HIDE DEF Idle
  <2> QED BY <1>3, <2>1
<1>5. CASE PageStep
  <2>1. ASSUME NEW c \in Calls, Direct(c)
        PROVE  GuardHasCall'
    BY <1>3, <2>1 DEF Direct, Answers, popupVars
  <2>2. ASSUME NEW c \in Calls, Settled(c) \/ GiveUp(c)
        PROVE  GuardHasCall'
    <3>1. active' = NoPopup
      BY <2>2, GiveUpStep DEF Settled, EndCall
    <3> QED BY <3>1 DEF GuardHasCall
  <2>3. ASSUME NEW c \in Calls, NEW p \in Popups, NEW o \in PopupAsks, Opens(c, p, o)
        PROVE  GuardHasCall'
    <3> DEFINE q == Call("waiting", o, NoToken, NoToken, NoOutcome)
    <3>1. Becomes(c, q)
      BY <2>3 DEF Opens, challengeWithPopup, Becomes
    <3>2. q.pc = "waiting"
      BY UntoldTyped DEF AllAsks
    <3> HIDE DEF q
    <3>3. call'[c] = q
      BY <3>1, BecomesIs
    <3> QED BY <3>2, <3>3 DEF GuardHasCall
  <2>4. ASSUME NEW p \in Popups, Gone(p)
        PROVE  GuardHasCall'
    BY <2>4, GoneStep DEF GuardHasCall
  <2>5. ASSUME NEW m \in mail, Message(m)
        PROVE  GuardHasCall'
    <3>1. CASE active' = NoPopup
      BY <3>1 DEF GuardHasCall
    <3>2. CASE active' # NoPopup
      <4>1. active' = active /\ (m[2] \/ Waiting = {})
        BY <2>5, <3>2, MessageStep
      <4>2. \A d \in Calls : Under(call[d].pc) => Under(call'[d].pc)
        <5> TAKE d \in Calls
        <5>1. CASE call[d].pc # "waiting"
          BY <2>5, <5>1, MessageStep
        <5>2. CASE call[d].pc = "waiting"
          <6>1. d \in Waiting
            BY <5>2, CallsTyped DEF Waiting
          <6>2. m[2]
            BY <4>1, <6>1
          <6>3. call'[d].pc = IF m[2] THEN "settled" ELSE "failed"
            BY <2>5, <5>2, MessageStep
          <6> QED BY <6>2, <6>3
        <5> QED BY <5>1, <5>2
      <4> QED BY <1>1, <3>2, <4>1, <4>2
    <3> QED BY <3>1, <3>2
  <2>6. CASE Elsewhere
    BY <2>6 DEF Elsewhere, popupVars, GuardHasCall
  <2> QED BY <1>5, <2>1, <2>2, <2>3, <2>4, <2>5, <2>6 DEF PageStep
<1> QED BY <1>2, <1>4, <1>5, StepCases

\* The types hold in every reachable state.
THEOREM TypeInvariant == Spec => []TypeInv
<1>1. Init => TypeInv
  BY InitTyped
<1>2. TypeInv /\ [Next]_vars => TypeInv'
  BY TypeStep
<1> QED BY <1>1, <1>2, PTL DEF Spec

\* TypeOK holds whatever pages do: calls wait for popups that are named, and hold MFA tokens
\* exactly where they can go on with one (client/mfa/index.ts, auth-client.ts handleVerify).
THEOREM StepUpTypeCorrect == Spec => []TypeOK
<1>1. TypeInv => TypeOK
  <2> SUFFICES ASSUME TypeInv PROVE TypeOK
    OBVIOUS
  <2>1. \A c \in Calls :
          /\ call[c].pc = "waiting" <=> waits[c] # NoPopup
          /\ call[c].pc \in {"mfa", "verified"} <=> call[c].mfa # NoToken
          /\ call[c].tok \in AccessToken \cup {NoToken}
    BY CallsTyped
  <2> QED BY <2>1 DEF TypeInv, TransactionsTyped, TypeOK
<1> QED BY <1>1, TypeInvariant, PTL

\* What the token endpoint said reaches the page through every method, route and browser
\* method (PageKnowsOutcome), for any number of calls and popups.
THEOREM PagesKnowOutcomes == Spec => []PageKnowsOutcome
<1>1. Init => KnowsInv
  BY InitTyped
<1>2. TypeInv /\ KnowsInv /\ [Next]_vars => KnowsInv'
  BY KnowsStep
<1>3. KnowsInv => PageKnowsOutcome
  BY DEF KnowsInv, Knows, PageKnowsOutcome
<1> QED BY <1>1, <1>2, <1>3, TypeInvariant, PTL DEF Spec

\* The guard against a second popup is always held by a call in progress (GuardHasCall):
\* challengeWithPopup() cannot be locked out (client/mfa/index.ts).
THEOREM GuardsHaveCalls == Spec => []GuardHasCall
<1>1. Init => GuardHasCall
  BY DEF Init, PopupInit, GuardHasCall
<1>2. TypeInv /\ GuardHasCall /\ [Next]_vars => GuardHasCall'
  BY GuardStep
<1> QED BY <1>1, <1>2, TypeInvariant, PTL DEF Spec

-----------------------------------------------------------------------------
(* Answers that fit.                                                       *)

\* The applications the rest is about: one audience is configured, popups are for others,
\* each with a scope, and who wants a token for the one configured asks for what
\* is configured too, or for no scope.
UsualCalls ==
    /\ Default # NoAudience
    /\ \A o \in PopupAsks : o.aud # Default /\ Resolved(o) # {}
    /\ \A o \in TokenAsks \cup EnrollAsks :
         o.aud \in {NoAudience, Default} => o.merge \/ o.scope = {}

\* A token for the audience with what is allowed of the scope.
Serves(tok, aud, scope) == tok.aud = aud /\ scope \cap Allowed[aud] \subseteq tok.scope

\* An entry for the audience configured is only as good as the refresh token that its
\* session had.
EntryFits(e, rt) ==
    e.aud # NoAudience /\ (e.aud = Default => rt = Default) => Serves(e.tok, e.aud, e.requested)

LoginFits(s) ==
    LET aud == OrElse(s.aud, Default)
    IN  (aud = Default => s.rt = Default) => Serves(s.tok, aud, HeldScope(s, aud))

SessionFits(s) ==
    /\ s.rt = Default => OrElse(s.aud, Default) = Default
    /\ LoginFits(s)
    /\ \A i \in DOMAIN s.cached : EntryFits(s.cached[i], s.rt)

Named(o) == o # NoAsk /\ o.aud \notin {NoAudience, Default}

\* The context of the MFA token of a call for o.
ContextOf(m, o) ==
    IF o = NoAsk THEN m = SignInContext
    ELSE \E family \in MaybeAudience : m = MfaContext(o, family)

\* What AnswerFits says of a call, with what it rests on.
Suits(q, s) ==
    /\ q.pc \in {"mfa", "verified"} => ContextOf(q.mfa, q.ask)
    /\ q.pc = "answered" /\ (Named(q.ask) \/ s.rt = Default) => Fits(q)
    /\ q.pc = "verified" /\ (Named(q.ask) \/ q.mfa.for = Default) => Fits(q)

FitInv ==
    /\ session # NoSession => SessionFits(session)
    /\ \A c \in Calls : Suits(call[c], session)

\* What a call wants.
WantsOf(o) == IF o = NoAsk THEN [aud |-> Default, scope |-> GlobalScope[Default]]
              ELSE [aud |-> OrElse(o.aud, Default), scope |-> Resolved(o)]

\* A live token that serves what the call wants fits.
LEMMA FitsIf ==
  ASSUME NEW q, q.tok.live, Serves(q.tok, WantsOf(q.ask).aud, WantsOf(q.ask).scope)
  PROVE  Fits(q)
BY DEF Fits, Wants, WantsOf, Serves

\* The token of an MFA token's context is for what the call wants.
LEMMA ContextGives ==
  ASSUME UsualCalls, NEW o \in AllAsks \cup {NoAsk}, NEW m \in MfaContexts, ContextOf(m, o)
  PROVE  /\ m.aud # NoAudience => m.for = m.aud
         /\ m.for = Default => m.scope = {} \/ GlobalScope[Default] \subseteq m.scope
         /\ Named(o) \/ m.for = Default => m.for = WantsOf(o).aud /\ m.scope = WantsOf(o).scope
<1>1. CASE o = NoAsk
  <2>1. m.aud = Default /\ m.for = Default /\ m.scope = GlobalScope[Default]
    BY <1>1 DEF ContextOf, SignInContext
  <2> QED BY <1>1, <2>1 DEF WantsOf, Named
<1>2. CASE o # NoAsk
  <2>1. PICK family \in MaybeAudience : m = MfaContext(o, family)
    BY <1>2 DEF ContextOf
  <2>2. m.aud = o.aud /\ m.scope = Resolved(o) /\ m.for = OrElse(o.aud, family)
    BY <2>1 DEF MfaContext
  <2>3. WantsOf(o).aud = OrElse(o.aud, Default) /\ WantsOf(o).scope = Resolved(o)
    BY <1>2 DEF WantsOf
  <2>4. m.aud # NoAudience => m.for = m.aud
    BY <2>2 DEF OrElse
  <2>5. ASSUME m.for = Default
        PROVE  /\ m.scope = {} \/ GlobalScope[Default] \subseteq m.scope
               /\ OrElse(o.aud, Default) = Default
    <3>1. o.aud \in {NoAudience, Default}
      BY <2>2, <2>5 DEF OrElse
    <3>2. OrElse(o.aud, Default) = Default
      BY <3>1 DEF OrElse
    <3>3. o \in TokenAsks \cup EnrollAsks
      BY <1>2, <3>1, StepUpAssumption DEF UsualCalls, AllAsks
    <3>4. o.merge \/ o.scope = {}
      BY <3>1, <3>3 DEF UsualCalls
    <3>5. Resolved(o) = {} \/ GlobalScope[Default] \subseteq Resolved(o)
      BY <3>2, <3>4 DEF Resolved
    <3> QED BY <2>2, <3>2, <3>5
  <2>6. Named(o) => OrElse(o.aud, family) = OrElse(o.aud, Default)
    BY DEF Named, OrElse
  <2> QED BY <2>2, <2>3, <2>4, <2>5, <2>6
<1> QED BY <1>1, <1>2

\* What is issued serves.
LEMMA IssuedServes ==
  ASSUME NEW aud \in MaybeAudience, NEW scope \in SUBSET Scopes
  PROVE  /\ Serves(Issued(aud, scope), aud, scope)
         /\ \A some : scope = {} \/ some \subseteq scope => Serves(Issued(aud, scope), aud, some)
<1>1. /\ Issued(aud, scope).aud = aud
      /\ scope \cap Allowed[aud] \subseteq Issued(aud, scope).scope
      /\ scope = {} => Issued(aud, scope).scope = Allowed[aud]
  BY IssuedIs
<1> QED BY <1>1 DEF Serves

\* A token found in a session that fits serves the request.
LEMMA FoundServes ==
  ASSUME UsualCalls, session \in Session, SessionFits(session), NEW o \in AllAsks,
         Found(o).tok # NoToken, Named(o) \/ session.rt = Default
  PROVE  Serves(Found(o).tok, OrElse(o.aud, Default), Resolved(o))
<1> DEFINE s == session
           aud == OrElse(o.aud, Default)
           t == Found(o)
<1>1. aud # NoAudience /\ (aud = Default => s.rt = Default)
  BY DEF OrElse, Named, UsualCalls
<1>2. CASE t = Global(s) /\ AnswersGlobal(s, aud, Resolved(o))
  <2>1. aud = OrElse(s.aud, Default) /\ Resolved(o) \subseteq HeldScope(s, aud)
    BY <1>1, <1>2 DEF AnswersGlobal
  <2>2. Serves(s.tok, aud, HeldScope(s, aud))
    BY <1>1, <2>1 DEF SessionFits, LoginFits
  <2>3. t.tok = s.tok
    BY <1>2 DEF Global, TokenSet
  <2> HIDE DEF aud, t
  <2> QED BY <2>1, <2>2, <2>3 DEF Serves, aud, t
<1>3. ASSUME NEW i \in DOMAIN s.cached, AnswersEntry(s, i, aud, Resolved(o)),
             t = TokenSet(s.cached[i].aud, s.cached[i].requested, s.cached[i].tok, s.rt)
      PROVE  Serves(t.tok, aud, Resolved(o))
  <2>1. s.cached[i].aud = aud /\ Resolved(o) \subseteq s.cached[i].requested
    BY <1>3 DEF AnswersEntry
  <2>2. Serves(s.cached[i].tok, aud, s.cached[i].requested)
    BY <1>1, <2>1 DEF SessionFits, EntryFits
  <2>3. t.tok = s.cached[i].tok
    BY <1>3 DEF TokenSet
  <2> HIDE DEF aud, t
  <2> QED BY <2>1, <2>2, <2>3 DEF Serves
<1>4. t # TokenSet(NoAudience, {}, NoToken, s.rt)
  BY DEF TokenSet
<1> HIDE DEF t, aud
<1>5. \/ t = Global(s) /\ AnswersGlobal(s, aud, Resolved(o))
      \/ \E i \in DOMAIN s.cached :
           /\ AnswersEntry(s, i, aud, Resolved(o))
           /\ t = TokenSet(s.cached[i].aud, s.cached[i].requested, s.cached[i].tok, s.rt)
      \/ t = TokenSet(NoAudience, {}, NoToken, s.rt)
  BY SessionFields, TokenSetCases DEF t, Found, aud
<1> QED BY <1>2, <1>3, <1>4, <1>5 DEF t, aud

\* A token set refreshed is for the audience of the request.
LEMMA RefreshedServes ==
  ASSUME UsualCalls, session \in Session, NEW o \in AllAsks
  PROVE  LET t == Refreshed(o)
             aud == OrElse(o.aud, Default)
         IN  /\ OrElse(t.aud, Default) = aud /\ aud # NoAudience
             /\ (aud = Default => session.rt = Default) =>
                   /\ Serves(t.tok, aud, Resolved(o))
                   /\ o.scope = {} => t.tok.scope = Allowed[aud]
<1> DEFINE s == session
           aud == OrElse(o.aud, Default)
           t == Refreshed(o)
           scope == IF o.scope = {} THEN {} ELSE Resolved(o)
<1>1. /\ t.aud = OrElse(Found(o).aud, o.aud)
      /\ t.tok = Issued(OrElse(o.aud, s.rt), scope)
      /\ t.tok.aud = OrElse(o.aud, s.rt)
      /\ Resolved(o) \cap Allowed[t.tok.aud] \subseteq t.tok.scope
      /\ OrElse(o.aud, s.rt) \in MaybeAudience
  BY RefreshedIs
<1>2. aud # NoAudience
  BY DEF OrElse, UsualCalls
<1>3. OrElse(Found(o).aud, Default) = aud \/ Found(o).aud = NoAudience
  <2>1. \/ Found(o) = Global(s) /\ AnswersGlobal(s, aud, Resolved(o))
        \/ \E i \in DOMAIN s.cached :
             /\ AnswersEntry(s, i, aud, Resolved(o))
             /\ Found(o) = TokenSet(s.cached[i].aud, s.cached[i].requested, s.cached[i].tok, s.rt)
        \/ Found(o) = TokenSet(NoAudience, {}, NoToken, s.rt)
    BY SessionFields, TokenSetCases DEF Found
  <2>2. ASSUME Found(o) = Global(s), AnswersGlobal(s, aud, Resolved(o))
        PROVE  OrElse(Found(o).aud, Default) = aud
    BY <1>2, <2>2 DEF Global, TokenSet, AnswersGlobal
  <2>3. ASSUME NEW i \in DOMAIN s.cached, AnswersEntry(s, i, aud, Resolved(o)),
               Found(o) = TokenSet(s.cached[i].aud, s.cached[i].requested, s.cached[i].tok, s.rt)
        PROVE  OrElse(Found(o).aud, Default) = aud
    <3>1. Found(o).aud = aud
      BY <2>3 DEF TokenSet, AnswersEntry
    <3> HIDE DEF aud
    <3> QED BY <1>2, <3>1 DEF OrElse
  <2>4. ASSUME Found(o) = TokenSet(NoAudience, {}, NoToken, s.rt)
        PROVE  Found(o).aud = NoAudience
    BY <2>4 DEF TokenSet
  <2> QED BY <2>1, <2>2, <2>3, <2>4
<1>4. OrElse(t.aud, Default) = aud
  <2> HIDE DEF t
  <2> QED BY <1>1, <1>3 DEF OrElse
<1>5. ASSUME aud = Default => s.rt = Default
      PROVE  /\ Serves(t.tok, aud, Resolved(o))
             /\ o.scope = {} => t.tok.scope = Allowed[aud]
  <2>1. OrElse(o.aud, s.rt) = aud
    BY <1>5 DEF OrElse
  <2>2. o.scope = {} => t.tok.scope = Allowed[aud]
    <3>1. {} \in SUBSET Scopes
      OBVIOUS
    <3> HIDE DEF t, aud
    <3> QED BY <1>1, <2>1, <3>1, IssuedIs
  <2> HIDE DEF t, aud
  <2> QED BY <1>1, <2>1, <2>2 DEF Serves
<1> QED BY <1>2, <1>4, <1>5

\* An entry put into the entries of a session: at the end, or for one of its audience.
Put(entries, e, after) ==
    \/ after = Append(entries, e)
    \/ \E i \in DOMAIN entries :
         entries[i].aud = e.aud /\ after = [entries EXCEPT ![i] = e]

\* Every entry after is the one put, or one from before.
LEMMA PutEntries ==
  ASSUME NEW entries \in Seq(CachedToken), NEW e, NEW after, Put(entries, e, after)
  PROVE  \A i \in DOMAIN after :
            after[i] = e \/ (i \in DOMAIN entries /\ after[i] = entries[i])
BY DEF Put

\* The entry a refresh puts.
LEMMA ChangesPut ==
  ASSUME NEW s, EntriesScoped(s), NEW t, NEW x \in SessionChanges(s, t, TRUE)
  PROVE  \/ isGlobalAudienceAndScope(s, t) /\ x = WithGlobal(s, t)
         \/ \E e : /\ EntryFor(s, t, e) /\ Put(s.cached, e, x.cached)
                   /\ x = WithCached(s, t, x.cached)
<1> DEFINE Puts(e) == /\ EntryFor(s, t, e) /\ Put(s.cached, e, x.cached)
                      /\ x = WithCached(s, t, x.cached)
<1>1. ASSUME NEW e, EntryFor(s, t, e), NEW after, Put(s.cached, e, after),
             x = WithCached(s, t, after)
      PROVE  Puts(e)
  <2>1. x.cached = after
    BY <1>1 DEF WithCached
  <2> QED BY <1>1, <2>1
<1>2. ASSUME NEW e, EntryFor(s, t, e),
             \/ x = WithCached(s, t, Append(s.cached, e))
             \/ \E i \in DOMAIN s.cached :
                  /\ s.cached[i].aud = e.aud
                  /\ x = WithCached(s, t, [s.cached EXCEPT ![i] = e])
      PROVE  Puts(e)
  <2>1. \E after : Put(s.cached, e, after) /\ x = WithCached(s, t, after)
    BY <1>2 DEF Put
  <2> QED BY <1>1, <1>2, <2>1
<1> HIDE DEF Puts
<1>3. (isGlobalAudienceAndScope(s, t) /\ x = WithGlobal(s, t)) \/ \E e : Puts(e)
  BY <1>2, ChangeCases
<1> QED BY <1>3 DEF Puts

\* What a refresh does to the session: a new login token set, or an entry put.
LEMMA RenewedPuts ==
  ASSUME session \in Session, NEW o \in AllAsks, Renewed(o)
  PROVE  LET t == Refreshed(o)
         IN  \/ isGlobalAudienceAndScope(session, t) /\ session' = WithGlobal(session, t)
             \/ \E e : /\ EntryFor(session, t, e) /\ Put(session.cached, e, session'.cached)
                       /\ session' = WithCached(session, t, session'.cached)
<1> DEFINE s == session
           t == Refreshed(o)
           x == session'
<1>1. EntriesScoped(s) /\ x \in SessionChanges(s, t, TRUE)
  BY SessionFields DEF Renewed
<1> HIDE DEF s, t, x
<1>2. \/ isGlobalAudienceAndScope(s, t) /\ x = WithGlobal(s, t)
      \/ \E e : /\ EntryFor(s, t, e) /\ Put(s.cached, e, x.cached)
                /\ x = WithCached(s, t, x.cached)
  BY ONLY <1>1, ChangesPut
<1> QED BY <1>2 DEF s, t, x

\* The entries go on fitting unless the refresh token becomes one for the audience
\* configured.
LEMMA PutFits ==
  ASSUME session \in Session, NEW e, NEW after, Put(session.cached, e, after),
         NEW rt, rt = Default => session.rt = Default,
         \A i \in DOMAIN session.cached : EntryFits(session.cached[i], session.rt),
         EntryFits(e, session.rt)
  PROVE  \A i \in DOMAIN after : EntryFits(after[i], rt)
<1>1. \A f : EntryFits(f, session.rt) => EntryFits(f, rt)
  BY DEF EntryFits
<1>2. session.cached \in Seq(CachedToken)
  BY SessionFields
<1>3. \A i \in DOMAIN after :
         after[i] = e \/ (i \in DOMAIN session.cached /\ after[i] = session.cached[i])
  BY <1>2, PutEntries
<1> QED BY <1>1, <1>3

\* A refreshed session fits: its token is for the audience of the request, and an entry
\* that is joined was granted the same.
LEMMA RenewedFits ==
  ASSUME UsualCalls, session \in Session, SessionFits(session), NEW o \in AllAsks, Renewed(o)
  PROVE  SessionFits(session')
<1> DEFINE s == session
           t == Refreshed(o)
           aud == OrElse(o.aud, Default)
           R == Resolved(o)
           claimed == aud = Default => s.rt = Default
<1>1. /\ OrElse(t.aud, Default) = aud /\ aud # NoAudience
      /\ claimed => Serves(t.tok, aud, R)
      /\ claimed /\ o.scope = {} => t.tok.scope = Allowed[aud]
  BY RefreshedServes
<1>2. t.requested = R /\ t.rt = s.rt
  BY RefreshedIs
<1>3. o.scope \subseteq R
  BY DEF Resolved
<1> HIDE DEF t, aud, R
<1>4. ASSUME isGlobalAudienceAndScope(s, t), session' = WithGlobal(s, t)
      PROVE  SessionFits(session')
  <2>1. /\ session'.aud = t.aud /\ session'.requested = R /\ session'.tok = t.tok
        /\ session'.rt = s.rt /\ session'.cached = s.cached
    BY <1>2, <1>4 DEF WithGlobal
  <2>2. s.rt = Default => aud = Default
    <3>1. t.aud = NoAudience \/ t.aud = OrElse(s.aud, Default)
      BY <1>4 DEF isGlobalAudienceAndScope
    <3>2. s.rt = Default => OrElse(s.aud, Default) = Default
      BY DEF SessionFits
    <3> QED BY <1>1, <3>1, <3>2 DEF OrElse
  <2>3. LoginFits(session')
    <3>1. HeldScope(session', aud) = IF R # {} THEN R ELSE GlobalScope[aud]
      BY <2>1 DEF HeldScope
    <3>2. ASSUME claimed
          PROVE  Serves(t.tok, aud, HeldScope(session', aud))
      <4>1. CASE R # {}
        BY <1>1, <3>1, <3>2, <4>1
      <4>2. CASE R = {}
        <5>1. t.tok.scope = Allowed[aud]
          BY <1>1, <1>3, <3>2, <4>2
        <5> QED BY <1>1, <3>2, <5>1 DEF Serves
      <4> QED BY <4>1, <4>2
    <3> QED BY <1>1, <2>1, <3>2 DEF LoginFits
  <2>4. \A i \in DOMAIN session'.cached : EntryFits(session'.cached[i], session'.rt)
    BY <2>1 DEF SessionFits
  <2> QED BY <1>1, <2>1, <2>2, <2>3, <2>4 DEF SessionFits
<1>5. ASSUME NEW e, EntryFor(s, t, e), Put(s.cached, e, session'.cached),
             session' = WithCached(s, t, session'.cached)
      PROVE  SessionFits(session')
  <2>1. /\ session'.aud = s.aud /\ session'.requested = s.requested /\ session'.tok = s.tok
        /\ session'.rt = s.rt
    BY <1>2, <1>5 DEF WithCached
  <2>2. EntryFits(e, s.rt)
    <3>1. e.aud = aud /\ e.tok = t.tok
      BY <1>1, <1>5 DEF EntryFor
    <3> SUFFICES ASSUME claimed PROVE Serves(t.tok, aud, e.requested)
      BY <3>1 DEF EntryFits
    <3>2. Serves(t.tok, aud, R)
      BY <1>1
    <3>3. ASSUME NEW i \in DOMAIN s.cached, s.cached[i].aud = e.aud,
                 s.cached[i].tok.scope = t.tok.scope, e.requested = s.cached[i].requested \cup R
          PROVE  Serves(t.tok, aud, e.requested)
      <4>1. Serves(s.cached[i].tok, aud, s.cached[i].requested)
        BY <1>1, <3>1, <3>3 DEF SessionFits, EntryFits
      <4> QED BY <3>2, <3>3, <4>1 DEF Serves
    <3>4. \/ e.requested = R
          \/ \E i \in DOMAIN s.cached :
               /\ s.cached[i].aud = e.aud /\ s.cached[i].tok.scope = t.tok.scope
               /\ e.requested = s.cached[i].requested \cup R
      BY <1>2, <1>5 DEF EntryFor
    <3> QED BY <3>2, <3>3, <3>4
  <2>3. \A i \in DOMAIN session'.cached : EntryFits(session'.cached[i], session'.rt)
    BY <1>5, <2>1, <2>2, PutFits DEF SessionFits
  <2> QED BY <2>1, <2>3 DEF SessionFits, LoginFits, HeldScope
<1>6. \/ isGlobalAudienceAndScope(s, t) /\ session' = WithGlobal(s, t)
      \/ \E e : /\ EntryFor(s, t, e) /\ Put(s.cached, e, session'.cached)
                /\ session' = WithCached(s, t, session'.cached)
  BY RenewedPuts DEF t
<1> QED BY <1>4, <1>5, <1>6

\* A popup's token is put too.
LEMMA PlacedPuts ==
  ASSUME NEW s, NEW e, NEW after, Placed(s, e, after)
  PROVE  Put(s.cached, e, after)
BY DEF Placed, Put

\* A verification appends an entry that fits.
LEMMA VerifiedFits ==
  ASSUME UsualCalls, session \in Session, SessionFits(session), NEW m \in MfaContexts,
         NEW o \in AllAsks \cup {NoAsk}, ContextOf(m, o), VerifiedInto(m)
  PROVE  SessionFits(session')
<1> DEFINE s == session
           tok == Issued(m.for, m.scope)
           e == Entry(m.aud, tok.scope, tok)
<1>1. /\ session'.cached = Append(s.cached, e)
      /\ session'.aud = s.aud /\ session'.requested = s.requested /\ session'.tok = s.tok
      /\ session'.rt = s.rt
  BY VerifiedIs DEF VerifiedInto
<1>2. tok.aud = m.for
  BY IssuedIs DEF MfaContexts
<1>3. m.aud # NoAudience => m.for = m.aud
  BY ContextGives
<1> HIDE DEF tok
<1>4. EntryFits(e, s.rt)
  BY <1>2, <1>3 DEF Entry, EntryFits, Serves
<1>5. Put(s.cached, e, session'.cached)
  BY <1>1 DEF Put
<1> HIDE DEF e
<1>6. \A i \in DOMAIN session'.cached : EntryFits(session'.cached[i], session'.rt)
  BY <1>1, <1>4, <1>5, PutFits DEF SessionFits
<1> QED BY <1>1, <1>6 DEF SessionFits, LoginFits, HeldScope

\* The session of a sign-in, or of a verification without one, fits.
LEMMA SignedInFits ==
  ASSUME UsualCalls, NEW m \in MfaContexts, NEW o \in AllAsks \cup {NoAsk}, ContextOf(m, o),
         SignedInWith(m)
  PROVE  SessionFits(session')
<1> DEFINE tok == Issued(m.for, m.scope)
<1>1. m.for \in MaybeAudience /\ m.scope \in SUBSET Scopes /\ NoAudience \in MaybeAudience
  BY DEF MfaContexts, MaybeAudience
<1>2. tok.aud = m.for /\ tok \in AccessToken
  BY <1>1, IssuedIs
<1>3. /\ session'.aud = NoAudience /\ session'.requested = {} /\ session'.tok = tok
      /\ session'.rt = m.for /\ DOMAIN session'.cached = {}
  <2>1. session' = NewSession(NoAudience, {}, tok, m.for)
    BY <1>2 DEF SignedInWith, createSessionFromPasswordlessVerify
  <2> HIDE DEF tok
  <2> QED BY <1>1, <1>2, <2>1, NewTyped
<1>4. ASSUME m.for = Default
      PROVE  Serves(tok, Default, GlobalScope[Default])
  <2>1. m.scope = {} \/ GlobalScope[Default] \subseteq m.scope
    BY <1>4, ContextGives
  <2> QED BY <1>1, <1>4, <2>1, IssuedServes
<1>5. OrElse(session'.aud, Default) = Default /\ HeldScope(session', Default) = GlobalScope[Default]
  BY <1>3 DEF OrElse, HeldScope
<1> QED BY <1>3, <1>4, <1>5 DEF SessionFits, LoginFits

\* So does the session with a popup's token.
LEMMA PopupFits ==
  ASSUME UsualCalls, NEW o \in PopupAsks,
         \/ PopupMerged(o) /\ SessionFits(session)
         \/ PopupBegan(o)
  PROVE  SessionFits(session')
<1> DEFINE tok == FromPopup(o)
           R == Resolved(o)
<1>1. /\ o.aud \in MaybeAudience /\ R \in SUBSET Scopes /\ tok \in AccessToken
      /\ o.aud \notin {NoAudience, Default} /\ R # {}
  BY ResolvedTyped, FromPopupIs, StepUpAssumption DEF AllAsks, UsualCalls
<1>2. Serves(tok, o.aud, R)
  BY <1>1, FromPopupIs, IssuedServes DEF Serves
<1> HIDE DEF tok, R
<1>3. CASE PopupMerged(o) /\ SessionFits(session)
  <2> DEFINE s == session
             e == PopupEntry(o)
  <2>1. /\ Placed(s, e, session'.cached)
        /\ session'.aud = s.aud /\ session'.requested = s.requested /\ session'.tok = s.tok
        /\ session'.rt = IF "refresh_token" \in PopupGrants THEN o.aud ELSE s.rt
    BY <1>3, MergedIs DEF PopupMerged
  <2>2. session'.rt = Default => s.rt = Default
    BY <1>1, <2>1
  <2>3. EntryFits(e, s.rt)
    BY <1>1, <1>2 DEF PopupEntry, Entry, EntryFits, tok, R
  <2>4. session \in Session
    BY <1>3 DEF PopupMerged
  <2>5. Put(s.cached, e, session'.cached)
    BY <2>1, PlacedPuts
  <2> HIDE DEF e
  <2>6. \A i \in DOMAIN session'.cached : EntryFits(session'.cached[i], session'.rt)
    BY <1>3, <2>2, <2>3, <2>4, <2>5, PutFits DEF SessionFits
  <2> QED BY <1>3, <2>1, <2>2, <2>6 DEF SessionFits, LoginFits, HeldScope
<1>4. CASE PopupBegan(o)
  <2>1. /\ session'.aud = o.aud /\ session'.requested = R /\ session'.tok = tok
        /\ session'.rt = o.aud /\ DOMAIN session'.cached = {}
    BY <1>1, <1>4, NewTyped DEF PopupBegan, tok, R
  <2>2. OrElse(session'.aud, Default) = o.aud /\ HeldScope(session', o.aud) = R
    BY <1>1, <2>1 DEF OrElse, HeldScope
  <2> QED BY <1>1, <1>2, <2>1, <2>2 DEF SessionFits, LoginFits
<1> QED BY <1>3, <1>4

\* So does the one of a login.
LEMMA LoggedInFits ==
  ASSUME UsualCalls, LoggedIn
  PROVE  SessionFits(session')
<1> DEFINE tok == Issued(Default, GlobalScope[Default])
<1>1. Serves(tok, Default, GlobalScope[Default]) /\ tok \in AccessToken
  BY DefaultTyped, IssuedServes
<1> HIDE DEF tok
<1>2. /\ session'.aud = Default /\ session'.requested = GlobalScope[Default] /\ session'.tok = tok
      /\ session'.rt = Default /\ DOMAIN session'.cached = {}
  BY <1>1, DefaultTyped, NewTyped DEF LoggedIn, tok
<1>3. OrElse(session'.aud, Default) = Default /\ HeldScope(session', Default) = GlobalScope[Default]
  BY <1>2 DEF OrElse, HeldScope
<1> QED BY <1>1, <1>2, <1>3 DEF SessionFits, LoginFits

\* Time does not change that.
LEMMA AgedFits ==
  ASSUME Aged, SessionFits(session)
  PROVE  SessionFits(session')
<1> DEFINE s == session
           u == session'
<1>1. /\ u.aud = s.aud /\ u.requested = s.requested /\ u.rt = s.rt
      /\ u.tok.aud = s.tok.aud /\ u.tok.scope = s.tok.scope
  BY DEF Aged, Aging
<1>2. \A i \in DOMAIN u.cached :
         /\ i \in DOMAIN s.cached
         /\ u.cached[i].aud = s.cached[i].aud /\ u.cached[i].requested = s.cached[i].requested
         /\ u.cached[i].tok.aud = s.cached[i].tok.aud
         /\ u.cached[i].tok.scope = s.cached[i].tok.scope
  BY DEF Aged, Aging
<1>3. LoginFits(s) /\ \A i \in DOMAIN s.cached : EntryFits(s.cached[i], s.rt)
  BY DEF SessionFits
<1> HIDE DEF u
<1>4. LoginFits(u)
  BY <1>1, <1>3 DEF LoginFits, HeldScope, Serves
<1>5. \A i \in DOMAIN u.cached : EntryFits(u.cached[i], u.rt)
  BY <1>1, <1>2, <1>3 DEF EntryFits, Serves
<1> QED BY <1>1, <1>4, <1>5 DEF SessionFits, u

\* Every step leaves a session that fits.
LEMMA SessionGoesOnFitting ==
  ASSUME UsualCalls, TypeInv, FitInv, SessionStep
  PROVE  session' # NoSession => SessionFits(session')
<1> SUFFICES ASSUME session' # NoSession PROVE SessionFits(session')
  OBVIOUS
<1>0. session \in Session => SessionFits(session)
  BY NothingAssumption DEF FitInv
<1>1. CASE session' = session
  BY <1>1 DEF FitInv
<1>2. ASSUME NEW o \in AllAsks, Renewed(o)
      PROVE  SessionFits(session')
  BY <1>0, <1>2, RenewedFits DEF Renewed
<1>3. ASSUME NEW m \in MfaContexts, Held(m), VerifiedInto(m) \/ SignedInWith(m)
      PROVE  SessionFits(session')
  <2>1. PICK o \in AllAsks \cup {NoAsk} : ContextOf(m, o)
    <3>1. CASE m = SignInContext
      BY <3>1 DEF ContextOf
    <3>2. ASSUME NEW c \in Calls, call[c].pc = "mfa", m = call[c].mfa
          PROVE  \E o \in AllAsks \cup {NoAsk} : ContextOf(m, o)
      BY <3>2, CallsTyped DEF FitInv, Suits
    <3> QED BY <1>3, <3>1, <3>2 DEF Held
  <2> QED BY <1>0, <1>3, <2>1, VerifiedFits, SignedInFits DEF VerifiedInto
<1>4. ASSUME NEW o \in PopupAsks, PopupMerged(o) \/ PopupBegan(o)
      PROVE  SessionFits(session')
  BY <1>0, <1>4, PopupFits DEF PopupMerged
<1>5. CASE LoggedIn
  BY <1>5, LoggedInFits
<1>6. CASE Aged
  BY <1>0, <1>6, AgedFits DEF Aged
<1> QED BY <1>1, <1>2, <1>3, <1>4, <1>5, <1>6 DEF SessionStep

\* A call that was told of a result.
LEMMA ToldIs ==
  ASSUME NEW o, NEW out, NEW result \in Results, NEW mfa, NEW tok
  PROVE  LET q == Told(o, out, result, mfa, tok)
         IN  /\ q.ask = o
             /\ result = "done" => q.pc = "answered" /\ q.tok = tok
             /\ result = "mfa" => q.pc = "mfa" /\ q.mfa = mfa
             /\ result \in {"expired", "failed"} => q.pc = result
BY CallFields DEF Told, Results

\* One that has gone on with the MFA token of its context suits, or that was answered with
\* a token that does.
LEMMA ToldSuits ==
  ASSUME NEW o, NEW out, NEW result \in Results, NEW mfa, NEW tok, NEW s,
         result = "mfa" => ContextOf(mfa, o),
         result = "done" /\ (Named(o) \/ s.rt = Default)
            => tok.live /\ Serves(tok, WantsOf(o).aud, WantsOf(o).scope)
  PROVE  Suits(Told(o, out, result, mfa, tok), s)
<1> DEFINE q == Told(o, out, result, mfa, tok)
<1>1. /\ q.ask = o
      /\ result = "done" => q.pc = "answered" /\ q.tok = tok
      /\ result = "mfa" => q.pc = "mfa" /\ q.mfa = mfa
      /\ result \in {"expired", "failed"} => q.pc = result
  BY ToldIs
<1> SUFFICES Suits(q, s)
  OBVIOUS
<1> HIDE DEF q
<1>2. CASE result = "done"
  BY <1>1, <1>2, FitsIf DEF Suits
<1>3. CASE result = "mfa"
  BY <1>1, <1>3 DEF Suits
<1>4. CASE result \in {"expired", "failed"}
  BY <1>1, <1>4 DEF Suits
<1> QED BY <1>2, <1>3, <1>4 DEF Results

\* A call that has no token has nothing to fit.
LEMMA QuietSuits ==
  ASSUME NEW q, q.pc \in {"idle", "waiting", "settled", "expired", "failed"}, NEW s
  PROVE  Suits(q, s)
BY DEF Suits

\* A call is answered from the session, or by a refresh, with a token that fits.
LEMMA GetTokenSuits ==
  ASSUME UsualCalls, TypeInv, FitInv, NEW c \in Calls, NEW how, NEW o, Going(how, o),
         GetToken(c, how, o)
  PROVE  \E q : Becomes(c, q) /\ Suits(q, session')
<1>0. o \in AllAsks /\ o # NoAsk /\ session \in Session \cup {NoSession}
  <2>1. o \in AllAsks /\ session \in Session \cup {NoSession}
    BY DEF Going, AllAsks, TypeInv
  <2> QED BY <2>1, ResolvedTyped, NothingAssumption
<1>1. WantsOf(o).aud = OrElse(o.aud, Default) /\ WantsOf(o).scope = Resolved(o)
  BY <1>0 DEF WantsOf
<1>2. CASE FromCache(c, o)
  <2> DEFINE tok == Found(o).tok
             q == Call("answered", o, NoToken, tok, NoOutcome)
  <2>1. /\ Becomes(c, q) /\ session' = session /\ session \in Session /\ SessionFits(session)
        /\ tok # NoToken /\ tok.live
    BY <1>0, <1>2 DEF FromCache, Becomes, Usable, FitInv
  <2>2. q.pc = "answered" /\ q.ask = o /\ q.tok = tok
    BY CallFields
  <2>3. Named(o) \/ session.rt = Default => Serves(tok, OrElse(o.aud, Default), Resolved(o))
    BY <1>0, <2>1, FoundServes
  <2> HIDE DEF q, tok
  <2>4. Suits(q, session')
    BY <1>1, <2>1, <2>2, <2>3, FitsIf DEF Suits
  <2> QED BY <2>1, <2>4
<1>3. CASE NoSessionFound(c, o)
  <2> DEFINE q == Call("failed", o, NoToken, NoToken, NoOutcome)
  <2>1. Becomes(c, q) /\ q.pc = "failed"
    BY <1>3, CallFields DEF NoSessionFound, Becomes
  <2> HIDE DEF q
  <2> QED BY <2>1, QuietSuits
<1>4. CASE Refreshes(c, how, o)
  <2> DEFINE t == Refreshed(o)
             changes == SessionChanges(session, t, TRUE)
             mfa == MfaContext(o, session.rt)
  <2>1. session \in Session
    BY <1>0, <1>4 DEF Refreshes
  <2>2. PICK out \in {"tokens"} \cup Faults : \E result \in TokenResults[out][how] :
          /\ call' = [call EXCEPT ![c] = Told(o, out, result, mfa, t.tok)]
          /\ session' \in IF result = "done" /\ how # "enrolling" /\ changes # {}
                            THEN changes ELSE {session}
    BY <1>4 DEF Refreshes
  <2>3. PICK result \in TokenResults[out][how] :
          /\ call' = [call EXCEPT ![c] = Told(o, out, result, mfa, t.tok)]
          /\ session' \in IF result = "done" /\ how # "enrolling" /\ changes # {}
                            THEN changes ELSE {session}
    BY <2>2
  <2>4. out \in Outcomes
    BY StepUpAssumption DEF Outcomes
  <2>5. result \in Results
    BY <2>4, EnrolmentResults, RetrievalTells DEF Going, Tells
  <2>6. session'.rt = session.rt
    BY <1>0, <2>1, <2>3, RenewedTyped
  <2>7. ContextOf(mfa, o)
    BY <1>0, <2>1, SessionFields DEF ContextOf
  <2>8. t.tok.live /\ (Named(o) \/ session.rt = Default
                         => Serves(t.tok, OrElse(o.aud, Default), Resolved(o)))
    <3>1. t.tok.live
      BY <1>0, <2>1, RefreshedIs
    <3>2. Named(o) \/ session.rt = Default
            => (OrElse(o.aud, Default) = Default => session.rt = Default)
      BY DEF Named, OrElse
    <3>3. (OrElse(o.aud, Default) = Default => session.rt = Default)
            => Serves(t.tok, OrElse(o.aud, Default), Resolved(o))
      BY <1>0, <2>1, RefreshedServes
    <3> QED BY <3>1, <3>2, <3>3
  <2> DEFINE tok == t.tok
             s == session'
             q == Told(o, out, result, mfa, tok)
  <2>9. Becomes(c, q)
    BY <2>3 DEF Becomes
  <2>10. /\ result = "mfa" => ContextOf(mfa, o)
         /\ result = "done" /\ (Named(o) \/ s.rt = Default)
            => tok.live /\ Serves(tok, WantsOf(o).aud, WantsOf(o).scope)
    BY <1>1, <2>6, <2>7, <2>8
  <2> HIDE DEF mfa, tok, s
  <2>11. Suits(q, s)
    BY <2>5, <2>10, ToldSuits
  <2> QED BY <2>9, <2>11 DEF s
<1> QED BY <1>2, <1>3, <1>4 DEF GetToken

\* Asking for a factor answers no call.
LEMMA PrepareSuits ==
  ASSUME TypeInv, NEW c \in Calls, Prepare(c)
  PROVE  call' = call \/ \E q : Becomes(c, q) /\ Suits(q, session')
<1>1. PICK o \in {"sent"} \cup RequestFaults : \E result \in FactorResults[o] :
        call' = IF result = "done" THEN call
                ELSE [call EXCEPT ![c] = Told(call[c].ask, o, result, NoToken, NoToken)]
  BY DEF Prepare
<1>2. PICK result \in FactorResults[o] :
        call' = IF result = "done" THEN call
                ELSE [call EXCEPT ![c] = Told(call[c].ask, o, result, NoToken, NoToken)]
  BY <1>1
<1>3. o \in Replies
  BY StepUpAssumption DEF Replies
<1>4. Stops(o, result)
  BY <1>3, FactorsStop
<1>5. ASSUME result # "done"
      PROVE  \E q : Becomes(c, q) /\ Suits(q, session')
  <2> DEFINE q == Told(call[c].ask, o, result, NoToken, NoToken)
  <2>1. result \in Results /\ result # "mfa"
    BY <1>4, <1>5 DEF Stops, Results
  <2>2. Suits(q, session')
    BY <1>5, <2>1, ToldSuits
  <2>3. Becomes(c, q)
    BY <1>2, <1>5 DEF Becomes
  <2> HIDE DEF q
  <2> QED BY <2>2, <2>3
<1> QED BY <1>2, <1>5

\* A verification answers one with a token that fits, or goes on with its context.
LEMMA VerifySuits ==
  ASSUME UsualCalls, TypeInv, FitInv, NEW c \in Calls, Verify(c)
  PROVE  \E q : Becomes(c, q) /\ Suits(q, session')
<1> DEFINE m   == call[c].mfa
           o   == call[c].ask
           tok == Issued(m.for, m.scope)
           expiry == RequestFaults \cap {"expired", "invalid", "malformed"}
           outs == {"tokens"} \cup (Faults \ {"mfa_without_token"}) \cup expiry
           Lost(out) == out = "no_id_token" /\ session = NoSession
           Goes(out, result) ==
             call' = [call EXCEPT ![c] =
               IF result = "done" THEN Call("verified", o, m, tok, Said(out))
               ELSE Told(o, out, result, m, NoToken)]
<1>1. PICK out \in outs : \E result \in IF Lost(out) THEN {"failed"} ELSE VerifyResults[out] :
        Goes(out, result)
  BY DEF Verify
<1>2. PICK result \in IF Lost(out) THEN {"failed"} ELSE VerifyResults[out] : Goes(out, result)
  BY <1>1
<1>3. call[c].pc = "mfa"
  BY DEF Verify
<1>4. m \in MfaContexts /\ o \in AllAsks \cup {NoAsk} /\ ContextOf(m, o)
  BY <1>3, CallsTyped DEF FitInv, Suits
<1>5. out \in (Outcomes \ {"mfa_without_token"}) \cup {"expired", "invalid", "malformed"}
  BY StepUpAssumption DEF Outcomes
<1>6. result \in Results
  BY <1>2, <1>5, VerificationTells DEF Tells, Results
<1>7. CASE result = "done"
  <2> DEFINE q == Call("verified", o, m, tok, Said(out))
  <2>1. Becomes(c, q)
    BY <1>2, <1>7 DEF Becomes
  <2>2. q.pc = "verified" /\ q.ask = o /\ q.mfa = m /\ q.tok = tok
    BY CallFields
  <2>3. m.for \in MaybeAudience /\ m.scope \in SUBSET Scopes
    BY <1>4 DEF MfaContexts
  <2>4. tok.live /\ Serves(tok, m.for, m.scope)
    BY <2>3, IssuedIs, IssuedServes
  <2>5. Named(o) \/ m.for = Default => m.for = WantsOf(o).aud /\ m.scope = WantsOf(o).scope
    BY <1>4, ContextGives
  <2> HIDE DEF q, tok, m, o
  <2>6. Named(o) \/ m.for = Default => Fits(q)
    BY <2>2, <2>4, <2>5, FitsIf
  <2>7. Suits(q, session')
    BY <1>4, <2>2, <2>6 DEF Suits
  <2> QED BY <2>1, <2>7
<1>8. CASE result # "done"
  <2> DEFINE q == Told(o, out, result, m, NoToken)
  <2>1. Becomes(c, q)
    BY <1>2, <1>8 DEF Becomes
  <2> HIDE DEF m, o
  <2>2. Suits(q, session')
    BY <1>4, <1>6, <1>8, ToldSuits
  <2> HIDE DEF q
  <2> QED BY <2>1, <2>2
<1> QED BY <1>7, <1>8

\* So does a sign-in.
LEMMA SignInSuits ==
  ASSUME TypeInv, NEW c \in Calls, SignIn(c)
  PROVE  \E q : Becomes(c, q) /\ Suits(q, session')
<1> DEFINE m   == SignInContext
           tok == Issued(Default, GlobalScope[Default])
<1>0. tok.live /\ Serves(tok, WantsOf(NoAsk).aud, WantsOf(NoAsk).scope) /\ ContextOf(m, NoAsk)
  BY DefaultTyped, IssuedIs, IssuedServes DEF WantsOf, ContextOf
<1> HIDE DEF tok, m
<1>1. ASSUME NEW o \in RequestFaults, NEW result \in ChallengeResults[o] \ {"done"},
             call' = [call EXCEPT ![c] = Told(NoAsk, o, result, m, NoToken)]
      PROVE  \E q : Becomes(c, q) /\ Suits(q, session')
  <2> DEFINE q == Told(NoAsk, o, result, m, NoToken)
  <2>1. o \in Replies
    BY StepUpAssumption
  <2>2. result \in Results
    BY <2>1, ChallengesStop DEF Stops, Results
  <2>3. Suits(q, session')
    BY <1>0, <1>1, <2>2, ToldSuits
  <2>4. Becomes(c, q)
    BY <1>1 DEF Becomes
  <2> HIDE DEF q
  <2> QED BY <2>3, <2>4
<1>2. ASSUME NEW out \in {"tokens"} \cup Faults, NEW result \in SignInResults[out],
             call' = [call EXCEPT ![c] = Told(NoAsk, out, result, m, tok)]
      PROVE  \E q : Becomes(c, q) /\ Suits(q, session')
  <2> DEFINE q == Told(NoAsk, out, result, m, tok)
  <2>1. out \in Outcomes
    BY StepUpAssumption DEF Outcomes
  <2>2. result \in Results
    BY <2>1, SignInTells DEF Tells
  <2>3. Suits(q, session')
    BY <1>0, <2>2, ToldSuits
  <2>4. Becomes(c, q)
    BY <1>2 DEF Becomes
  <2> HIDE DEF q
  <2> QED BY <2>3, <2>4
<1> QED BY <1>1, <1>2 DEF SignIn, m, tok

\* A call is the one before, or one that suits.
LEMMA SuitsStep ==
  ASSUME UsualCalls, TypeInv, FitInv, Next, NEW d \in Calls
  PROVE  Suits(call'[d], session')
<1>1. ASSUME NEW c \in Calls, End(c)
      PROVE  Suits(call'[d], session')
  <2>1. /\ Idle.pc = "idle" /\ session' = session /\ call'[c] = Idle
        /\ d # c => call'[d] = call[d]
    BY <1>1, EndStep, BecomesIs
  <2> HIDE DEF Idle
  <2> QED BY <2>1, QuietSuits DEF FitInv
<1>2. ASSUME Ended = {}, call'[d] = call[d]
      PROVE  Suits(call'[d], session')
  <2>1. call[d].pc \notin {"answered", "verified"}
    BY <1>2 DEF Ended
  <2> QED BY <1>2, <2>1 DEF FitInv, Suits
<1>3. ASSUME Ended = {}, NEW c \in Calls, NEW q, Becomes(c, q), Suits(q, session')
      PROVE  Suits(call'[d], session')
  <2>1. call'[c] = q /\ (d # c => call'[d] = call[d])
    BY <1>3, BecomesIs
  <2> QED BY <1>2, <1>3, <2>1
<1>4. ASSUME Ended = {}, NEW c \in DirectCalls,
             \/ \E o \in TokenAsks : Ask(c, "asking", o)
             \/ \E o \in EnrollAsks : Ask(c, "enrolling", o)
             \/ SignIn(c)
      PROVE  Suits(call'[d], session')
  <2>1. c \in Calls
    BY StepUpAssumption
  <2>2. ASSUME NEW how, NEW o, Going(how, o), Ask(c, how, o)
        PROVE  \E q : Becomes(c, q) /\ Suits(q, session')
    BY <2>1, <2>2, GetTokenSuits DEF Ask
  <2>3. \E q : Becomes(c, q) /\ Suits(q, session')
    BY <1>4, <2>1, <2>2, SignInSuits DEF Going
  <2> QED BY <1>3, <1>4, <2>1, <2>3
<1>5. ASSUME Ended = {}, NEW c \in Calls, Prepare(c) \/ Verify(c) \/ PopupToken(c) \/ GiveUp(c)
      PROVE  Suits(call'[d], session')
  <2>1. CASE PopupToken(c)
    <3>1. call[c].pc = "settled" /\ GetToken(c, "settled", call[c].ask)
      BY <2>1 DEF PopupToken
    <3>2. Going("settled", call[c].ask)
      BY <3>1, CallsTyped DEF Going
    <3> QED BY <1>3, <1>5, <3>1, <3>2, GetTokenSuits
  <2>2. CASE GiveUp(c)
    <3>1. PICK q : Becomes(c, q) /\ q.pc = "failed"
      BY <2>2, GiveUpStep
    <3>2. Suits(q, session')
      BY <3>1, QuietSuits
    <3> QED BY <1>3, <1>5, <3>1, <3>2
  <2>3. CASE Prepare(c)
    <3>1. CASE call' = call
      BY <1>2, <1>5, <3>1
    <3>2. CASE \E q : Becomes(c, q) /\ Suits(q, session')
      BY <1>3, <1>5, <3>2
    <3> QED BY <2>3, <3>1, <3>2, PrepareSuits
  <2>4. CASE Verify(c)
    BY <1>3, <1>5, <2>4, VerifySuits
  <2> QED BY <1>5, <2>1, <2>2, <2>3, <2>4
<1>6. ASSUME Ended = {}, NEW c \in Calls, NEW p \in Popups, NEW o \in PopupAsks,
             challengeWithPopup(c, p, o)
      PROVE  Suits(call'[d], session')
  <2> DEFINE q == Call("waiting", o, NoToken, NoToken, NoOutcome)
  <2>1. Becomes(c, q)
    BY <1>6 DEF challengeWithPopup, Becomes
  <2>2. q.pc = "waiting"
    BY CallFields
  <2> HIDE DEF q
  <2>3. Suits(q, session')
    BY <2>2, QuietSuits
  <2> QED BY <1>3, <1>6, <2>1, <2>3
<1>7. ASSUME Ended = {}, NEW p \in Popups, PopupCallback(p) \/ PopupFails(p) \/ Close(p)
      PROVE  Suits(call'[d], session')
  <2>1. call' = call
    BY <1>7, GoneStep DEF Gone
  <2> QED BY <1>2, <1>7, <2>1
<1>8. ASSUME Ended = {}, NEW m \in mail, Message(m)
      PROVE  Suits(call'[d], session')
  <2>1. CASE call[d].pc = "waiting"
    <3>1. call'[d].pc = IF m[2] THEN "settled" ELSE "failed"
      BY <1>8, <2>1, MessageStep
    <3>2. call'[d].pc \in {"idle", "waiting", "settled", "expired", "failed"}
      BY <3>1
    <3> QED BY <3>2, QuietSuits
  <2>2. CASE call[d].pc # "waiting"
    <3>1. call'[d] = call[d]
      BY <1>8, <2>2, MessageStep
    <3> QED BY <1>2, <1>8, <3>1
  <2> QED BY <2>1, <2>2
<1>9. ASSUME Ended = {}, Login \/ Logout \/ Expire
      PROVE  Suits(call'[d], session')
  BY <1>2, <1>9 DEF Login, Logout, Expire
<1> QED BY <1>1, <1>4, <1>5, <1>6, <1>7, <1>8, <1>9 DEF Next

\* Every step keeps sessions and answers fitting.
LEMMA FitStep ==
  ASSUME UsualCalls, TypeInv, FitInv, [Next]_vars
  PROVE  FitInv'
<1>1. CASE UNCHANGED vars
  BY <1>1 DEF vars, FitInv
<1>2. CASE Next
  <2>1. session' # NoSession => SessionFits(session')
    <3>1. ASSUME NEW c \in Calls, End(c)
          PROVE  session' = session
      BY <3>1, EndStep
    <3>2. session' = session \/ SessionStep
      BY <1>2, <3>1, StepCases
    <3> QED BY <3>2, SessionGoesOnFitting DEF FitInv
  <2>2. \A d \in Calls : Suits(call'[d], session')
    BY <1>2, SuitsStep
  <2> QED BY <2>1, <2>2 DEF FitInv
<1> QED BY <1>1, <1>2

\* They fit at first.
LEMMA InitFits == Init => FitInv
<1> SUFFICES ASSUME Init PROVE FitInv
  OBVIOUS
<1>1. Idle.pc = "idle"
  BY CallFields DEF Idle
<1>2. session = NoSession /\ \A c \in Calls : call[c] = Idle
  BY DEF Init
<1> HIDE DEF Idle
<1> QED BY <1>1, <1>2, QuietSuits DEF FitInv

\* A call is answered with a live token for the audience it named and every scope it asked
\* for that the server would grant (AnswerFits), whoever signs in and out meanwhile.
THEOREM AnswersFit == ASSUME UsualCalls PROVE Spec => []AnswerFits
<1>1. TypeInv /\ FitInv /\ [Next]_vars => FitInv'
  BY FitStep
<1>2. FitInv => AnswerFits
  BY DEF FitInv, Suits, AnswerFits, Named
<1> QED BY <1>1, <1>2, InitFits, TypeInvariant, PTL DEF Spec

-----------------------------------------------------------------------------
(* The tokens of popups.                                                   *)

\* A popup's token is the first for its audience, and was granted what was asked for.
PopupAt(entries, i) ==
    LET e == entries[i]
    IN  e.tok.popup =>
          /\ e.aud \notin {NoAudience, Default}
          /\ e.requested = e.tok.asked /\ e.tok.asked # {}
          /\ e.tok.scope = e.tok.asked \cap Allowed[e.aud]
          /\ \A j \in DOMAIN entries : j < i => entries[j].aud # e.aud

PopupsFirst(entries) == \A i \in DOMAIN entries : PopupAt(entries, i)

PopupInv == session # NoSession => PopupsFirst(session.cached)

\* Where an entry is put: in the place of one of its audience, or after all others.
LEMMA PutIs ==
  ASSUME NEW entries \in Seq(CachedToken), NEW e, NEW after, Put(entries, e, after)
  PROVE  /\ DOMAIN after \subseteq Nat
         /\ \E k \in DOMAIN after :
              /\ after[k] = e
              /\ \A i \in DOMAIN after : i # k => i \in DOMAIN entries /\ after[i] = entries[i]
              /\ k \in DOMAIN entries => entries[k].aud = e.aud
              /\ k \notin DOMAIN entries => \A i \in DOMAIN entries : i < k
              /\ DOMAIN entries \subseteq DOMAIN after
<1>1. CASE after = Append(entries, e)
  <2> DEFINE k == Len(entries) + 1
  <2>1. /\ DOMAIN after \subseteq Nat /\ k \in DOMAIN after /\ after[k] = e
        /\ \A i \in DOMAIN after : i # k => i \in DOMAIN entries /\ after[i] = entries[i]
        /\ k \notin DOMAIN entries /\ \A i \in DOMAIN entries : i < k
        /\ DOMAIN entries \subseteq DOMAIN after
    BY <1>1
  <2> HIDE DEF k
  <2> QED BY <2>1
<1>2. ASSUME NEW k \in DOMAIN entries, entries[k].aud = e.aud, after = [entries EXCEPT ![k] = e]
      PROVE  /\ DOMAIN after = DOMAIN entries /\ DOMAIN entries \subseteq Nat /\ after[k] = e
             /\ \A i \in DOMAIN after : i # k => after[i] = entries[i]
  BY <1>2
<1> QED BY <1>1, <1>2 DEF Put

\* Other tokens leave the popups' tokens first.
LEMMA PutKeepsPopups ==
  ASSUME NEW entries \in Seq(CachedToken), PopupsFirst(entries), NEW e \in CachedToken, NEW after,
         Put(entries, e, after), ~e.tok.popup
  PROVE  PopupsFirst(after)
<1>1. PICK k \in DOMAIN after :
        /\ after[k] = e
        /\ \A i \in DOMAIN after : i # k => i \in DOMAIN entries /\ after[i] = entries[i]
        /\ k \in DOMAIN entries => entries[k].aud = e.aud
        /\ k \notin DOMAIN entries => \A i \in DOMAIN entries : i < k
  BY PutIs
<1>2. DOMAIN after \subseteq Nat
  BY PutIs
<1>3. ASSUME NEW i \in DOMAIN after
      PROVE  PopupAt(after, i)
  <2>1. CASE i = k
    BY <1>1, <2>1 DEF PopupAt
  <2>2. CASE i # k
    <3>1. i \in DOMAIN entries /\ after[i] = entries[i] /\ PopupAt(entries, i)
      BY <1>1, <2>2 DEF PopupsFirst
    <3>2. ASSUME NEW j \in DOMAIN after, j < i
          PROVE  j \in DOMAIN entries /\ after[j].aud = entries[j].aud
      <4>1. CASE j # k
        BY <1>1, <4>1
      <4>2. CASE j = k
        <5>1. k \in DOMAIN entries
          BY <1>1, <1>2, <3>1, <3>2, <4>2
        <5> QED BY <1>1, <4>2, <5>1
      <4> QED BY <4>1, <4>2
    <3> QED BY <3>1, <3>2 DEF PopupAt
  <2> QED BY <2>1, <2>2
<1> QED BY <1>3 DEF PopupsFirst

\* So does the token of another popup.
LEMMA PlacedKeepsPopups ==
  ASSUME session \in Session, PopupsFirst(session.cached), NEW e \in CachedToken, NEW after,
         Placed(session, e, after),
         e.aud \notin {NoAudience, Default}, e.requested = e.tok.asked, e.tok.asked # {},
         e.tok.scope = e.tok.asked \cap Allowed[e.aud]
  PROVE  PopupsFirst(after)
<1> DEFINE entries == session.cached
<1>0. entries \in Seq(CachedToken)
  BY SessionFields
<1>1. CASE /\ \A i \in DOMAIN entries : entries[i].aud # e.aud
           /\ after = Append(entries, e)
  <2>1. /\ DOMAIN entries \subseteq Nat /\ DOMAIN after \subseteq Nat
        /\ \A i \in DOMAIN after :
             \/ i \in DOMAIN entries /\ after[i] = entries[i]
             \/ after[i] = e /\ i = Len(entries) + 1
        /\ \A i \in DOMAIN after : \A j \in DOMAIN after : j < i => j \in DOMAIN entries
    BY <1>0, <1>1
  <2>2. ASSUME NEW i \in DOMAIN after
        PROVE  PopupAt(after, i)
    <3>1. \A j \in DOMAIN after : j < i => j \in DOMAIN entries /\ after[j] = entries[j]
      BY <1>0, <1>1, <2>1
    <3>2. CASE i \in DOMAIN entries /\ after[i] = entries[i]
      BY <3>1, <3>2 DEF PopupAt, PopupsFirst
    <3>3. CASE after[i] = e
      BY <1>1, <3>1, <3>3 DEF PopupAt
    <3> QED BY <2>1, <3>2, <3>3
  <2> QED BY <2>2 DEF PopupsFirst
<1>2. ASSUME NEW k \in DOMAIN entries, entries[k].aud = e.aud,
             \A j \in DOMAIN entries : j < k => entries[j].aud # e.aud,
             after = [entries EXCEPT ![k] = e]
      PROVE  PopupsFirst(after)
  <2>1. /\ DOMAIN after = DOMAIN entries /\ after[k] = e
        /\ \A i \in DOMAIN entries : i # k => after[i] = entries[i]
    BY <1>0, <1>2
  <2>2. \A i \in DOMAIN entries : after[i].aud = entries[i].aud
    BY <1>2, <2>1
  <2>3. ASSUME NEW i \in DOMAIN after
        PROVE  PopupAt(after, i)
    <3>1. CASE i = k
      BY <1>2, <2>1, <2>2, <3>1 DEF PopupAt
    <3>2. CASE i # k
      <4>1. PopupAt(entries, i) /\ after[i] = entries[i]
        BY <2>1, <3>2 DEF PopupsFirst
      <4> QED BY <2>1, <2>2, <4>1 DEF PopupAt
    <3> QED BY <3>1, <3>2
  <2> QED BY <2>3 DEF PopupsFirst
<1> QED BY <1>1, <1>2 DEF Placed

\* Every step leaves the popups' tokens first for their audiences.
LEMMA PopupStep ==
  ASSUME UsualCalls, TypeInv, PopupInv, SessionStep
  PROVE  PopupInv'
<1> SUFFICES ASSUME session' # NoSession PROVE PopupsFirst(session'.cached)
  BY DEF PopupInv
<1>0. session \in Session => PopupsFirst(session.cached) /\ session.cached \in Seq(CachedToken)
  BY SessionFields, NothingAssumption DEF PopupInv
<1>1. CASE session' = session
  BY <1>1 DEF PopupInv
<1>2. ASSUME DOMAIN session'.cached = {}
      PROVE  PopupsFirst(session'.cached)
  BY <1>2 DEF PopupsFirst
<1>3. ASSUME NEW o \in AllAsks, Renewed(o)
      PROVE  PopupsFirst(session'.cached)
  <2> DEFINE t == Refreshed(o)
  <2>0. session \in Session
    BY <1>3 DEF Renewed
  <2>1. ~t.tok.popup /\ t.tok \in AccessToken /\ t.aud \in MaybeAudience
    BY <2>0, RefreshedIs
  <2>2. session' \in Session
    BY <1>3, RenewedTyped DEF Renewed
  <2> HIDE DEF t
  <2>3. CASE session' = WithGlobal(session, t)
    BY <1>0, <2>0, <2>3 DEF WithGlobal
  <2>4. ASSUME NEW e, EntryFor(session, t, e), Put(session.cached, e, session'.cached)
        PROVE  PopupsFirst(session'.cached)
    <3>1. ~e.tok.popup
      BY <2>1, <2>4 DEF EntryFor
    <3>2. e \in CachedToken
      <4>1. \E k \in DOMAIN session'.cached : session'.cached[k] = e
        BY <1>0, <2>0, <2>4, PutIs
      <4> QED BY <2>2, <4>1, SessionFields
    <3> QED BY <1>0, <2>0, <2>4, <3>1, <3>2, PutKeepsPopups
  <2>5. \/ session' = WithGlobal(session, t)
        \/ \E e : EntryFor(session, t, e) /\ Put(session.cached, e, session'.cached)
    BY <1>3, <2>0, RenewedPuts DEF t
  <2> QED BY <2>3, <2>4, <2>5
<1>4. ASSUME NEW m \in MfaContexts, VerifiedInto(m)
      PROVE  PopupsFirst(session'.cached)
  <2> DEFINE tok == Issued(m.for, m.scope)
             e == Entry(m.aud, tok.scope, tok)
  <2>0. session \in Session
    BY <1>4 DEF VerifiedInto
  <2>1. tok \in AccessToken /\ ~tok.popup /\ m.aud \in MaybeAudience
    BY IssuedIs DEF MfaContexts
  <2>2. tok.scope \in SUBSET Scopes
    BY <2>1 DEF AccessToken
  <2>3. session'.cached = Append(session.cached, e)
    BY <1>4, <2>0, VerifiedIs DEF VerifiedInto
  <2> HIDE DEF tok
  <2>4. e \in CachedToken /\ ~e.tok.popup
    BY <2>1, <2>2 DEF Entry, CachedToken
  <2> HIDE DEF e
  <2>5. Put(session.cached, e, session'.cached)
    BY <2>3 DEF Put
  <2> QED BY <1>0, <2>0, <2>4, <2>5, PutKeepsPopups
<1>5. ASSUME NEW m \in MfaContexts, SignedInWith(m)
      PROVE  DOMAIN session'.cached = {}
  BY <1>5 DEF SignedInWith, createSessionFromPasswordlessVerify, NewSession
<1>6. ASSUME NEW o \in PopupAsks, PopupMerged(o)
      PROVE  PopupsFirst(session'.cached)
  <2> DEFINE tok == FromPopup(o)
             e == PopupEntry(o)
  <2>0. session \in Session
    BY <1>6 DEF PopupMerged
  <2>1. Placed(session, e, session'.cached)
    BY <1>6, <2>0, MergedIs DEF PopupMerged
  <2>2. /\ o.aud \in MaybeAudience /\ Resolved(o) \in SUBSET Scopes
        /\ o.aud \notin {NoAudience, Default} /\ Resolved(o) # {}
    BY ResolvedTyped, StepUpAssumption DEF AllAsks, UsualCalls
  <2>3. /\ tok \in AccessToken /\ tok.asked = Resolved(o)
        /\ tok.scope = Resolved(o) \cap Allowed[o.aud]
    BY <2>2, FromPopupIs, IssuedIs
  <2>4. e.aud = o.aud /\ e.requested = Resolved(o) /\ e.tok = tok
    BY DEF PopupEntry, Entry
  <2> HIDE DEF tok
  <2>5. e \in CachedToken
    BY <2>2, <2>3 DEF PopupEntry, Entry, CachedToken, tok
  <2> HIDE DEF e
  <2> QED BY <1>0, <2>0, <2>1, <2>2, <2>3, <2>4, <2>5, PlacedKeepsPopups
<1>7. ASSUME NEW o \in PopupAsks, PopupBegan(o)
      PROVE  DOMAIN session'.cached = {}
  BY <1>7 DEF PopupBegan, NewSession
<1>8. CASE LoggedIn
  <2>1. DOMAIN session'.cached = {}
    BY <1>8 DEF LoggedIn, NewSession
  <2> QED BY <1>2, <2>1
<1>9. CASE Aged
  <2>1. session \in Session /\ PopupsFirst(session.cached)
    BY <1>0, <1>9 DEF Aged
  <2>2. /\ DOMAIN session'.cached = DOMAIN session.cached
        /\ \A i \in DOMAIN session.cached :
             LET a == session.cached[i]
                 b == session'.cached[i]
             IN  /\ b.aud = a.aud /\ b.requested = a.requested /\ b.tok.scope = a.tok.scope
                 /\ b.tok.popup = a.tok.popup /\ b.tok.asked = a.tok.asked
    BY <1>9 DEF Aged, Aging
  <2> QED BY <2>1, <2>2 DEF PopupsFirst, PopupAt
<1> QED BY <1>1, <1>2, <1>3, <1>4, <1>5, <1>6, <1>7, <1>8, <1>9 DEF SessionStep

\* The fewest scopes are the first found.
LEMMA BestFirst ==
  ASSUME NEW s \in Session, NEW M \in SUBSET (DOMAIN s.cached), NEW i \in M,
         \A j \in M : i <= j /\ s.cached[i].tok.scope \subseteq s.cached[j].tok.scope
  PROVE  Best(s, M) = {i}
<1> DEFINE Size(j) == Cardinality(s.cached[j].tok.scope)
<1>1. ASSUME NEW j \in M
      PROVE  j \in Nat /\ Size(j) \in Nat /\ Size(i) <= Size(j) /\ i <= j
  <2>1. IsFiniteSet(s.cached[j].tok.scope) /\ j \in Nat
    BY FS_Subset, SessionFields, AccessTokensAssumption DEF EntriesScoped
  <2> QED BY <2>1, FS_Subset, FS_CardinalityType
<1>2. Best(s, M) = {k \in M : \A j \in M : Size(k) < Size(j) \/ (Size(k) = Size(j) /\ k <= j)}
  BY DEF Best
<1> HIDE DEF Size
<1> QED BY <1>1, <1>2

\* And so found, since an entry with more scopes requested was granted no fewer.
LEMMA PopupFound ==
  ASSUME UsualCalls, session \in Session, SessionFits(session), PopupsFirst(session.cached),
         NEW i \in DOMAIN session.cached, session.cached[i].tok.popup,
         session.cached[i].aud # OrElse(session.aud, Default)
  PROVE  LET e == session.cached[i]
         IN  getTokenSetFromSession(session, e.aud, e.tok.asked).tok = e.tok
<1> DEFINE s == session
           e == s.cached[i]
           aud == e.aud
           asked == e.tok.asked
           M == {j \in DOMAIN s.cached :
                   s.cached[j].aud = aud /\ compareScopes(s.cached[j].requested, asked)}
<1>1. /\ aud \notin {NoAudience, Default} /\ e.requested = asked /\ asked # {}
      /\ e.tok.scope = asked \cap Allowed[aud]
      /\ \A j \in DOMAIN s.cached : j < i => s.cached[j].aud # aud
  BY DEF PopupsFirst, PopupAt
<1>2. i \in M /\ M \in SUBSET (DOMAIN s.cached)
  BY <1>1 DEF compareScopes
<1>3. ASSUME NEW j \in M
      PROVE  i <= j /\ e.tok.scope \subseteq s.cached[j].tok.scope
  <2>1. i \in Nat /\ j \in Nat
    BY SessionFields DEF EntriesScoped
  <2>2. i <= j
    BY <1>1, <2>1
  <2>3. asked \subseteq s.cached[j].requested
    BY DEF compareScopes
  <2>4. Serves(s.cached[j].tok, aud, s.cached[j].requested)
    BY <1>1 DEF SessionFits, EntryFits
  <2> QED BY <1>1, <2>2, <2>3, <2>4 DEF Serves
<1>4. Best(s, M) = {i}
  <2> HIDE DEF M
  <2> QED BY <1>2, <1>3, BestFirst
<1>5. FindRequested(s, aud, asked) = {i}
  BY <1>2, <1>4 DEF FindRequested
<1>6. (CHOOSE k \in {i} : TRUE) = i
  OBVIOUS
<1>7. getTokenSetFromSession(s, aud, asked) = TokenSet(e.aud, e.requested, e.tok, s.rt)
  BY <1>1, <1>5, <1>6 DEF getTokenSetFromSession
<1> QED BY <1>7 DEF TokenSet

\* While it is live, the token a popup brought is found by the call it was brought for
\* (PopupTokenFound): no second challenge.
THEOREM PopupTokensFound == ASSUME UsualCalls PROVE Spec => []PopupTokenFound
<1>1. Init => FitInv /\ PopupInv
  BY InitFits DEF Init, PopupInv
<1>2. TypeInv /\ FitInv /\ PopupInv /\ [Next]_vars => FitInv' /\ PopupInv'
  <2> SUFFICES ASSUME TypeInv, FitInv, PopupInv, [Next]_vars PROVE PopupInv'
    BY FitStep
  <2>1. CASE UNCHANGED vars
    BY <2>1 DEF vars, PopupInv
  <2>2. ASSUME NEW c \in Calls, End(c)
        PROVE  PopupInv'
    <3>1. session' = session
      BY <2>2, EndStep
    <3> QED BY <3>1 DEF PopupInv
  <2> QED BY <2>1, <2>2, StepCases, PopupStep
<1>3. TypeInv /\ FitInv /\ PopupInv => PopupTokenFound
  <2> SUFFICES ASSUME TypeInv, FitInv, PopupInv, session # NoSession,
                      NEW i \in DOMAIN session.cached, session.cached[i].tok.popup,
                      session.cached[i].aud # OrElse(session.aud, Default)
               PROVE  getTokenSetFromSession(session, session.cached[i].aud,
                        session.cached[i].tok.asked).tok = session.cached[i].tok
    BY DEF PopupTokenFound
  <2>1. session \in Session /\ SessionFits(session) /\ PopupsFirst(session.cached)
    BY DEF TypeInv, FitInv, PopupInv
  <2> QED BY <2>1, PopupFound
<1> QED BY <1>1, <1>2, <1>3, TypeInvariant, PTL DEF Spec
=============================================================================
