---------------------------- MODULE GrantAnswers ----------------------------
(***************************************************************************)
(* How the outcome of a token grant travels to the page that asked for it: *)
(* a method of the server turns it into an error of the SDK, the route     *)
(* handler turns that into a response, and the method the page called      *)
(* turns the response into what its caller gets.  An error is abstracted   *)
(* to its code and to whether it is an MfaRequiredError ("mfa"), of the    *)
(* class the route knows ("own") or of another class of the SDK ("other"); *)
(* a response to its status, its code and whether it holds an encrypted    *)
(* MFA token.                                                              *)
(***************************************************************************)
EXTENDS Naturals

\* What the token endpoint says, or that it or its metadata were not reached;
\* "denied" is said with a status of 500, by an Action.
Outcomes == {"tokens", "no_id_token", "mfa_required", "mfa_without_token",
             "claim_mismatch", "refused", "denied", "unreachable", "undiscovered"}

NoError    == [class |-> "none", code |-> "none", token |-> FALSE]
Own(code)  == [class |-> "own", code |-> code, token |-> FALSE]
Other(code) == [class |-> "other", code |-> code, token |-> FALSE]
MfaRequiredError(token) == [class |-> "mfa", code |-> "mfa_required", token |-> token]

-----------------------------------------------------------------------------
(* The methods of the server.                                              *)

\* The code of the answer, if there was one and it has one.
extractOAuthErrorDetails(o) ==
    CASE o = "refused" -> {"invalid_grant"}
      [] o = "denied"  -> {"access_denied"}
      [] OTHER         -> {}

Refusal(o) ==
    Own(IF extractOAuthErrorDetails(o) = {} THEN "unknown_error"
        ELSE CHOOSE code \in extractOAuthErrorDetails(o) : TRUE)

isMfaRequiredError(o) == o \in {"mfa_required", "mfa_without_token"}

\* The MFA token in the answer, if there is one.
extractMfaErrorDetails(o) == IF o = "mfa_required" THEN {"mfa_token"} ELSE {}

throwIfMfaRequired(o) == isMfaRequiredError(o) /\ extractMfaErrorDetails(o) # {}

\* The three credential grants agree on all but the missing ID token.
CredentialGrant(o) ==
    CASE o = "undiscovered"      -> Own("discovery_error")
      [] o = "claim_mismatch"    -> Own("invalid_issuer")
      [] throwIfMfaRequired(o)   -> MfaRequiredError(TRUE)
      [] isMfaRequiredError(o) /\ ~throwIfMfaRequired(o) -> Own("mfa_required")
      [] o \in {"refused", "denied", "unreachable"} -> Refusal(o)
      [] OTHER                   -> NoError

passkeyGetToken(o) ==
    IF o = "no_id_token" THEN Own("missing_id_token") ELSE CredentialGrant(o)

\* The ID token is missed when the session is made from the tokens.
passwordlessVerify(o) ==
    IF o = "no_id_token" THEN Own("missing_id_token") ELSE CredentialGrant(o)

\* By the same code, so the error is not of this route's class.
passwordlessDbGetToken(o) ==
    IF o = "no_id_token" THEN Other("missing_id_token") ELSE CredentialGrant(o)

\* The encrypted MFA token has a lifetime, and may be of another secret.
decryptMfaToken(o) ==
    CASE o = "expired" -> Own("mfa_token_expired")
      [] o = "invalid" -> Own("mfa_token_invalid")
      [] OTHER         -> NoError

\* The fields of a verification that are used: the first credential that is complete.
buildVerifyParams(fields) ==
    IF "otp" \in fields THEN {"otp"}
    ELSE IF {"oob_code", "binding_code"} \subseteq fields THEN {"oob_code", "binding_code"}
    ELSE fields \cap {"recovery_code"}

\* The grant that goes with them, if there is one.
getVerifyGrantType(params) ==
    {g \in {"mfa-otp", "mfa-oob", "mfa-recovery-code"} :
        \/ g = "mfa-otp" /\ "otp" \in params
        \/ g = "mfa-oob" /\ {"oob_code", "binding_code"} \subseteq params
        \/ g = "mfa-recovery-code" /\ "recovery_code" \in params}

\* A chained verification has a new token encrypted, if there is one or not;
\* claims of the ID token are not told apart.
mfaVerify(o, fields) ==
    CASE decryptMfaToken(o) # NoError -> decryptMfaToken(o)
      [] o = "undiscovered"   -> Own("discovery_error")
      [] getVerifyGrantType(buildVerifyParams(fields)) = {} -> Own("invalid_request")
      [] o \in {"mfa_required", "mfa_without_token"} -> MfaRequiredError(TRUE)
      [] o \in {"refused", "denied", "unreachable", "claim_mismatch"} -> Refusal(o)
      [] OTHER                -> NoError

refreshTokenSet(o) ==
    CASE isMfaRequiredError(o)   -> MfaRequiredError(extractMfaErrorDetails(o) # {})
      [] o = "undiscovered"      -> Own("discovery_error")
      [] o \in {"refused", "denied", "unreachable", "claim_mismatch"} -> Own("failed_to_refresh_token")
      [] OTHER                   -> NoError

\* Whatever went wrong with its token is one error.
passkeyEnrollmentChallenge(o) ==
    IF refreshTokenSet(o) = NoError THEN NoError ELSE Own("token_error")

-----------------------------------------------------------------------------
(* The route handlers.                                                     *)
Answer(status, e) == [status |-> status, error |-> e.code, token |-> e.token]

Success == Answer(200, NoError)

\* Mutant: the route's own class is looked for first, and mfa_required is one.
HandledOwnFirst(e, status) ==
    IF e = NoError THEN Success
    ELSE IF e.class = "mfa" THEN Answer(status, Own("mfa_verification_required"))
    ELSE Answer(status, e)

\* MfaRequiredError is answered with its token, errors of the server itself
\* without their code, and the route's own errors with the route's status.
Handled(e, status) ==
    CASE e = NoError      -> Success
      [] e.class = "mfa"  -> Answer(403, e)
      [] e.class = "own" /\ e.code \in {"discovery_error", "unexpected_error"}
                          -> Answer(500, Own("server_error"))
      [] e.class = "own" /\ e.code \notin {"discovery_error", "unexpected_error"}
                          -> Answer(status, e)
      [] OTHER            -> Answer(400, e)

handlePasskeyGetToken(e)        == Handled(e, 403)
handlePasswordlessVerify(e)     == Handled(e, 403)
handlePasswordlessDbGetToken(e) == Handled(e, 400)

\* The class of a failed enrolment is not in its list.
getMfaErrorStatusCode(e) ==
    CASE e.code \in {"mfa_token_expired", "mfa_token_invalid"} -> 401
      [] e.class = "mfa"   -> 403
      [] e.class = "other" -> 500
      [] OTHER             -> 400

handleMfaError(e) ==
    IF e = NoError THEN Success ELSE Answer(getMfaErrorStatusCode(e), e)

handleAccessToken(e) ==
    IF e = NoError THEN Success
    ELSE Answer(IF e.class = "mfa" THEN 403 ELSE 401, e)

handlePasskeyEnrollmentChallenge(e) ==
    IF e.code = "token_error" THEN Answer(401, e) ELSE Handled(e, 400)

-----------------------------------------------------------------------------
(* What the page gets: "done", "mfa" with a token to go on with, "expired" *)
(* if the one it has is, or "failed".                                      *)
Reported(a) ==
    CASE a.status = 200                       -> "done"
      [] a.error = "mfa_required" /\ a.token  -> "mfa"
      [] a.error = "mfa_token_expired"        -> "expired"
      [] OTHER                                -> "failed"

\* passkey, passwordless and mfa read the code; getAccessToken the status too.
_verify(a)        == Reported(a)
verify(a)         == Reported(a)
loginWithOtp(a)   == Reported(a)
parseError(a)     == Reported(a)
enrollmentChallenge(a) == Reported(a)
getAccessToken(a) ==
    IF a.status \in {200, 403} THEN Reported(a) ELSE "failed"
=============================================================================
