------------------------------ MODULE PageCalls ------------------------------
(***************************************************************************)
(* The calls a page or a Server Action makes to sign in, to verify a       *)
(* second factor and to enrol a passkey: requests for a challenge, which   *)
(* leave everything as it was, and the grants of GrantAnswers.  A page     *)
(* gets what the route answers; a Server Action gets what the method       *)
(* throws.                                                                 *)
(***************************************************************************)
EXTENDS GrantAnswers

\* What becomes of a request for a challenge.  It is "malformed" if a field is
\* missing, and "cancelled" if the browser makes no credential of its answer.
Replies == {"sent", "refused", "unreachable", "expired", "invalid", "no_factor",
            "malformed", "cancelled"}

Methods == {"signup", "login", "passwordless", "otp"}
Factors == {"authenticators", "challenge", "associate"}
Callers == {"page", "action"}

\* What is to be enrolled: a factor by its name, with a phone number or without, or
\* a type of authenticator, and if the channels of an "oob" one are named.
EnrollOptions ==
    [factor : {"otp", "sms", "voice", "email", "push", "other"}, phone : BOOLEAN]
      \cup [type : {"oob", "otp", "other"}, channels : BOOLEAN]

\* The credentials presented for a factor, by their fields.
VerifyOptions == SUBSET {"otp", "oob_code", "binding_code", "recovery_code"}

\* InvalidRequestError, which no route tells from other errors of the SDK.
InvalidRequest == [class |-> "sdk", code |-> "invalid_request", token |-> FALSE]

-----------------------------------------------------------------------------
(* What page and server both make of the options.                          *)
FACTOR_MAPPING ==
    [f \in {"otp", "sms", "voice", "email", "push"} |->
       [type |-> IF f = "otp" THEN "otp" ELSE "oob", channels |-> f # "otp"]]

\* A factor nobody knows, or one of a phone without its number.
UnknownFactor(opts) ==
    /\ "factor" \in DOMAIN opts
    /\ \/ opts.factor \notin DOMAIN FACTOR_MAPPING
       \/ opts.factor \in {"sms", "voice"} /\ ~opts.phone

normalizeEnrollOptions(opts) ==
    IF "factor" \in DOMAIN opts THEN FACTOR_MAPPING[opts.factor] ELSE opts

-----------------------------------------------------------------------------
(* The methods of the server, given that the request is well-formed.       *)
Requested(o) ==
    CASE o = "refused"     -> Own("invalid_request")
      [] o = "unreachable" -> Own("unexpected_error")
      [] OTHER             -> NoError

passkeyRegister(o)            == Requested(o)
passkeyChallenge(o)           == Requested(o)
passwordlessStart(o)          == Requested(o)
passwordlessDbOtpChallenge(o) == Requested(o)

\* The MFA token is decrypted first.
WithMfaToken(o, e) == IF decryptMfaToken(o) # NoError THEN decryptMfaToken(o) ELSE e

mfaGetAuthenticators(o) == WithMfaToken(o, Requested(o))

\* Some other type of challenge is required.
mfaChallenge(o) ==
    WithMfaToken(o, IF o = "no_factor" THEN Own("mfa_no_available_factors") ELSE Requested(o))

mfaAssociate(o) ==
    WithMfaToken(o, IF Requested(o) = NoError THEN NoError ELSE Other(Requested(o).code))

\* As for the challenge, whatever went wrong with its token is one error.
passkeyEnrollmentVerify(o) ==
    IF refreshTokenSet(o) = NoError THEN NoError ELSE Own("token_error")

-----------------------------------------------------------------------------
(* The route handlers.  Handled() answers errors of the server itself, and *)
(* of requests that were not well-formed.                                  *)
Parsed(o, e) == IF o = "malformed" THEN InvalidRequest ELSE e

handlePasskeyRegister(o)            == Handled(Parsed(o, passkeyRegister(o)), 400)
handlePasskeyChallenge(o)           == Handled(Parsed(o, passkeyChallenge(o)), 400)
handlePasswordlessStart(o)          == Handled(Parsed(o, passwordlessStart(o)), 400)
handlePasswordlessDbOtpChallenge(o) == Handled(Parsed(o, passwordlessDbOtpChallenge(o)), 400)

handleGetAuthenticators(o) == handleMfaError(Parsed(o, mfaGetAuthenticators(o)))
handleChallenge(o)         == handleMfaError(Parsed(o, mfaChallenge(o)))

\* The options of an enrolment, if it can be asked for.
buildEnrollOptions(body) ==
    {t \in {"oob", "otp"} : t = body.type /\ (t = "oob" => body.channels)}

OptionsOf(o) ==
    {opts \in EnrollOptions :
        UnknownFactor(opts) \/ buildEnrollOptions(normalizeEnrollOptions(opts)) = {}
          => o = "malformed"}

handleAssociate(o, body) ==
    handleMfaError(IF buildEnrollOptions(body) = {} THEN InvalidRequest
                   ELSE Parsed(o, mfaAssociate(o)))

\* The credential the method is given, the first that is complete.
transformVerifyBodyToOptions(body) == buildVerifyParams(body)

handleVerify(o, body) ==
    handleMfaError(IF transformVerifyBodyToOptions(body) = {} THEN InvalidRequest
                   ELSE mfaVerify(o, transformVerifyBodyToOptions(body)))

\* The credentials of a verification of which that becomes.
CredentialsOf(o) ==
    {fields \in VerifyOptions :
        getVerifyGrantType(buildVerifyParams(fields)) = {} <=> o = "malformed"}

handlePasskeyEnrollmentVerify(e) ==
    IF e.code = "token_error" THEN Answer(401, e) ELSE Handled(e, 400)

-----------------------------------------------------------------------------
(* The methods of the page.  The browser's part follows the challenge.     *)
WithCredential(o, a) == IF o = "cancelled" THEN "failed" ELSE Reported(a)

signup(o)            == WithCredential(o, handlePasskeyRegister(o))
login(o)             == WithCredential(o, handlePasskeyChallenge(o))
start(o)             == Reported(handlePasswordlessStart(o))
sendChallenge(o)     == Reported(handlePasswordlessDbOtpChallenge(o))
getAuthenticators(o) == parseError(handleGetAuthenticators(o))
challenge(o)         == parseError(handleChallenge(o))
enroll(o, opts) ==
    IF UnknownFactor(opts) THEN "failed"
    ELSE parseError(handleAssociate(o, normalizeEnrollOptions(opts)))
verifyFactor(o, fields) == parseError(handleVerify(o, fields))
enrollmentVerify(a)  == Reported(a)

(* The methods of a Server Action.                                         *)
Thrown(e) ==
    CASE e = NoError                     -> "done"
      [] e.class = "mfa" /\ e.token      -> "mfa"
      [] e.code = "mfa_token_expired"    -> "expired"
      [] OTHER                           -> "failed"

ServerPasskeyClient(e)      == Thrown(e)
ServerPasswordlessClient(e) == Thrown(e)
ServerMfaClient(e)          == Thrown(e)

\* The errors a popup posts.  For a second factor there is no token to go on with.
PopupErrors == {"mfa_required", "access_denied", "callback_error"}

parsePopupError(code) ==
    Thrown(IF code = "mfa_required" THEN MfaRequiredError(FALSE) ELSE Other(code))

-----------------------------------------------------------------------------
(* What each call comes to.                                                *)
Challenged(m, via, o) ==
    IF via = "page"
      THEN CASE m = "signup"       -> signup(o)
             [] m = "login"        -> login(o)
             [] m = "passwordless" -> start(o)
             [] m = "otp"          -> sendChallenge(o)
      ELSE CASE m = "signup"       -> ServerPasskeyClient(passkeyRegister(o))
             [] m = "login"        -> ServerPasskeyClient(passkeyChallenge(o))
             [] m = "passwordless" -> ServerPasswordlessClient(passwordlessStart(o))
             [] m = "otp"          -> ServerPasswordlessClient(passwordlessDbOtpChallenge(o))

SignedIn(m, via, o) ==
    IF via = "page"
      THEN CASE m \in {"signup", "login"} -> _verify(handlePasskeyGetToken(passkeyGetToken(o)))
             [] m = "passwordless" -> verify(handlePasswordlessVerify(passwordlessVerify(o)))
             [] m = "otp" -> loginWithOtp(handlePasswordlessDbGetToken(passwordlessDbGetToken(o)))
      ELSE CASE m \in {"signup", "login"} -> ServerPasskeyClient(passkeyGetToken(o))
             [] m = "passwordless" -> ServerPasswordlessClient(passwordlessVerify(o))
             [] m = "otp"          -> ServerPasswordlessClient(passwordlessDbGetToken(o))

SecondFactor(f, via, o, opts) ==
    IF via = "page"
      THEN CASE f = "authenticators" -> getAuthenticators(o)
             [] f = "challenge"      -> challenge(o)
             [] f = "associate"      -> enroll(o, opts)
      ELSE CASE f = "authenticators" -> ServerMfaClient(mfaGetAuthenticators(o))
             [] f = "challenge"      -> ServerMfaClient(mfaChallenge(o))
             [] f = "associate"      -> IF UnknownFactor(opts) THEN "failed"
                                        ELSE ServerMfaClient(mfaAssociate(o))

Verified(via, o, fields) ==
    IF via = "page" THEN verifyFactor(o, fields) ELSE ServerMfaClient(mfaVerify(o, fields))

Retrieved(o) == getAccessToken(handleAccessToken(refreshTokenSet(o)))

\* Of the challenge and of its verification.
Enrolled(o) ==
    {enrollmentChallenge(handlePasskeyEnrollmentChallenge(passkeyEnrollmentChallenge(o))),
     enrollmentVerify(handlePasskeyEnrollmentVerify(passkeyEnrollmentVerify(o))),
     ServerPasskeyClient(passkeyEnrollmentChallenge(o)),
     ServerPasskeyClient(passkeyEnrollmentVerify(o))}
=============================================================================
