---------------------------- MODULE GrantRetries ----------------------------
(***************************************************************************)
(* One grant at the token endpoint: what the authorization server says to  *)
(* each request, and withDPoPNonceRetry(), which sends a request again if  *)
(* its proof lacked the nonce the server demands.  There are two ways it   *)
(* is used: around the request only, which gets to see the response, and   *)
(* around the request and the processing of its response, which gets to    *)
(* see an exception.                                                       *)
(*                                                                         *)
(* The server and the APIs demand one nonce at a time, or none, and change *)
(* it when they like.  The server rotates refresh tokens: `current` is the *)
(* version of the one it takes.                                            *)
(*                                                                         *)
(* Bound: MaxRotations, how often a refresh token is rotated or revoked.   *)
(***************************************************************************)
EXTENDS Naturals

CONSTANTS Modes, NonceValues, NoNonce, MaxRotations, NoGrant

ASSUME GrantRetriesAssumption ==
    /\ Modes \subseteq {"off", "on", "without_keys"} /\ Modes # {}
    /\ NoNonce \notin NonceValues /\ NonceValues # {}
    /\ MaxRotations \in Nat \ {0}

VARIABLES
    dpop,      \* useDPoP, and whether a key pair was found and is a pair
    nonce,     \* the nonce that the authorization server and the APIs demand
    current,   \* the version of the refresh token the server takes
    grant      \* the grant in progress

grantVars == <<dpop, nonce, current, grant>>

OnResponse   == {"code", "transfer"}
OnError      == {"refresh", "connection", "exchange", "mfa", "passkey",
                 "passwordless", "otp"}
WithoutProof == {"ciba", "revoke"}
GrantKinds   == OnResponse \cup OnError \cup WithoutProof

\* Credentials the server takes once.
OneTime == {"code", "mfa", "passkey", "passwordless", "otp", "refresh", "revoke"}

MaybeNonce == NonceValues \cup {NoNonce}

Replies == {"nonce", "unreachable", "refused", "mfa_required", "tokens", "lost"}

Grant == [kind : GrantKinds, rt : 0..MaxRotations + 1, proof : BOOLEAN,
          handle : MaybeNonce, tries : 0..2, reply : Replies \cup {"none"},
          spent : BOOLEAN,
          outcome : {"none", "tokens", "refused", "mfa_required", "nonce", "failed"}]

ASSUME NoGrantAssumption == NoGrant \notin Grant

\* What is signed with the one can be verified with the other.
validateKeyPairCompatibility(keys) == keys = "pair"

\* Whether useDPoP is set, and what of a key pair there is.
validateDpopConfiguration(useDPoP, keys) ==
    CASE ~useDPoP                                             -> "off"
      [] useDPoP /\ keys # "none" /\ validateKeyPairCompatibility(keys) -> "on"
      [] OTHER                                                -> "without_keys"

GrantInit ==
    /\ \E useDPoP \in BOOLEAN, keys \in {"pair", "not_a_pair", "none"} :
         dpop = validateDpopConfiguration(useDPoP, keys)
    /\ dpop \in Modes
    /\ nonce \in MaybeNonce
    /\ current = 1
    /\ grant = NoGrant

\* A grant has a handle for proofs of its own, which knows no nonce yet; proofs
\* are left out without a key pair.
NewGrant(kind, rt) ==
    [kind |-> kind, rt |-> rt, proof |-> dpop = "on" /\ kind \notin WithoutProof,
     handle |-> NoNonce, tries |-> 0, reply |-> "none", spent |-> FALSE,
     outcome |-> "none"]

-----------------------------------------------------------------------------
(* What the server may say to a request.  An answer that is lost was given *)
(* to a request that was accepted.                                         *)
Answers(g) ==
    IF g.proof /\ nonce \notin {NoNonce, g.handle} THEN {"nonce", "unreachable"}
    ELSE {"refused", "unreachable"} \cup
         (IF g.kind \in {"refresh", "mfa", "passkey", "passwordless", "otp"}
            THEN {"mfa_required"} ELSE {}) \cup
         (IF \/ g.kind \in OneTime /\ g.spent
             \/ g.kind \in {"refresh", "connection", "revoke"} /\ g.rt # current
             \/ g.kind \in {"refresh", "revoke"} /\ current > MaxRotations
            THEN {} ELSE {"tokens", "lost"})

Accepted == {"tokens", "lost"}

\* The handle keeps the nonce of whatever response it gets.
Answered(g, r) ==
    [g EXCEPT !.reply = r, !.tries = @ + 1, !.spent = @ \/ r \in Accepted,
              !.handle = IF r \in {"unreachable", "lost"} \/ nonce = NoNonce THEN @ ELSE nonce]

\* What the caller is told of an answer.
Reported(reply) == IF reply \in {"unreachable", "lost"} THEN "failed" ELSE reply

\* Mutant: whatever went wrong, the request is sent again.
RetriedOnAnyError(g) == g.proof /\ g.tries = 1 /\ g.reply # "tokens"

\* Mutant: as often as a nonce is demanded.
RetriedWithoutLimit(g) == g.proof /\ g.reply = "nonce"

Retried(g) == g.proof /\ g.tries = 1 /\ g.reply = "nonce"

\* Around the request only, the `catch` meant for a body that is not JSON takes
\* the failure of the second request, and the first response is returned.
Result(g) ==
    IF g.kind \in OnResponse /\ g.tries = 2 /\ Reported(g.reply) = "failed"
      THEN "nonce"
      ELSE Reported(g.reply)

\* A request is sent, and its answer taken: the outcome, or it is sent again.
withDPoPNonceRetry ==
    /\ grant # NoGrant /\ grant.outcome = "none"
    /\ \E r \in Answers(grant) :
         LET g == Answered(grant, r)
         IN  /\ grant' = IF Retried(g) THEN g ELSE [g EXCEPT !.outcome = Result(g)]
             /\ current' = IF r \in Accepted /\ g.kind \in {"refresh", "revoke"}
                             THEN current + 1 ELSE current
    /\ UNCHANGED <<dpop, nonce>>

\* The server, and the APIs, demand another nonce, or none.
NextNonce ==
    /\ nonce' \in MaybeNonce \ {nonce}
    /\ UNCHANGED <<dpop, current, grant>>

GrantTypeOK ==
    /\ dpop \in Modes
    /\ nonce \in MaybeNonce
    /\ current \in 1..MaxRotations + 1
    /\ grant \in Grant \cup {NoGrant}
=============================================================================
