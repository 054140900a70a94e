-------------------------- MODULE SessionLifetime --------------------------
(***************************************************************************)
(* How long one session lasts: the lifetime calculateMaxAge gives a cookie *)
(* at every save, the tolerance with which a cookie is decrypted, and the  *)
(* ceiling the upstream identity provider puts on the session.  Time is    *)
(* the browser's; the servers that handle requests have clocks of their    *)
(* own, each off by a few seconds.  What else a session holds, and where   *)
(* it is kept, is left out.                                                *)
(*                                                                         *)
(* Bounds: Horizon ends a behaviour, Latency is the longest a request      *)
(* takes.  No theorem depends on how large they are.                       *)
(***************************************************************************)
EXTENDS Integers

CONSTANTS
    Requests,             \* slots for requests in progress together
    Rolling,              \* sessions are rolling
    absoluteDuration, inactivityDuration,
    Tolerance,            \* clockTolerance of decrypt()
    Leeway,               \* SESSION_EXPIRY_LEEWAY_SECONDS
    EpochLimit,           \* 2^31: epoch() is a 32 bit integer
    Ceilings,             \* session_expiry claims; 0 is none
    Skews, MaxSkew,       \* how far the clocks of the servers are off
    Latency, Horizon

ASSUME DurationsAssumption ==
    /\ Rolling \in BOOLEAN
    /\ {absoluteDuration, inactivityDuration} \subseteq Nat \ {0}
    /\ {Tolerance, Leeway, MaxSkew, Latency, Horizon} \subseteq Nat
    /\ EpochLimit \in Nat \ {0}
    /\ Ceilings \subseteq Nat

ASSUME SkewAssumption ==
    /\ Skews \subseteq -MaxSkew .. MaxSkew
    /\ MaxSkew <= Leeway

VARIABLES
    now,      \* the time
    cookie,   \* the session cookie the browser was last given
    req,      \* the requests in progress
    active    \* the latest save whose response reached the browser (history)

vars == <<now, cookie, req, active>>

Kinds == {"login", "touch", "token", "connection"}

\* A session as far as it matters here.
Sessions == [createdAt : Int, ceiling : Nat]
NoSession == [createdAt |-> 0, ceiling |-> 0]

\* A cookie expires by its encrypted `exp`, and in the browser at `until`;
\* `savedAt` is when it was made (history).
NoCookie == [session |-> NoSession, exp |-> 0, until |-> 0, savedAt |-> 0]

\* `readAt` is when the request read its session, and `since` when the cookie
\* it read had been saved (history).
Idle == [pc |-> "idle", kind |-> "touch", skew |-> 0, session |-> NoSession,
         exp |-> 0, maxAge |-> 0, savedAt |-> 0, readAt |-> 0, since |-> 0]

\* A request at work on session x, and the same with a cookie for it made at t.
Working(k, s, x, time, since) ==
    [pc |-> "save", kind |-> k, skew |-> s, session |-> x, exp |-> 0,
     maxAge |-> 0, savedAt |-> 0, readAt |-> time, since |-> since]
Responding(x, t, age) ==
    [pc |-> "respond", kind |-> x.kind, skew |-> x.skew, session |-> x.session,
     exp |-> t + age, maxAge |-> age, savedAt |-> now, readAt |-> x.readAt,
     since |-> x.since]

Clock(r) == now + req[r].skew

\* (Date.now() / 1000) | 0
epoch(t) == IF t < EpochLimit THEN t ELSE t - 2 * EpochLimit

Least(a, b) == IF a < b THEN a ELSE b

\* Mutant: the absolute duration is forgotten.
MaxAgeInactivityOnly(t, createdAt) == inactivityDuration

\* Mutant: inactivity counts from the login.
MaxAgeFromLogin(t, createdAt) ==
    LET left == Least(createdAt + inactivityDuration,
                      createdAt + absoluteDuration) - t
    IN  IF left > 0 THEN left ELSE 0

\* Mutant: inactivity is forgotten.
MaxAgeAbsoluteOnly(t, createdAt) ==
    LET left == createdAt + absoluteDuration - t
    IN  IF left > 0 THEN left ELSE 0

\* Mutant: the age may be negative.
MaxAgeUnchecked(t, createdAt) ==
    Least(t + inactivityDuration, createdAt + absoluteDuration) - t

\* How long the cookie of a session saved at t is to live.
calculateMaxAge(t, createdAt) ==
    IF ~Rolling THEN absoluteDuration
    ELSE LET left == Least(t + inactivityDuration,
                           createdAt + absoluteDuration) - t
         IN  IF left > 0 THEN left ELSE 0

\* Mutant: the leeway has the wrong sign.
CeilingReachedLate(t, s) == s.ceiling > 0 /\ t >= s.ceiling + Leeway

isSessionCeilingReached(t, s) == s.ceiling > 0 /\ t >= s.ceiling - Leeway

\* iat is the time at the identity provider.
isSessionCeilingInPast(ceiling, iat) ==
    ceiling > 0 /\ ceiling <= iat + Leeway

\* decrypt() on a server whose clock shows t.
Decrypts(c, t) == t < c.exp + Tolerance

Presented == now < cookie.until

-----------------------------------------------------------------------------
(* A callback has accepted a login and is about to save its session.       *)
Init ==
    /\ now = 0
    /\ cookie = NoCookie
    /\ active = 0
    /\ \E r \in Requests, s \in Skews, c \in Ceilings :
         /\ ~isSessionCeilingInPast(c, now)
         /\ req = [q \in Requests |->
              IF q = r
                THEN Working("login", s, [createdAt |-> now + s, ceiling |-> c],
                             now, 0)
                ELSE Idle]

(* The session is read on behalf of a request.  Only rolling sessions are  *)
(* touched; a token for a connection is given out above the ceiling too.   *)
Read(r, k, s) ==
    /\ req[r].pc = "idle"
    /\ k # "login"
    /\ k = "touch" => Rolling
    /\ Presented
    /\ Decrypts(cookie, now + s)
    /\ k # "connection" => ~isSessionCeilingReached(now + s, cookie.session)
    /\ req' = [req EXCEPT ![r] =
                 Working(k, s, cookie.session, now, cookie.savedAt)]
    /\ UNCHANGED <<now, cookie, active>>

(* set(): the lifetime is computed and the cookie made.                    *)
Save(r) ==
    LET t   == epoch(Clock(r))
        age == calculateMaxAge(t, req[r].session.createdAt)
    IN  /\ req[r].pc = "save"
        /\ req' = [req EXCEPT ![r] = Responding(req[r], t, age)]
        /\ UNCHANGED <<now, cookie, active>>

(* The response reaches the browser, which counts maxAge from now.         *)
Respond(r) ==
    /\ req[r].pc = "respond"
    /\ cookie' = [session |-> req[r].session, exp |-> req[r].exp,
                  until |-> now + req[r].maxAge, savedAt |-> req[r].savedAt]
    /\ active' = IF req[r].savedAt > active THEN req[r].savedAt ELSE active
    /\ req' = [req EXCEPT ![r] = Idle]
    /\ UNCHANGED now

(* The handler saves nothing, fails, or its response is lost.              *)
Leave(r) ==
    /\ req[r].pc # "idle"
    /\ req' = [req EXCEPT ![r] = Idle]
    /\ UNCHANGED <<now, cookie, active>>

(* A second passes, unless a request has taken all the time it may take.   *)
Tick ==
    /\ now < Horizon
    /\ \A r \in Requests : req[r].pc # "idle" => now < req[r].readAt + Latency
    /\ now' = now + 1
    /\ UNCHANGED <<cookie, req, active>>

Next ==
    \/ \E r \in Requests :
         \/ \E k \in Kinds, s \in Skews : Read(r, k, s)
         \/ Save(r) \/ Respond(r) \/ Leave(r)
    \/ Tick

Spec == Init /\ [][Next]_vars

-----------------------------------------------------------------------------
TypeOK ==
    /\ now \in Nat /\ active \in Nat
    /\ cookie \in [session : Sessions, exp : Int, until : Nat, savedAt : Nat]
    /\ req \in [Requests ->
                  [pc : {"idle", "save", "respond"}, kind : Kinds, skew : Int,
                   session : Sessions, exp : Int, maxAge : Nat,
                   savedAt : Nat, readAt : Nat, since : Nat]]

\* r works with a session that it read.
Works(r) == req[r].pc # "idle" /\ req[r].kind # "login"

(* No request works with a session it read more than the tolerance after   *)
(* the absolute duration, give or take the servers' clocks, however often  *)
(* and however late the session was saved (abstract-session-store.ts:238). *)
AbsoluteBound ==
    \A r \in Requests : Works(r) =>
        req[r].readAt < req[r].session.createdAt + absoluteDuration
                          + Tolerance + MaxSkew

(* No request works with a session that nothing had saved for longer than  *)
(* the inactivity duration, give or take tolerance and clocks.             *)
InactivityBound ==
    \A r \in Requests : Works(r) =>
        req[r].readAt < req[r].since + inactivityDuration + Tolerance
                          + 2 * MaxSkew

(* While no clock is off by more than the leeway, no request other than    *)
(* for a connection token works with a session it read at or after the     *)
(* ceiling ("never after", session-helpers.ts:10-12).                      *)
CeilingHeld ==
    \A r \in Requests :
        Works(r) /\ req[r].kind # "connection" /\ req[r].session.ceiling > 0
            => req[r].readAt < req[r].session.ceiling

(* Each request extends the session by the inactivity duration: until then *)
(* or until the absolute duration every server still accepts the cookie,   *)
(* even when a slow response to an earlier request replaces a newer        *)
(* cookie; only the latency of that request and the clocks count against   *)
(* it.  Once epoch() wraps this no longer holds, and nothing is promised.  *)
ActivityKeepsSession ==
    cookie # NoCookie
      /\ now + MaxSkew < EpochLimit
      /\ now + Latency + 2 * MaxSkew <
           Least(active + inactivityDuration,
                 cookie.session.createdAt + absoluteDuration)
    => Presented /\ \A s \in Skews : Decrypts(cookie, now + s)
=============================================================================
