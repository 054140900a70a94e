----------------------- MODULE SessionLifetime_proofs -----------------------
(***************************************************************************)
(* Theorems about SessionLifetime, for all durations, tolerances, clocks   *)
(* and ceilings.  Those about the absolute and the inactivity duration     *)
(* assume Rolling: without rolling sessions neither holds.                 *)
(***************************************************************************)
EXTENDS SessionLifetime, TLAPS

LEMMA EpochBounds ==
  ASSUME NEW t \in Int
  PROVE  /\ epoch(t) \in Int
         /\ epoch(t) <= t
         /\ t < EpochLimit => epoch(t) = t
  BY DurationsAssumption DEF epoch

\* What calculateMaxAge returns lies between its two limits.
LEMMA AgeBounds ==
  ASSUME NEW t \in Int, NEW c \in Int
  PROVE  /\ calculateMaxAge(t, c) \in Nat
         /\ Rolling =>
              /\ calculateMaxAge(t, c) <= inactivityDuration
              /\ calculateMaxAge(t, c) > 0
                   => t + calculateMaxAge(t, c) <= c + absoluteDuration
              /\ t + calculateMaxAge(t, c)
                   >= Least(t + inactivityDuration, c + absoluteDuration)
  BY DurationsAssumption DEF calculateMaxAge, Least

Request == [pc : {"idle", "save", "respond"}, kind : Kinds, skew : Int,
            session : Sessions, exp : Int, maxAge : Nat,
            savedAt : Nat, readAt : Nat, since : Nat]

\* What a Read puts in the place of the request.
Reading(k, s) == Working(k, s, cookie.session, now, cookie.savedAt)

LEMMA IdleType == Idle \in Request
  BY DEF Idle, Request, Kinds, Sessions, NoSession

LEMMA WorkingType ==
  ASSUME NEW k \in Kinds, NEW s \in Int, NEW x \in Sessions,
         NEW time \in Nat, NEW since \in Nat
  PROVE  Working(k, s, x, time, since) \in Request
  BY DEF Working, Request

LEMMA RespondingType ==
  ASSUME NEW x \in Request, now \in Nat, NEW t \in Int, NEW age \in Nat
  PROVE  Responding(x, t, age) \in Request
<1>1. x.kind \in Kinds /\ x.skew \in Int /\ x.session \in Sessions
        /\ x.readAt \in Nat /\ x.since \in Nat
  BY DEF Request
<1> QED BY <1>1 DEF Responding, Request

(* Every variable keeps its type; in particular no cookie is given a       *)
(* negative lifetime.                                                      *)
LEMMA TypeInit == Init => TypeOK
<1> SUFFICES ASSUME Init PROVE TypeOK
  OBVIOUS
<1>1. PICK r \in Requests, s \in Skews, c \in Ceilings :
        req = [q \in Requests |->
                 IF q = r
                   THEN Working("login", s, [createdAt |-> now + s, ceiling |-> c],
                                now, 0)
                   ELSE Idle]
  BY DEF Init
<1>2. s \in Int /\ c \in Nat /\ now = 0
  BY SkewAssumption, DurationsAssumption DEF Init
<1>4. Working("login", s, [createdAt |-> now + s, ceiling |-> c], now, 0) \in Request
  BY <1>2, WorkingType DEF Kinds, Sessions
<1>5. req \in [Requests -> Request]
  BY <1>1, <1>4, IdleType
<1> QED BY <1>2, <1>5 DEF Init, TypeOK, NoCookie, Sessions, NoSession, Request

LEMMA TypeNext == TypeOK /\ [Next]_vars => TypeOK'
<1> SUFFICES ASSUME TypeOK, [Next]_vars PROVE TypeOK'
  OBVIOUS
<1>0. /\ req \in [Requests -> Request] /\ now \in Nat /\ active \in Nat
      /\ cookie \in [session : Sessions, exp : Int, until : Nat, savedAt : Nat]
  BY DEF TypeOK, Request
<1>1. ASSUME NEW r \in Requests, NEW k \in Kinds, NEW s \in Skews, Read(r, k, s)
      PROVE  TypeOK'
  <2>1. req' = [req EXCEPT ![r] = Reading(k, s)]
    BY <1>1 DEF Read, Reading
  <2>2. req' \in [Requests -> Request]
    <3>1. s \in Int
      BY SkewAssumption, DurationsAssumption
    <3>2. Reading(k, s) \in Request
      BY <1>0, <3>1, WorkingType DEF Reading
    <3> QED BY <2>1, <3>2, <1>0
  <2> QED BY <1>0, <1>1, <2>2 DEF Read, TypeOK, Request
<1>2. ASSUME NEW r \in Requests, Save(r) PROVE TypeOK'
  <2> DEFINE t   == epoch(Clock(r))
             age == calculateMaxAge(t, req[r].session.createdAt)
  <2>0. Clock(r) \in Int /\ req[r].session.createdAt \in Int
    BY <1>0 DEF Clock, Request, Sessions
  <2>1. t \in Int /\ age \in Nat
    BY <2>0, EpochBounds, AgeBounds
  <2>2. req' = [req EXCEPT ![r] = Responding(req[r], t, age)]
    BY <1>0, <1>2 DEF Save
  <2>3. req' \in [Requests -> Request]
    BY <1>0, <2>1, <2>2, RespondingType
  <2> QED BY <1>0, <1>2, <2>3 DEF Save, TypeOK, Request
<1>3. ASSUME NEW r \in Requests, Respond(r) PROVE TypeOK'
  <2>1. req' \in [Requests -> Request]
    BY <1>0, <1>3, IdleType DEF Respond
  <2>2. req[r] \in Request
    BY <1>0
  <2>3. /\ cookie' \in [session : Sessions, exp : Int, until : Nat, savedAt : Nat]
        /\ active' \in Nat
    BY <1>0, <1>3, <2>2 DEF Respond, Request
  <2> QED BY <1>0, <1>3, <2>1, <2>3 DEF Respond, TypeOK, Request
<1>4. ASSUME NEW r \in Requests, Leave(r) PROVE TypeOK'
  <2>1. req' \in [Requests -> Request]
    BY <1>0, <1>4, IdleType DEF Leave
  <2> QED BY <1>0, <1>4, <2>1 DEF Leave, TypeOK, Request
<1>5. CASE Tick
  BY <1>0, <1>5 DEF Tick, TypeOK, Request
<1>6. CASE UNCHANGED vars
  BY <1>6 DEF vars, TypeOK
<1> QED BY <1>1, <1>2, <1>3, <1>4, <1>5, <1>6 DEF Next

THEOREM TypeCorrect == Spec => []TypeOK
  BY TypeInit, TypeNext, PTL DEF Spec

-----------------------------------------------------------------------------
\* A response that is still on its way, and the browser's cookie, respect the
\* two durations: the absolute one unless they only delete the cookie.
ResponseBounded(x) ==
    x.pc = "respond" =>
        /\ x.maxAge > 0 => x.exp <= x.session.createdAt + absoluteDuration
        /\ x.exp <= x.savedAt + inactivityDuration + MaxSkew
CookieBounded(c, n) ==
    /\ n < c.until => c.exp <= c.session.createdAt + absoluteDuration
    /\ c.exp <= c.savedAt + inactivityDuration + MaxSkew
Held(x) ==
    x.pc # "idle" /\ x.kind # "login" =>
        /\ x.readAt < x.session.createdAt + absoluteDuration + Tolerance + MaxSkew
        /\ x.readAt < x.since + inactivityDuration + Tolerance + 2 * MaxSkew

\* The inductive invariant of the durations.  The second conjunct of each of
\* the first two is what a read needs; the first must survive the responses.
BoundInv ==
    /\ CookieBounded(cookie, now)
    /\ \A r \in Requests : /\ req[r].skew \in -MaxSkew .. MaxSkew
                           /\ ResponseBounded(req[r])
                           /\ Held(req[r])

LEMMA IdleBounded == /\ Idle.skew \in -MaxSkew .. MaxSkew
                     /\ ResponseBounded(Idle) /\ Held(Idle)
  BY DurationsAssumption DEF Idle, ResponseBounded, Held

LEMMA BoundInit == Init => BoundInv
<1> SUFFICES ASSUME Init PROVE BoundInv
  OBVIOUS
<1>1. CookieBounded(cookie, now)
  BY DurationsAssumption DEF Init, NoCookie, NoSession, CookieBounded
<1>2. ASSUME NEW q \in Requests
      PROVE  /\ req[q].skew \in -MaxSkew .. MaxSkew
             /\ ResponseBounded(req[q]) /\ Held(req[q])
  <2>1. PICK r \in Requests, s \in Skews, c \in Ceilings :
          req = [p \in Requests |->
                   IF p = r
                   THEN Working("login", s, [createdAt |-> now + s, ceiling |-> c],
                                now, 0)
                   ELSE Idle]
    BY DEF Init
  <2>2. CASE q = r
    BY <2>1, <2>2, SkewAssumption DEF Working, ResponseBounded, Held
  <2>3. CASE q # r
    BY <2>1, <2>3, IdleBounded
  <2> QED BY <2>2, <2>3
<1> QED BY <1>1, <1>2 DEF BoundInv

\* The clocks, and the tolerance at a read.
LEMMA ReadHeld ==
  ASSUME TypeOK, BoundInv, NEW r \in Requests, NEW k \in Kinds, NEW s \in Skews,
         Read(r, k, s)
  PROVE  Held(Reading(k, s))
<1> DEFINE x == Reading(k, s)
<1>1. /\ x.readAt = now /\ x.since = cookie.savedAt
      /\ x.session = cookie.session /\ x.kind = k
  BY DEF Reading, Working
<1>2. /\ now \in Nat /\ cookie.exp \in Int /\ cookie.until \in Nat
      /\ cookie.savedAt \in Nat
      /\ cookie.session.createdAt \in Int /\ cookie.session.ceiling \in Nat
  BY DEF TypeOK, Sessions
<1>3. s \in Int /\ -MaxSkew <= s /\ s <= MaxSkew
  BY SkewAssumption, DurationsAssumption
<1>4. now < cookie.until /\ now + s < cookie.exp + Tolerance
  BY <1>1 DEF Read, Presented, Decrypts
<1>5. /\ cookie.exp <= cookie.session.createdAt + absoluteDuration
      /\ cookie.exp <= cookie.savedAt + inactivityDuration + MaxSkew
  BY <1>4 DEF BoundInv, CookieBounded
<1>7. now < cookie.session.createdAt + absoluteDuration + Tolerance + MaxSkew
  BY <1>2, <1>3, <1>4, <1>5, DurationsAssumption
<1>8. now < cookie.savedAt + inactivityDuration + Tolerance + 2 * MaxSkew
  BY <1>2, <1>3, <1>4, <1>5, DurationsAssumption
<1> QED BY <1>1, <1>7, <1>8 DEF Held

LEMMA BoundNext ==
  ASSUME Rolling PROVE TypeOK /\ BoundInv /\ [Next]_vars => BoundInv'
<1> SUFFICES ASSUME TypeOK, BoundInv, [Next]_vars PROVE BoundInv'
  OBVIOUS
<1>0. /\ req \in [Requests -> Request] /\ now \in Nat
      /\ cookie \in [session : Sessions, exp : Int, until : Nat, savedAt : Nat]
  BY DEF TypeOK, Request
<1> DEFINE Good(x) == /\ x.skew \in -MaxSkew .. MaxSkew
                      /\ ResponseBounded(x) /\ Held(x)
<1>a. \A q \in Requests : Good(req[q])
  BY DEF BoundInv
<1>1. ASSUME NEW r \in Requests, NEW k \in Kinds, NEW s \in Skews, Read(r, k, s)
      PROVE  BoundInv'
  <2>1. req' = [req EXCEPT ![r] = Reading(k, s)]
    BY <1>1 DEF Read, Reading
  <2>2. Held(Reading(k, s))
    BY <1>1, ReadHeld
  <2>3. Good(Reading(k, s))
    BY <2>2, SkewAssumption DEF Reading, Working, ResponseBounded
  <2>4. \A q \in Requests : Good(req'[q])
    BY <1>0, <1>a, <2>1, <2>3
  <2>5. CookieBounded(cookie', now')
    BY <1>1 DEF BoundInv, Read
  <2> QED BY <2>4, <2>5 DEF BoundInv
<1>2. ASSUME NEW r \in Requests, Save(r) PROVE BoundInv'
  <2> DEFINE t   == epoch(Clock(r))
             age == calculateMaxAge(t, req[r].session.createdAt)
             x   == Responding(req[r], t, age)
  <2>0. req[r] \in Request /\ Good(req[r])
    BY <1>0, <1>a
  <2>1. req' = [req EXCEPT ![r] = x]
    BY <1>0, <1>2 DEF Save
  <2>2. /\ x.exp = t + age /\ x.maxAge = age /\ x.savedAt = now
        /\ x.session = req[r].session /\ x.skew = req[r].skew
        /\ x.kind = req[r].kind /\ x.readAt = req[r].readAt
        /\ x.since = req[r].since
    BY <2>0 DEF Responding
  <2>3. Clock(r) \in Int /\ Clock(r) <= now + MaxSkew
    BY <1>0, <2>0, DurationsAssumption DEF Clock, Request
  <2>4. t \in Int /\ t <= now + MaxSkew
    BY <1>0, <2>3, EpochBounds, DurationsAssumption
  <2>5. req[r].session.createdAt \in Int
    BY <2>0 DEF Request, Sessions
  <2>6. /\ age \in Nat /\ age <= inactivityDuration
        /\ age > 0 => t + age <= req[r].session.createdAt + absoluteDuration
    BY <2>4, <2>5, AgeBounds
  <2>7. ResponseBounded(x)
    <3> HIDE DEF t, age, x
    <3>1. t + age <= now + inactivityDuration + MaxSkew
      BY <1>0, <2>4, <2>6, DurationsAssumption
    <3> QED BY <2>2, <2>6, <3>1 DEF ResponseBounded
  <2>8. req[r].pc # "idle"
    BY <1>2 DEF Save
  <2>9. Held(x)
    BY <2>0, <2>2, <2>8 DEF Held
  <2>10. Good(x)
    BY <2>0, <2>2, <2>7, <2>9
  <2>11. \A q \in Requests : Good(req'[q])
    BY <1>0, <1>a, <2>1, <2>10
  <2>12. CookieBounded(cookie', now')
    BY <1>2 DEF BoundInv, Save
  <2> QED BY <2>11, <2>12 DEF BoundInv
<1>3. ASSUME NEW r \in Requests, Respond(r) PROVE BoundInv'
  <2>0. req[r] \in Request /\ ResponseBounded(req[r])
    BY <1>0, <1>a
  <2>1. \A q \in Requests : Good(req'[q])
    BY <1>0, <1>3, <1>a, IdleBounded DEF Respond
  <2>2. CookieBounded(cookie', now')
    BY <1>0, <1>3, <2>0 DEF Respond, CookieBounded, ResponseBounded, Request
  <2> QED BY <2>1, <2>2 DEF BoundInv
<1>4. ASSUME NEW r \in Requests, Leave(r) PROVE BoundInv'
  <2>1. \A q \in Requests : Good(req'[q])
    BY <1>0, <1>4, <1>a, IdleBounded DEF Leave
  <2> QED BY <1>4, <2>1 DEF BoundInv, Leave
<1>5. CASE Tick
  <2>1. CookieBounded(cookie', now')
    BY <1>0, <1>5 DEF Tick, BoundInv, CookieBounded
  <2> QED BY <1>5, <1>a, <2>1 DEF BoundInv, Tick
<1>6. CASE UNCHANGED vars
  BY <1>6 DEF vars, BoundInv
<1> QED BY <1>1, <1>2, <1>3, <1>4, <1>5, <1>6 DEF Next

LEMMA BoundInvariant == ASSUME Rolling PROVE Spec => []BoundInv
  BY TypeInit, TypeNext, BoundInit, BoundNext, PTL DEF Spec

LEMMA BoundMeans == BoundInv => AbsoluteBound /\ InactivityBound
  BY DEF BoundInv, Held, Works, AbsoluteBound, InactivityBound

(* With rolling sessions no request works with a session it read after the *)
(* absolute duration (and tolerance and clock error), whatever overlaps.   *)
THEOREM AbsoluteDuration == Rolling => (Spec => []AbsoluteBound)
<1> SUFFICES ASSUME Rolling PROVE Spec => []AbsoluteBound
  OBVIOUS
<1> QED BY BoundInvariant, BoundMeans, PTL

(* With rolling sessions no request works with a session nothing had saved *)
(* for longer than the inactivity duration (and tolerance, clock error).   *)
THEOREM InactivityDuration == Rolling => (Spec => []InactivityBound)
<1> SUFFICES ASSUME Rolling PROVE Spec => []InactivityBound
  OBVIOUS
<1> QED BY BoundInvariant, BoundMeans, PTL

-----------------------------------------------------------------------------
LEMMA CeilingNext == TypeOK /\ CeilingHeld /\ [Next]_vars => CeilingHeld'
<1> SUFFICES ASSUME TypeOK, CeilingHeld, [Next]_vars PROVE CeilingHeld'
  OBVIOUS
<1>0. /\ req \in [Requests -> Request] /\ now \in Nat
      /\ cookie.session.ceiling \in Nat
  BY DEF TypeOK, Request, Sessions
<1> DEFINE Below(x) == x.pc # "idle" /\ x.kind # "login" /\ x.kind # "connection"
                         /\ x.session.ceiling > 0
                       => x.readAt < x.session.ceiling
<1>a. \A q \in Requests : Below(req[q])
  BY DEF CeilingHeld, Works
<1>b. Below(Idle)
  BY DEF Idle
<1>c. SUFFICES \A q \in Requests : Below(req'[q])
  BY DEF CeilingHeld, Works
<1>1. ASSUME NEW r \in Requests, NEW k \in Kinds, NEW s \in Skews, Read(r, k, s)
      PROVE  \A q \in Requests : Below(req'[q])
  <2>1. s \in Int /\ -MaxSkew <= s
    BY SkewAssumption, DurationsAssumption
  <2>2. k # "connection" /\ cookie.session.ceiling > 0
          => now + s < cookie.session.ceiling - Leeway
    BY <1>0, <1>1, <2>1, DurationsAssumption DEF Read, isSessionCeilingReached
  <2>3. k # "connection" /\ cookie.session.ceiling > 0
          => now < cookie.session.ceiling
    BY <1>0, <2>1, <2>2, SkewAssumption, DurationsAssumption
  <2>4. Below(Reading(k, s))
    BY <2>3 DEF Reading, Working
  <2>5. req' = [req EXCEPT ![r] = Reading(k, s)]
    BY <1>1 DEF Read, Reading
  <2> QED BY <1>0, <1>a, <2>4, <2>5
<1>2. ASSUME NEW r \in Requests, Save(r)
      PROVE  \A q \in Requests : Below(req'[q])
  <2> DEFINE t   == epoch(Clock(r))
             age == calculateMaxAge(t, req[r].session.createdAt)
  <2>1. req' = [req EXCEPT ![r] = Responding(req[r], t, age)]
    BY <1>2 DEF Save
  <2>2. Below(Responding(req[r], t, age))
    BY <1>2, <1>a DEF Save, Responding
  <2> HIDE DEF t, age
  <2> QED BY <1>0, <1>a, <2>1, <2>2
<1>3. ASSUME NEW r \in Requests, Respond(r) \/ Leave(r)
      PROVE  \A q \in Requests : Below(req'[q])
  <2>1. req' = [req EXCEPT ![r] = Idle]
    BY <1>3 DEF Respond, Leave
  <2> QED BY <1>0, <1>a, <1>b, <2>1
<1>4. CASE Tick \/ UNCHANGED vars
  BY <1>4, <1>a DEF Tick, vars
<1> QED BY <1>1, <1>2, <1>3, <1>4 DEF Next

(* Servers whose clocks are off by no more than the leeway never work with *)
(* a session they read at or after its ceiling, except for a connection.   *)
THEOREM CeilingNeverPassed == Spec => []CeilingHeld
<1>1. Init => CeilingHeld
  BY DEF Init, CeilingHeld, Works, Working, Idle
<1> QED BY <1>1, TypeInit, TypeNext, CeilingNext, PTL DEF Spec

-----------------------------------------------------------------------------
\* A request ends in time, and its cookie lasts as long as the two durations
\* allow, the one for the latest activity up to a latency and the clocks.
Timely(x, n) ==
    /\ x.skew \in -MaxSkew .. MaxSkew
    /\ x.pc # "idle" => x.readAt <= n /\ n <= x.readAt + Latency
    /\ x.pc = "respond" =>
         /\ x.readAt <= x.savedAt /\ x.savedAt <= n
         /\ x.exp >= Least(x.savedAt - MaxSkew + inactivityDuration,
                           x.session.createdAt + absoluteDuration)
         /\ x.maxAge >= x.exp - x.savedAt - MaxSkew
Lasting(c, a) ==
    c # NoCookie =>
        /\ a <= c.savedAt + Latency
        /\ c.exp >= Least(c.savedAt - MaxSkew + inactivityDuration,
                          c.session.createdAt + absoluteDuration)
        /\ c.until >= c.exp - MaxSkew

\* The inductive invariant of what activity guarantees.
ActivityInv ==
    /\ active <= now /\ now <= Horizon
    /\ Lasting(cookie, active)
    /\ \A r \in Requests : Timely(req[r], now)

LEMMA IdleTimely == ASSUME NEW n PROVE Timely(Idle, n)
  BY DurationsAssumption DEF Idle, Timely

LEMMA ActivityInit == Init => ActivityInv
<1> SUFFICES ASSUME Init PROVE ActivityInv
  OBVIOUS
<1>1. active <= now /\ now <= Horizon /\ Lasting(cookie, active)
  BY DurationsAssumption DEF Init, Lasting
<1>2. PICK r \in Requests, s \in Skews, c \in Ceilings :
        req = [q \in Requests |->
                 IF q = r
                   THEN Working("login", s, [createdAt |-> now + s, ceiling |-> c],
                                now, 0)
                   ELSE Idle]
  BY DEF Init
<1>3. Timely(Working("login", s, [createdAt |-> now + s, ceiling |-> c], now, 0), now)
  BY SkewAssumption, DurationsAssumption DEF Init, Working, Timely
<1>4. ASSUME NEW q \in Requests PROVE Timely(req[q], now)
  BY <1>2, <1>3, IdleTimely
<1> QED BY <1>1, <1>4 DEF ActivityInv

LEMMA ActivityNext ==
  ASSUME Rolling, Horizon + MaxSkew < EpochLimit
  PROVE  TypeOK /\ ActivityInv /\ [Next]_vars => ActivityInv'
<1> SUFFICES ASSUME TypeOK, ActivityInv, [Next]_vars PROVE ActivityInv'
  OBVIOUS
<1>0. /\ req \in [Requests -> Request] /\ now \in Nat /\ active \in Nat
      /\ cookie \in [session : Sessions, exp : Int, until : Nat, savedAt : Nat]
  BY DEF TypeOK, Request
<1>a. /\ \A q \in Requests : Timely(req[q], now)
      /\ active <= now /\ now <= Horizon /\ Lasting(cookie, active)
  BY DEF ActivityInv
<1>1. ASSUME NEW r \in Requests, NEW k \in Kinds, NEW s \in Skews, Read(r, k, s)
      PROVE  ActivityInv'
  <2>1. Timely(Reading(k, s), now)
    BY <1>0, SkewAssumption, DurationsAssumption DEF Reading, Working, Timely
  <2>2. req' = [req EXCEPT ![r] = Reading(k, s)]
    BY <1>1 DEF Read, Reading
  <2>3. \A q \in Requests : Timely(req'[q], now)
    BY <1>0, <1>a, <2>1, <2>2
  <2> QED BY <1>1, <1>a, <2>3 DEF Read, ActivityInv
<1>2. ASSUME NEW r \in Requests, Save(r) PROVE ActivityInv'
  <2> DEFINE t   == epoch(Clock(r))
             age == calculateMaxAge(t, req[r].session.createdAt)
             x   == req[r]
             y   == Responding(x, t, age)
  <2>0. x \in Request /\ Timely(x, now) /\ x.pc = "save"
    BY <1>0, <1>a, <1>2 DEF Save
  <2>1. req' = [req EXCEPT ![r] = y]
    BY <1>2 DEF Save
  <2>2. /\ x.skew \in Int /\ -MaxSkew <= x.skew /\ x.skew <= MaxSkew
        /\ x.readAt \in Nat /\ x.readAt <= now /\ now <= x.readAt + Latency
        /\ x.session.createdAt \in Int
    BY <2>0, DurationsAssumption DEF Timely, Request, Sessions
  <2>3. Clock(r) \in Int /\ Clock(r) < EpochLimit
    BY <1>0, <1>a, <2>2, DurationsAssumption DEF Clock
  <2>4. t = now + x.skew
    BY <2>3, EpochBounds DEF Clock
  <2>5. /\ age \in Nat
        /\ t + age >= Least(t + inactivityDuration,
                            x.session.createdAt + absoluteDuration)
    <3>1. t \in Int
      BY <1>0, <2>2, <2>4
    <3>2. x.session.createdAt \in Int
      BY <2>2
    <3> HIDE DEF t
    <3> QED BY <3>1, <3>2, AgeBounds
  <2>6. /\ y.pc = "respond" /\ y.skew = x.skew /\ y.readAt = x.readAt
        /\ y.savedAt = now /\ y.exp = t + age /\ y.maxAge = age
        /\ y.session = x.session
    BY DEF Responding
  <2>7. Timely(y, now)
    <3> HIDE DEF t, age, x, y
    <3>1. t + age >= Least(now - MaxSkew + inactivityDuration,
                           x.session.createdAt + absoluteDuration)
      BY <1>0, <2>2, <2>4, <2>5, DurationsAssumption DEF Least
    <3>2. age >= t + age - now - MaxSkew
      BY <1>0, <2>2, <2>4, <2>5, DurationsAssumption
    <3>3. y.skew \in -MaxSkew .. MaxSkew
      BY <2>2, <2>6, DurationsAssumption
    <3>4. /\ y.readAt <= now /\ now <= y.readAt + Latency
          /\ y.readAt <= y.savedAt /\ y.savedAt <= now
      BY <1>0, <2>2, <2>6
    <3>5. y.exp >= Least(y.savedAt - MaxSkew + inactivityDuration,
                         y.session.createdAt + absoluteDuration)
      BY <2>6, <3>1
    <3>6. y.maxAge >= y.exp - y.savedAt - MaxSkew
      BY <1>0, <2>2, <2>4, <2>5, <2>6, <3>2, DurationsAssumption
    <3> QED BY <3>3, <3>4, <3>5, <3>6 DEF Timely
  <2>8. \A q \in Requests : Timely(req'[q], now)
    <3> HIDE DEF y
    <3> QED BY <1>0, <1>a, <2>1, <2>7
  <2> QED BY <1>2, <1>a, <2>8 DEF Save, ActivityInv
<1>3. ASSUME NEW r \in Requests, Respond(r) PROVE ActivityInv'
  <2> DEFINE x == req[r]
  <2>1. x \in Request /\ Timely(x, now) /\ x.pc = "respond"
    BY <1>0, <1>a, <1>3 DEF Respond
  <2>2. /\ x.exp \in Int /\ x.maxAge \in Nat
        /\ x.savedAt \in Nat /\ x.readAt \in Nat
    BY <2>1 DEF Request
  <2>3. /\ now <= x.readAt + Latency /\ x.readAt <= x.savedAt /\ x.savedAt <= now
        /\ x.exp >= Least(x.savedAt - MaxSkew + inactivityDuration,
                          x.session.createdAt + absoluteDuration)
        /\ x.maxAge >= x.exp - x.savedAt - MaxSkew
    BY <2>1 DEF Timely
  <2>4. /\ cookie'.session = x.session /\ cookie'.exp = x.exp
        /\ cookie'.until = now + x.maxAge /\ cookie'.savedAt = x.savedAt
        /\ active' = IF x.savedAt > active THEN x.savedAt ELSE active
        /\ now' = now
    BY <1>3 DEF Respond
  <2>5. active' <= now /\ active' <= x.savedAt + Latency
    BY <1>0, <1>a, <2>2, <2>3, <2>4, DurationsAssumption
  <2>6. now + x.maxAge >= x.exp - MaxSkew
    BY <1>0, <2>2, <2>3, DurationsAssumption
  <2>7. Lasting(cookie', active')
    BY <2>3, <2>4, <2>5, <2>6 DEF Lasting
  <2>8. \A q \in Requests : Timely(req'[q], now)
    BY <1>0, <1>a, <1>3, IdleTimely DEF Respond
  <2> QED BY <1>a, <2>4, <2>5, <2>7, <2>8 DEF ActivityInv
<1>4. ASSUME NEW r \in Requests, Leave(r) PROVE ActivityInv'
  <2>1. \A q \in Requests : Timely(req'[q], now)
    BY <1>0, <1>a, <1>4, IdleTimely DEF Leave
  <2> QED BY <1>a, <1>4, <2>1 DEF Leave, ActivityInv
<1>5. CASE Tick
  <2>1. ASSUME NEW q \in Requests PROVE Timely(req[q], now + 1)
    <3>1. req[q] \in Request /\ Timely(req[q], now)
      BY <1>0, <1>a
    <3>2. req[q].pc # "idle" => now < req[q].readAt + Latency
      BY <1>5 DEF Tick
    <3>3. req[q].readAt \in Nat /\ req[q].savedAt \in Nat
      BY <3>1 DEF Request
    <3> QED BY <1>0, <3>1, <3>2, <3>3, DurationsAssumption DEF Timely
  <2>2. active <= now + 1 /\ now + 1 <= Horizon
    BY <1>0, <1>a, <1>5, DurationsAssumption DEF Tick
  <2> QED BY <1>a, <1>5, <2>1, <2>2 DEF Tick, ActivityInv
<1>6. CASE UNCHANGED vars
  BY <1>6, <1>a DEF vars, ActivityInv
<1> QED BY <1>1, <1>2, <1>3, <1>4, <1>5, <1>6 DEF Next

LEMMA ActivityMeans == TypeOK /\ ActivityInv => ActivityKeepsSession
<1> SUFFICES ASSUME TypeOK, ActivityInv, cookie # NoCookie,
                    now + MaxSkew < EpochLimit,
                    now + Latency + 2 * MaxSkew <
                      Least(active + inactivityDuration,
                            cookie.session.createdAt + absoluteDuration)
             PROVE  Presented /\ \A s \in Skews : Decrypts(cookie, now + s)
  BY DEF ActivityKeepsSession
<1> DEFINE c == cookie
<1>1. /\ now \in Nat /\ active \in Nat /\ c.exp \in Int /\ c.until \in Nat
      /\ c.savedAt \in Nat /\ c.session.createdAt \in Int
  BY DEF TypeOK, Sessions
<1>2. /\ active <= c.savedAt + Latency
      /\ c.exp >= Least(c.savedAt - MaxSkew + inactivityDuration,
                        c.session.createdAt + absoluteDuration)
      /\ c.until >= c.exp - MaxSkew
  BY DEF ActivityInv, Lasting
<1>3. now + Latency + 2 * MaxSkew < Least(active + inactivityDuration,
                                          c.session.createdAt + absoluteDuration)
  OBVIOUS
<1>4. now + MaxSkew < c.exp
  BY <1>1, <1>2, <1>3, DurationsAssumption DEF Least
<1>5. now < c.until
  BY <1>1, <1>2, <1>4, DurationsAssumption
<1>6. ASSUME NEW s \in Skews PROVE now + s < c.exp + Tolerance
  BY <1>1, <1>4, SkewAssumption, DurationsAssumption
<1> QED BY <1>5, <1>6 DEF Presented, Decrypts

(* With rolling sessions, and until the clock of a server passes what the  *)
(* 32 bits of epoch() hold, every request extends the session: the browser *)
(* keeps the cookie and every server accepts it for the inactivity duration*)
(* or until the absolute one, less the latency and the clocks.             *)
THEOREM ActivityExtends ==
  Rolling /\ Horizon + MaxSkew < EpochLimit => (Spec => []ActivityKeepsSession)
<1> SUFFICES ASSUME Rolling, Horizon + MaxSkew < EpochLimit
             PROVE  Spec => []ActivityKeepsSession
  OBVIOUS
<1> QED BY TypeInit, TypeNext, ActivityInit, ActivityNext, ActivityMeans, PTL DEF Spec
=============================================================================
