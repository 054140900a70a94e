# TLA+ specifications of nextjs-auth0

This directory holds specifications of the Auth0 SDK for Next.js (`src/src/`),
their model-checking instances and the proofs of their main theorems. Paths below
are relative to `src/src/` unless they start with `src/`; AC stands for
`server/auth-client.ts`, CL for `server/client.ts`.

Contents: [the system](#the-system), [hard behaviours](#hard-behaviours),
[modules](#modules), [runs](#runs), [proofs](#proofs),
[what the models say about the code](#what-the-models-say-about-the-code),
[not modelled](#not-modelled), [plan](#plan).

## The system

The SDK runs on the servers of a Next.js application. It keeps hardly anything in
memory: every request reads cookies (and perhaps a database), talks to the
authorization server, and answers with `Set-Cookie` headers. The state that
matters is therefore spread over the browser, the database, the authorization
server and the requests in progress, and none of these is locked. Requests
interleave at every `await`, on one server or several; responses arrive in any
order or not at all.

| Part | Source | State | Operations | Correct when |
|---|---|---|---|---|
| Stateful session store | `server/session/stateful-session-store.ts` | a database record per session, the browser's session identifier | `get`, `set`, `delete`, `deleteByReqCookies`; back-channel logout through the data store | a session that was ended stays ended; an identifier stands for one login; a login has one record |
| Stateless session store | `server/session/stateless-session-store.ts`, `server/cookies.ts` | the encrypted session in chunked cookies, connection tokens in cookies beside it | `get`, `set`, `delete`; `setChunkedCookie`, `getChunkedCookie`, `deleteChunkedCookie` | what was saved is what is read next; a logout leaves nothing |
| Session lifetime and ceiling | `server/session/abstract-session-store.ts`, `utils/session-helpers.ts` | `createdAt` in the session, `exp` in the cookie, `Max-Age` in the browser | `calculateMaxAge`, `epoch`, `isSessionCeilingReached` | durations and the upstream ceiling bound every session, and activity keeps it alive |
| Discovery cache | `server/discovery-cache.ts` | metadata per issuer, fetches under way | `get` | one fetch per domain; nothing stale; bounded, least recently used first |
| Clients per domain | `server/auth-client-provider.ts`, `utils/lru-map.ts` | a bounded map of `AuthClient`s, each with the metadata it has seen | `forDomainSync`, `discoverAuthorizationServerMetadata` | clients stay bounded; metadata is remembered only by a client that could use it |
| Access tokens | AC `getTokenSet`, `utils/token-set-helpers.ts`, `utils/session-changes-helpers.ts` | the session's token set and its cached access tokens; refresh tokens at the server | lookup, refresh, change of the session, save; proxy, session transfer, MFA required | a request gets a token that fits; a rotated refresh token is not lost |
| Login | AC `startInteractiveLogin`, `handleCallback`, `handleLogout`; `server/transaction-store.ts` | a cookie per login under way, the session, codes at the server | start, callback (redirect, popup, connected account), logout | logins do not disturb each other; a code meets its own verifier and issuer |
| Domain check | AC `getSessionWithDomainCheck` | the domain recorded in a session | each read of a session | a session is used only for the domain it was made for |
| Connected accounts | AC `connectAccount`, callback | a transaction cookie | start, complete | as login |
| MFA, passkey, passwordless APIs | AC, `server/mfa`, `server/passkey`, `server/passwordless`, `client/**` | the encrypted MFA token; the session they create | challenge, enrol, verify, sign in, each as a method, a route and a function of the page | a verification ends in a usable token or session; the page is told what happened |
| Methods of the client object | CL, `server/fetcher.ts` | the cookies of one request, a fetcher's captured session | `getAccessToken`, `updateSession`, connection tokens, session transfer, connect, `createFetcher`, ... | what one call saved, the next one keeps; grants use the latest refresh token |
| DPoP | `utils/dpopRetry.ts`, `utils/dpopUtils.ts`, `server/fetcher.ts` | the nonce a handle learned | token and resource requests with one retry | one retry, never of what was accepted; a proof with the tokens that are bound |
| Popups of a page | `client/mfa/index.ts`, `utils/popup-helpers.ts` | popups, listeners, timers, the guard | step-up in a popup | a call that succeeds finds its token; the guard is never stuck |
| CIBA, token revocation, token exchange | AC `backchannelAuthentication`, `revokeToken`, `customTokenExchange` | none | one request and its answer; the session is not changed | |
| Adapters and pure helpers | `server/client.ts`, `server/next-compat.ts`, `utils/normalize.ts`, URL helpers, errors, types | none | | |

How they interact: the request handler (AC 659-798) reads the session through the
domain check and the ceiling, both over a session store; a login replaces the
session and a callback is delegated to the client of the issuer that the
transaction names; token requests read the session, talk to the server with
metadata from the discovery cache, and save the session whole; logout deletes the
session and every transaction cookie of the request; a back-channel logout comes
from the authorization server and touches the database only.

## Hard behaviours

* *Interleaving around the session.* A session is read at the start of a request
  and saved whole at its end, after calls to other systems. In between it may have
  been ended, replaced or refreshed by another request. The stateful store guards
  against part of it (`update()`), the stateless store cannot.
* *Responses out of order.* A cookie is what the last response said, not what the
  last request did; chunks of two responses may mix.
* *Rotation.* A refresh token is replaced when it is used; if its successor is not
  saved, the session is dead when the overlap period ends.
* *Clocks.* Servers disagree by seconds and decryption tolerates some of it;
  `epoch()` is a 32-bit integer.
* *Repeated and misplaced callbacks.* Browsers reload; the callback may reach the
  host of another issuer, with any number of transactions under way.
* *Shared fetches.* Concurrent calls join one fetch, also when it fails.
* *Several calls in one request.* Each reads the session and saves all of it; where
  it reads from depends on where in Next.js it is called.
* *Requests sent twice.* A nonce that DPoP demands makes the SDK send a grant again,
  and a code, a password or a refresh token can be used once.
* *A page that waits.* A step-up spans a refused request, an encrypted token with a
  lifetime, popups that close or answer late, and the session they change.

`PROJECT.json` lists the hazards line by line with the properties that cover them.

## Modules

### StatefulSessions, SessionContract

`StatefulSessions` models the database-backed store as requests use it. A record
is abstracted to the login it belongs to, the cookie to its identifier. A request
goes through program counters that are the awaits of the code: `read`
(`getSessionWithDomainCheck`), `exchange`, `drop` (first half of
`set(isNew = true)`), `save` (`set(isNew = false)`, with `update()` or the
get-then-set fallback), `write`, `delete`, `respond`. Five kinds of request:
rolling (`touch`), token, login, popup callback, logout. Around them:
back-channel logout (`verifyLogoutToken` by the claims it refuses,
`deleteByLogoutToken` for one login by its session or any of a user's by subject),
ceilings and the deletion they start without awaiting it,
expiry of the cookie, failures, and a session from v3 under its old cookie.
Every configuration choice of the code (`update()` present or not, v3 cookies)
is a constant. `ended` and `owner` are history variables: the logins whose record
was removed to end them, and the login an identifier was first stored with.

`SessionContract` is the promise without mechanism: a login begins once, under an
identifier of its own, and ends once, alone or with others of its user. `ImplementsContract` is the refinement.

### ChunkedCookies, StatelessSessions

`ChunkedCookies` holds the three cookie functions as operators on a jar of names
(base, 0, 1, ...) and patches (what a response sets, deletes or leaves). A
ciphertext is the write that made it and the number of cookies it needs; chunks of
different writes do not decrypt together. `StatelessSessions` runs overlapping
requests over them, with connection token cookies (`storeInCookie`, `deleteCookie`,
`getConnectionTokenSetsCookies`) and v3 cookies (`convertFromLegacy`). A write or login that
nothing refers to any more is used again, so behaviours are unbounded in length.

### SessionLifetime

One session, its cookie, the browser's time, and requests that run on servers
whose clocks are each off by up to `MaxSkew`. The definitions of
`calculateMaxAge`, `epoch`, `isSessionCeilingReached` and `decrypt`'s tolerance
are the code's; `epoch` wraps at `EpochLimit` (2^31 in the code).

### DiscoveryCache, MetadataDiscovery

`DiscoveryCache` is `get` with its Map order, expiry, fetches under way and
eviction; metadata is abstracted to the time its fetch began. `MetadataDiscovery`
EXTENDS it and composes the bounded map of clients and the metadata each client
keeps; its actions conjoin those of the cache.

### AccessTokens, TokenRequests

`AccessTokens` has no state: how a token is looked up among those of a session
(`getTokenSetFromSession`, `findAccessTokenSet`, `compareScopes`) and how the
session changes after a retrieval (`getSessionChangesAfterGetAccessToken` and its
branches), scope strings as sets. `TokenRequests` EXTENDS it with overlapping
requests of six kinds (getAccessToken, proxy, session transfer, connect account,
popup callback, rolling) and an authorization server that issues tokens and may
rotate refresh tokens, with an overlap period. When a token expires is left open:
any retrieval may find it valid or not. `mishap` is a history variable: a response
was lost, an upstream call failed after a rotation, or an old session was saved
over a newer one. A popup's refresh token stands for the login's here; what it does
to later requests that name no audience is in `StepUp`.

### GrantAnswers, PageCalls

Operators without state: how an outcome of the token endpoint becomes an error of
the SDK in a method, a response in its route, and what the page's function returns
or throws. `GrantAnswers` does so for grants (passkey, passwordless, OTP, MFA
verification, refresh, passkey enrolment), `PageCalls` for the requests before them
(challenges, authenticators, enrolments) and for the pairs of method and route that
a page or a Server Action uses. Errors are abstracted to class, code and whether
they carry an MFA token, responses to status, code and token. Which error is an
`MfaRequiredError` is `isMfaRequiredError`, `extractMfaErrorDetails` and
`throwIfMfaRequired`; an enrolment is given by what is to be enrolled
(`normalizeEnrollOptions`, `buildEnrollOptions`), a verification by the credentials
presented, of which the first complete one and its grant are used
(`buildVerifyParams`, `getVerifyGrantType`).

### PopupCalls, StepUp

`PopupCalls` is the popup machinery of one page: `activePopup`, windows, the message
a callback page posts to its opener, which settles every call that listens, polling
for a closed window and the timeout. `StepUp` EXTENDS it with `PageCalls` and
`AccessTokens` and composes them: calls that ask for a token, run into
`mfa_required`, keep the encrypted MFA token, prepare and verify a factor (chained,
expired, refused), or open a popup whose callback merges its tokens into the session
(`mergePopupTokenIntoSession`), and sign-ins without a redirect. Handlers are atomic
here, as `TokenRequests` has their overlaps. The session's refresh token is
abstracted to the audience it was issued for.

### GrantRetries, ServerCalls

`GrantRetries` is one grant at the token endpoint under `withDPoPNonceRetry`: both
ways in which the code uses it (around the response, around the exception), the
nonce a handle knows, and a server that changes its nonce, rotates refresh tokens
and may lose an answer. `tries`, `spent` and `reply` are history variables.
`ServerCalls` EXTENDS it: a request from the App Router, a component, middleware,
the Pages Router or a handler that has only a plain `Request` makes calls one after
another, each a short program of steps (`token`, `connection`, `transfer`, `present`,
`save`, ...) read off the method it models; a route makes one. `Save` and `Saved` say
which cookies a call writes and which the next one reads: where `ReadsAnew` holds (the
Pages Router, or a plain `Request`, of which `toNextRequest` makes a new copy for every
call) the next one reads what the request came with. `updateSession` is given a
`NextResponse` or a plain `Response`; `toNextResponse` makes a copy of the latter, so
`SaveInCopy` writes no cookie that the caller sends. `request.saved`, `lost` and
`request.fetcher.refreshed` are history variables: what was saved in this request,
whether the latest refresh token could not be saved, and whether an earlier use of the
request's fetcher refreshed.

### LoginFlow

Logins of one browser through several issuers, from the transaction cookie to the
session. The transaction store is `Named`, `Stored` and `Without`, in parallel and
in single mode; `Checked` is the domain check; `Callback` ends at the exchange of
the code with every early return, and `ExchangeRedirect`, `ExchangePopup`,
`ExchangeFails` and `CompleteConnect` end the handler. Requests with a login of
their own (passwordless, passkey, MFA as a first factor) are `DirectLogin`. The
session is stateless here; what a database changes is in `StatefulSessions`.

### MC modules

`MC<module>.tla` give constants that are not simple sets their values and define
the symmetry. Symmetry sets are permutations of request slots, identifiers and
logins that no definition tells apart; runs with a temporal property that needs
fairness (`StatefulLogout`) use none. `CHOOSE` over symmetric values does not
occur except where the choice is unique.

## Runs

| Run | Checks | Bounds |
|---|---|---|
| StatefulRedirect | with an atomic `update()`, v4 cookies and redirect logins: an ended login never has a record again, a login has one record, the store implements SessionContract | 2 requests, 3 identifiers, 3 logins |
| StatefulNonAtomic | with the get-then-set fallback, popups, v3 cookies, cookies that lapse and failures, an identifier still never comes to stand for another login | 2 requests, 3 identifiers, 2 logins |
| StatefulLogout | under fairness: a logout request ends the session it presented, for good; no removed identifier is written again | 2 requests, 2 identifiers, 2 logins |
| Stateless | a save that nothing overlaps is read back, a logout that nothing overlaps clears the browser, whatever earlier overlaps left | 2 requests, 1-3 chunks, 2 logins, 5 writes in use together |
| Lifetime | absolute and inactivity durations and the ceiling bound every use; activity keeps a session | 2 requests, clocks off by one, durations 10 and 6, wrap at 11, time to 13 |
| Discovery | one fetch per domain, no orphaned waiters, freshness and bound of the cache; what clients remember | 2 calls, 3 domains, caches of 2, ttl 2, time to 3 |
| Tokens | a request gets a token that fits, the browser's refresh token is usable barring a mishap, a rotation is saved | 2 requests, 2 audiences, 2 scopes, 3 refresh tokens, 2 cached tokens |
| Login | parallel logins keep their cookies, codes meet their transaction and issuer, answered callbacks leave no cookie, a login's session stays with its domain | 2 requests, 2 logins at a time, 2 issuers |
| LoginPopup | *violation:* a session made by a popup has no domain and is used for another | 1 request |
| StepUp | a call is answered with a token that fits what it asked for, the token of a popup is found by later calls, the popup guard has a holder, the page is told what the token endpoint said | 2 calls (one only opens popups; the other asks for no audience, for the default one by name or for the second), 2 popups, 2 audiences, 2 scopes, 2 cached tokens |
| ServerCalls | no accepted grant is sent again, grants use the latest refresh token, no call undoes another's save unless each reads the request anew, proofs go with bound tokens | 2 calls per request, 1 audience beside the login's, 2 nonces, 2 rotations |
| FetcherReuse | *violation:* a fetcher used a second time refreshes with the refresh token it was created with, which its first use replaced; DPoP plays no part | as ServerCalls |

Why the bounds are enough for the cases that matter: two requests are what an
interleaving needs, and a slot is reused, so any number of requests follow one
another; three identifiers let a session be replaced twice, which is what it takes
for a request of the first session to meet the third; three chunks allow every
relation of two sizes (equal, one more, two more, shrink to the base cookie); a
time of 13 with an absolute duration of 10 and the wrap at 11 lets a session
expire by either duration, roll, and be saved after the wrap; a cache of two with
three domains evicts. Three refresh tokens are one held by the browser, one by
each request. Two popups let the message of one that was given up settle a call that
waits on the other. Two calls of a request are a save and a call that may undo it;
two nonces and two rotations let both change between a refusal and its retry, and a
request after a request starts from what the browser was given. The passing runs
fire every action.

`CHECK_DEADLOCK FALSE` stands where a bounded resource ends the behaviour: time
(`Horizon`) in Lifetime and Discovery, identifiers and logins in StatefulLogout.

### Fairness

`StatefulLogout` is the only run with a liveness property. `FairSpec` assumes weak
fairness of `Progress(r)`, the next step of a handler that has begun: Node's event
loop resumes a handler when the call it awaits settles, and the run's data store
answers (`MayFail = FALSE`; a store that never answers, or a process that stops,
leaves the record there). Nothing is assumed about new requests arriving, the
browser, the un-awaited deletions or back-channel logout.

## Proofs

The theorems hold for every value of the constants that the modules' assumptions
allow; what a theorem assumes beyond those is said below and stands in its
statement. Each proof module EXTENDS its component and TLAPS. Every inductive
invariant was first checked by TLC on the run of its component, and every safety
property that a passing run checks is the conclusion of a theorem.

| Module | Property of a run: theorem | Assumed beyond the constants |
|---|---|---|
| `StatefulSessions_proofs` | `TypeOK`: `TypeCorrect`; `IdBoundToOneLogin`: `IdsStayBound` | |
| | `RemovedIdStaysRemoved`: `RemovedStayRemoved` | an atomic `update()` |
| | `NoResurrection`: `SessionsStayEnded`; `OneRecordPerLogin`: `OneRecord`; `ImplementsContract`: `StoreImplementsContract` | that, v4 cookies, none that lapse, redirect logins |
| `StatelessSessions_proofs` | `TypeOK`: `StatelessTypeCorrect`; `LoneLogoutClears`: `LogoutsClear` | |
| | `LoneSaveReadsBack`: `SavesReadBack` | at most three chunks |
| `SessionLifetime_proofs` | `TypeOK`: `TypeCorrect`; `CeilingHeld`: `CeilingNeverPassed` | |
| | `AbsoluteBound`: `AbsoluteDuration`; `InactivityBound`: `InactivityDuration` | rolling sessions |
| | `ActivityKeepsSession`: `ActivityExtends` | rolling sessions, until a server's clock reaches `EpochLimit` |
| `DiscoveryCache_proofs` | `TypeOK`, `OneFetchPerDomain`, `WaitersHaveFetch`, `Bounded`, `Fresh`: `TypeCorrect`, `Deduplicated`, `FetchesAreLive`, `SizeBounded`, `NeverStale`, and `CacheServesClients`; `MemoOfUsableClient`: `MemosUsable` | |
| `TokenRequests_proofs` | `TypeOK`: `TokensTypeCorrect`; `RefreshTokenUsable`: `RefreshTokensUsable` | |
| | `RotationPersisted`: `RotatedArePersisted` | a default audience |
| | `TokenFitsRequest`: `TokensFitRequests` | logins for the default audience and some scope (`UsualLogin`) |
| `LoginFlow_proofs` | `TypeOK`, `LoginNotDisturbed`, `CodeMeetsItsTransaction`, `AnsweredIsForgotten`, `LoginStaysWithDomain`: `LoginTypeCorrect`, `LoginsNotDisturbed`, `CodesMeetTheirTransactions`, `AnsweredAreForgotten`, `LoginsStayWithTheirDomain` | |
| `StepUp_proofs` | `TypeOK`: `StepUpTypeCorrect`; `PageKnowsOutcome`: `PagesKnowOutcomes`; `GuardHasCall`: `GuardsHaveCalls` | |
| | `AnswerFits`: `AnswersFit`; `PopupTokenFound`: `PopupTokensFound` | `UsualCalls` |
| `ServerCalls_proofs` | `TypeOK`, `AcceptedNotResent`, `NoSaveLost`, `ProofFitsToken`, `RefreshTokenCurrent`: `TypeCorrect`, `NotResent`, `SavesKept`, `ProofsFitTokens`, `RefreshTokensCurrent` | `NoSaveLost`: not the Pages Router or a plain `Request`; `RefreshTokenCurrent`: no fetcher |

### The arguments

* *StatefulSessions.* That a write does not revive a login depends on what every
  other request may still write. `RedirectInv` says it (`HeldIdsWereStored`,
  `OwnerIsUnique`, `EndedIsOver`, `SavesPresentedLogin`, `PendingIsFresh`): every
  identifier that somebody holds was stored once, a login on its way has no record,
  and no two requests are about to write under one identifier or for one login. The
  induction groups the actions: steps that leave records alone (`QuietStep`),
  removals (`RemovalStep`), and the two writes. The same invariant makes every step
  one of `SessionContract`'s or a stutter. `IdsStayBound` has an invariant of its own,
  `IdInv`, which holds of every deployment: nobody holds an identifier for another
  login than the one it was first stored with.
* *StatelessSessions.* The cookie functions first: `DeleteClears` and `SetReadsBack`
  say what a response of `deleteChunkedCookie` and `setChunkedCookie` makes of any
  cookies, the second when the chunks there and those set leave no index out
  (`NoGapWith`); with up to three chunks they never do (`ThreeChunksNoGap`). `IInv` says
  that a response on its way is what `set()` or `delete()` made of the cookies its
  request came with. `LargeSavesReadBack` is the read-back for sessions of any size
  without a gap.
* *SessionLifetime.* `BoundInv` bounds the expiry of the browser's cookie and of
  every response on its way by the same limits; the ceiling is inductive by itself
  given that no clock is off by more than the leeway (`SkewAssumption`);
  `ActivityInv` says that a cookie's expiry is at least that of the latest save less
  the latency, until the servers' clocks reach `EpochLimit`.
* *DiscoveryCache, MetadataDiscovery.* Lemmas about `MoveToEnd`, `Insert`, `Evict` and
  `LruSet` on sequences without repetitions; `IInv` for the cache alone. Every step of
  the clients is a step of the cache or leaves it alone (`ClientsUseTheCache`), so its
  theorems hold of them; `ClientInv` adds that a call is current only while its client
  is in the map, without which an evicted client's answer would be remembered for
  nobody.
* *TokenRequests.* Which token answers and how a session changes (`TokenSetCases`,
  `ChangeCases`) are lemmas about the operators of `AccessTokens`. `TypeInv`;
  `RotationInv`, for refresh tokens: whoever rotated the one the browser has is
  about to give it the next; `SavedInv`, which relates what a request saves to what it
  was given; `FitInv`, that every cached entry of a session covers what was requested
  for it.
* *LoginFlow.* One invariant, `LoginInv`: what is known of each state
  (`TransactionsInv`), which cookies the browser may hold (`CookiesInv`), what every
  request holds and what its response will clear (`RequestsInv`), and which issuer's
  codes meet which verifiers (`ExchangesInv`).
* *StepUp.* What each method throws and what its route and the browser's method make of
  it is settled by lemmas without state, so `PagesKnowOutcomes` covers every outcome.
  Steps are then stated as what they do to the session (`SessionStep`) and to the page.
  `FitInv` says what each entry of the session serves, an entry for the default
  audience only as far as the refresh token its session had; `PopupsFirst`, that
  the entry a popup put is the first of its audience and stays so.
* *ServerCalls.* Calls are programs of steps as state, so the type invariant needs that
  what is left of a call fits its operation (`CallFits`). `GrantGoesOn`: a grant that
  goes on was tried once at most and was not accepted. `Kept`: a call in progress
  holds all that its request saved so far, unless `ReadsAnew`. `ProofInv`: what
  is about to be presented has the type of the token it came from. `CurrentInv`: the
  session that the next call reads has the current refresh token, or a grant or an
  unsaved step of the call in progress holds it, or it is lost.

### Assumptions

The named assumptions of the modules say that the model values are none of the
records or numbers they stand beside (`NoCall`, `NoGrantAssumption`,
`NothingAssumption`, ...), that bounds are natural numbers, that the scopes are
finitely many (a scope list is a string), and that a popup names its audience, which
`challengeWithPopup` demands (`client/mfa/index.ts:64`).

Four theorems assume more, as what they say is not true without:

* `RotatedArePersisted`: without a default audience `SessionChanges` keeps no token for
  more scopes than the login's (`utils/session-changes-helpers.ts:294`), nor the refresh
  token that came with it.
* `TokensFitRequests` assumes `UsualLogin`. A login for another audience is recorded
  without it, and its token then answers for the default one; `DEFAULT_SCOPES` sees to
  the scope.
* `AnswersFit` and `PopupTokensFound` assume `UsualCalls`. Without a default audience a
  request that names none stores, under the session's audience, a token for whatever the
  refresh token is for. A popup for the default audience, or for no scope, can lose
  against the login's token or a verified entry that was granted nothing. With
  `mergeScopes: false` (`types/index.ts:210`) a request for the default audience leaves
  the configured scopes out, and a session that a verification made may not have them.
* `SavesReadBack`: with four chunks an index that overlaps left out hides the chunk
  beyond it (see the observations).

Only model-checked: `LogoutEndsPresentedSession`, as liveness under fairness is out
of the prover's reach, and the two violations, which need a counterexample and no
proof.

## What the models say about the code

Each violation run is a disagreement of the code with a comment or document;
`PROJECT.json` quotes it under `findings`:

* `LoginPopup`: a session a popup creates has no recorded domain.
* `FetcherReuse`: a fetcher keeps the session it was created with. Used again after a
  use that refreshed, once its token has expired, it presents the refresh token of its
  creation.

Observations met while modelling, and in the behaviours of the models, that have no
run of their own.

Sessions, tokens and logins:

* The popup branch of `handleCallback` saves with `isNew = true` a session it read
  earlier, which skips the guard against concurrent logout: a session that was ended
  meanwhile is stored again (`stateful-session-store.ts:141`, comment at 156).
* `setChunkedCookie` deletes unused chunks by count, so an index gap that an overlap
  of responses left survives the next save (`cookies.ts:270` beside 268;
  `src/CHANGELOG.md:375`). It takes four chunks.
* Without any audience a refresh whose scope is not the login's is not saved, nor is
  the refresh token it rotated (`session-changes-helpers.ts:294`;
  `src/EXAMPLES.md:997`).
* Without rolling, every save restarts the absolute duration
  (`abstract-session-store.ts:240`; `src/EXAMPLES.md:3969`). `AbsoluteBound` is
  checked and proved of rolling sessions only.
* After January 2038 `epoch()` is negative and cookies do not decrypt
  (`abstract-session-store.ts:232`).
* A session read from a v3 cookie is saved without the existence check
  (`stateful-session-store.ts:150`), and its v3 record stays.
* A login over an existing stateless session keeps the connection token cookies of
  the one before (`stateless-session-store.ts:129`, comment at 91).
* An expired entry that is fetched again keeps its place in the Map
  (`discovery-cache.ts:118`, comment at 52), and a client's own copy of the
  metadata never expires (AC 2679; `src/EXAMPLES.md:5794`).
* The callback of a connected account, and a proxy or connect request whose
  upstream call fails, do not save a rotated refresh token; a session transfer
  that refreshes and then fails does not either (AC 3831-3875, comment at 3818).
* A rolling save, or the save of an MFA-required answer, that overlaps a refresh
  puts the old refresh token back. These are the `mishap`s of `TokenRequests`.
* After a login for another audience than the default one, lookups for the default
  audience may return the login's token, as the session records no audience.
* `ProxyOptions.forceTokenRefresh` (`types/index.ts:218`) is not read anywhere.
* In single-transaction mode the callback of an earlier login deletes the
  transaction of the later one, as `src/README.md:214` warns; the check for a
  transaction in progress (`transaction-store.ts`) never runs, as its caller does
  not pass the request's cookies.
* The domain check compares domains, not issuers (issuers may share a domain,
  `DomainOf`); `src/EXAMPLES.md` says both that a session from before the check is
  tagged (5875) and that it is rejected (6094).
* A failed check of `iss` in a popup's callback answers with a redirect (AC
  1401-1414), as the transaction is not passed on.
* `handleBackChannelLogout` says `verifyLogoutToken` "never throws" (AC 2293), but
  `jose.jwtVerify` (AC 2838) rejects a bad signature, issuer or expiry: without a
  resolver the handler throws instead of answering 400.

Second factors, popups and sign-ins without a redirect:

* A token verified for the default audience is appended under an empty audience and
  without its requested scope (AC 4897), so the next `getAccessToken()` does not find
  it and is refused again. A popup for the default audience is not found either.
* A verification appends its token to the session the request has, whoever's it is.
* The message of a popup settles every call that waits, so that of a call that timed
  out settles a later one; a call that timed out resets the guard and leaves its popup
  open, so several can be waited on ("Singleton popup guard",
  `client/mfa/index.ts:88`).
* Merging a popup replaces the refresh token: a later request that names no audience
  gets tokens for the popup's (`src/EXAMPLES.md:1445`).
* A chained `mfa_required` encrypts its token with the default lifetime instead of the
  configured one, and does so even if there is none. A popup's `mfa_required` carries
  an empty token.
* `client.mfa.challenge` wraps `MfaNoAvailableFactorsError` in an
  `MfaChallengeError`; `MfaEnrollmentError` is not listed in
  `getMfaErrorStatusCode`, so a refused enrolment is answered 500 where AC 1697 says
  400. A push factor can be enrolled, but a verification demands its binding code.
* Passkey enrolment answers `mfa_required` as a token error (401), though the page's
  function and its test expect `mfa_required`. It refreshes for the challenge and for
  the verification without saving, and presents a bound token as Bearer.
* Network failures of the credential grants are answered 403 or 400; a missing ID
  token in the OTP route is a `PasswordlessVerifyError`.
* Sessions of these sign-ins record no ceiling, requested scope or audience; a
  verification after a logout (AC 5650) or a popup without a session makes one whose
  login token is for the audience verified for, so `getAccessToken({ audience })` for the
  default audience is answered with that token.
* The magic link's fallback scope is not `DEFAULT_SCOPES`.

DPoP and the methods of the client object:

* `withDPoPNonceRetry` reports the first answer if the retry of a request throws,
  where its comment says the error is thrown again (`utils/dpopRetry.ts:64`, 165).
* A login by redirect stores its token without `token_type`
  (`utils/session-helpers.ts:150`), so a fetcher sends the bound token as Bearer
  (`src/EXAMPLES.md:2823`); `client.connectAccount` drops the type too (CL 1746).
  `ProofFitsToken` leaves both aside.
* `useDPoP: true` of one fetcher does not turn DPoP on (`src/EXAMPLES.md:2785`). With
  a key pair that is missing or invalid the warning says that Bearer is used, but
  `fetcherFactory` throws.
* Connection, custom exchange and session transfer grants pass no timeout.
* In the Pages Router every call of a request reads the session as it arrived: after
  a refresh, the next call presents the replaced refresh token, and the last
  `setHeader` wins. A plain `Request` is copied by every call (CL 1855), so there too a
  call saves the session it reads over an earlier update. `NoSaveLost` leaves both out,
  `lost` records them.
* `updateSession` accepts a plain `Response` and copies it (CL 1549-1560): the cookies
  are set on the copy, which is not returned, and the update is lost.

## Not modelled

* *Cryptography and tokens' contents.* Cookies decrypt if they are whole, written
  by the SDK and not expired; ID tokens and logout tokens are valid. What those
  libraries check is not this code.
* *URLs, headers, claims, HTML, configuration parsing, error texts.* Functions of
  strings without state.
* *Mutual TLS, configuration, errors and types.* Choices at configuration time, pure
  functions and declarations; `PROJECT.json` gives a reason for each component.
* *Rendering.* Providers and page wrappers, and the caching of `useUser`, which is
  the swr library's.
* *The data of sign-in requests.* What a credential or an authenticator holds. Which
  factor, which credential and which grant are chosen is modelled.
* *The domain check of back-channel logout* in resolver mode, and the stores'
  filtering by issuer, which is the application's.
* *Key set caches.* `getJwksCacheForUri` evicts by the same rule as the discovery
  cache.
* *Conversions between Next.js request and response types* (`next-compat.ts`), except
  for what copying does to reads and saves.
* Two hazards have no property: a roll that answers after a logout sets a stateless
  session's cookie again, as nothing on the server knows the session; and without
  rolling each save restarts the absolute duration.

## Plan

Done: the stateful store and its contract, the stateless store, lifetimes, the
discovery cache with the clients, access tokens, logins, step-up with its popups and
sign-ins, grants with their retries, the methods of the client object, and proofs of
every safety property the runs check. What follows:

1. *Sharper statements without the assumptions above*: what `AnswerFits` and
   `TokenFitsRequest` come to without a default audience, as properties of their own.
2. *`StatefulSessions` with popups*: how far `NoResurrection` holds when the popup
   callback stores a session it read earlier, as a theorem about every other request.
3. *`SessionLifetime`* without rolling: the bound that a chain of saves leaves.
