-------------------------- MODULE StatefulSessions --------------------------
(***************************************************************************)
(* The session store backed by a database (StatefulSessionStore) under     *)
(* concurrent requests of one browser, back-channel logout, the session    *)
(* ceiling and failures.  A record of the database is abstracted to the    *)
(* login it belongs to; the session cookie to the identifier it carries.   *)
(* Every await on the store or on a user hook ends a step, so any two      *)
(* requests interleave between them, and responses reach the browser in    *)
(* any order or not at all.                                                *)
(*                                                                         *)
(* Bounds: the identifiers and logins a behaviour may use are the finite   *)
(* sets Ids and Logins; a request slot is reused when its request is over. *)
(***************************************************************************)

CONSTANTS
    Requests,        \* slots for requests that are in progress together
    Ids,             \* what generateId may return
    Logins,          \* successful logins (the `sid` a session carries)
    NoId, NoLogin,   \* absent cookie, absent record
    Kinds,           \* the kinds of request this instance makes
    AtomicUpdate,    \* the data store implements the optional update()
    LegacyCookies,   \* the browser may start with a v3 cookie
    CookieMayLapse,  \* a cookie may stop decrypting while a request runs
    MayFail          \* a store call may reject, a process may stop

AllKinds == {"touch", "token", "login", "popup", "logout"}

ASSUME ConstantsAssumption ==
    /\ NoId \notin Ids
    /\ NoLogin \notin Logins
    /\ Kinds \subseteq AllKinds
    /\ {AtomicUpdate, LegacyCookies, CookieMayLapse, MayFail} \subseteq BOOLEAN

VARIABLES
    store,     \* the data store: the login recorded under each identifier
    jar,       \* the browser's session cookie and v3 cookie
    req,       \* the requests in progress
    usedIds,   \* identifiers generateId has returned
    begun,     \* logins the authorization server has completed
    ceiling,   \* logins whose IdP-asserted session ceiling has passed
    toDelete,  \* deletions started by a ceiling check and not awaited
    owner,     \* history: the login an identifier was first stored with
    ended      \* history: logins whose record was removed to end them

vars == <<store, jar, req, usedIds, begun, ceiling, toDelete, owner, ended>>

MaybeId    == Ids \cup {NoId}
MaybeLogin == Logins \cup {NoLogin}
Cookies    == [session : MaybeId, legacy : MaybeId]
Steps      == {"idle", "read", "exchange", "save", "drop", "write",
               "delete", "respond"}
Request    == [kind : AllKinds, pc : Steps, cookies : Cookies,
               login : MaybeLogin, id : MaybeId,
               res : {"none", "set", "clear"}]

NoCookies == [session |-> NoId, legacy |-> NoId]
Idle == [kind |-> "touch", pc |-> "idle", cookies |-> NoCookies,
         login |-> NoLogin, id |-> NoId, res |-> "none"]

(***************************************************************************)
(* An empty browser, or one that still holds the cookie of a v3 session.   *)
(***************************************************************************)
InitEmpty ==
    /\ store = [i \in Ids |-> NoLogin]
    /\ jar = NoCookies
    /\ usedIds = {}
    /\ begun = {}

InitLegacy ==
    \E i \in Ids, l \in Logins :
        /\ store = [j \in Ids |-> IF j = i THEN l ELSE NoLogin]
        /\ jar = [session |-> NoId, legacy |-> i]
        /\ usedIds = {i}
        /\ begun = {l}

Init ==
    /\ InitEmpty \/ (LegacyCookies /\ InitLegacy)
    /\ owner = store
    /\ req = [r \in Requests |-> Idle]
    /\ ceiling = {}
    /\ toDelete = {}
    /\ ended = {}

-----------------------------------------------------------------------------
(* Moving one request on.                                                  *)

Goto(r, pc) == req' = [req EXCEPT ![r].pc = pc]
Answer(r, res) == req' = [req EXCEPT ![r].pc = "respond", ![r].res = res]

\* The identifier get() extracts: the session cookie's, else the v3 cookie's.
PresentedId(c) == IF c.session # NoId THEN c.session ELSE c.legacy

\* Mutant: set() never recovers the identifier of the session cookie.
DecryptNothing(c) == {NoId}

\* What set() and delete() decrypt: the session cookie only, and nothing
\* when the cookie has expired since the request began.
DecryptedIds(c) ==
    IF CookieMayLapse THEN {c.session, NoId} ELSE {c.session}

Recorded(i) == IF i = NoId THEN NoLogin ELSE store[i]

\* store.delete(i), which ends the login recorded there unless `keep` is it.
Remove(i, keep) ==
    /\ store' = [j \in Ids |-> IF j = i THEN NoLogin ELSE store[j]]
    /\ ended' = ended \cup ({Recorded(i)} \ {NoLogin, keep})

\* store.set(i, session of login l).
Put(i, l) ==
    /\ store' = [store EXCEPT ![i] = l]
    /\ owner' = [owner EXCEPT ![i] = IF @ = NoLogin THEN l ELSE @]

-----------------------------------------------------------------------------
(* A request arrives with the cookies the browser holds at that moment.    *)
Start(r, k) ==
    /\ req[r].pc = "idle"
    /\ req' = [req EXCEPT ![r] =
                 [Idle EXCEPT !.kind = k,
                              !.pc = IF k = "login" THEN "exchange" ELSE "read",
                              !.cookies = jar]]
    /\ UNCHANGED <<store, jar, usedIds, begun, ceiling, toDelete, owner, ended>>

(* The authorization code is exchanged: a login the world had not seen.    *)
Exchange(r) ==
    /\ req[r].pc = "exchange"
    /\ \E l \in Logins \ begun :
         /\ begun' = begun \cup {l}
         /\ req' = [req EXCEPT ![r].pc = "drop", ![r].login = l]
    /\ UNCHANGED <<store, jar, usedIds, ceiling, toDelete, owner, ended>>

(* getSessionWithDomainCheck: store.get, then the ceiling check, which     *)
(* starts a deletion nobody awaits and answers as if there were no session.*)
Read(r) ==
    LET c == req[r].cookies
        l == Recorded(PresentedId(c))
        passed == l \in ceiling
        found  == l # NoLogin /\ ~passed
    IN  /\ req[r].pc = "read"
        /\ toDelete' = IF passed THEN toDelete \cup {PresentedId(c)} ELSE toDelete
        /\ \/ /\ req[r].kind \in {"touch", "token"} /\ found
              /\ req' = [req EXCEPT ![r].pc = "save", ![r].login = l]
           \/ /\ req[r].kind \in {"touch", "token"} /\ ~found
              /\ Answer(r, "none")
           \/ /\ req[r].kind = "popup" /\ found
              /\ req' = [req EXCEPT ![r].pc = "drop", ![r].login = l]
           \/ /\ req[r].kind = "popup" /\ ~found
              /\ Goto(r, "exchange") \/ Answer(r, "none")
           \/ /\ req[r].kind = "logout"
              /\ Goto(r, "delete")
        /\ UNCHANGED <<store, jar, usedIds, begun, ceiling, owner, ended>>

\* Mutant: update() is an upsert.
SaveByUpsert(r) ==
    /\ req[r].pc = "save"
    /\ AtomicUpdate
    /\ \E i \in DecryptedIds(req[r].cookies) \ {NoId} :
         /\ Put(i, req[r].login)
         /\ req' = [req EXCEPT ![r].pc = "respond", ![r].res = "set", ![r].id = i]
    /\ UNCHANGED <<jar, usedIds, begun, ceiling, toDelete, ended>>

(* set(isNew = false) with an identifier from the session cookie, on a     *)
(* store with update(): check and write in one step.                       *)
SaveAtomically(r) ==
    /\ req[r].pc = "save"
    /\ AtomicUpdate
    /\ \E i \in DecryptedIds(req[r].cookies) \ {NoId} :
         \/ /\ store[i] = NoLogin
            /\ Answer(r, "none")
            /\ UNCHANGED <<store, owner>>
         \/ /\ store[i] # NoLogin
            /\ Put(i, req[r].login)
            /\ req' = [req EXCEPT ![r].pc = "respond", ![r].res = "set",
                                  ![r].id = i]
    /\ UNCHANGED <<jar, usedIds, begun, ceiling, toDelete, ended>>

(* The same on a store without update(): get(), and the write later.       *)
SaveAfterGet(r) ==
    /\ req[r].pc = "save"
    /\ ~AtomicUpdate
    /\ \E i \in DecryptedIds(req[r].cookies) \ {NoId} :
         IF store[i] = NoLogin
           THEN Answer(r, "none")
           ELSE req' = [req EXCEPT ![r].pc = "write", ![r].id = i]
    /\ UNCHANGED <<store, jar, usedIds, begun, ceiling, toDelete, owner, ended>>

(* set(isNew = false) when the session cookie yields no identifier: the    *)
(* session read from the v3 cookie is stored under a new one, unguarded.   *)
SaveUnderNewId(r) ==
    /\ req[r].pc = "save"
    /\ NoId \in DecryptedIds(req[r].cookies)
    /\ \E i \in Ids \ usedIds :
         /\ usedIds' = usedIds \cup {i}
         /\ req' = [req EXCEPT ![r].pc = "write", ![r].id = i]
    /\ UNCHANGED <<store, jar, begun, ceiling, toDelete, owner, ended>>

(* getTokenSet finds that the ceiling has passed since the session was     *)
(* read: handleAccessToken deletes the session instead of saving it.       *)
CeilingBeforeRefresh(r) ==
    /\ req[r].pc = "save"
    /\ req[r].kind = "token"
    /\ req[r].login \in ceiling
    /\ Goto(r, "delete")
    /\ UNCHANGED <<store, jar, usedIds, begun, ceiling, toDelete, owner, ended>>

\* Mutant: a new login keeps the identifier of the session cookie.
DropOldKeepingId(r) ==
    /\ req[r].pc = "drop"
    /\ \E i \in Ids \ usedIds, old \in DecryptedIds(req[r].cookies) :
         /\ Remove(old, req[r].login)
         /\ usedIds' = usedIds \cup {i}
         /\ req' = [req EXCEPT ![r].pc = "write",
                              ![r].id = IF old = NoId THEN i ELSE old]
    /\ UNCHANGED <<jar, begun, ceiling, toDelete, owner>>

(* set(isNew = true), first half: delete the record of the session cookie  *)
(* and regenerate the identifier.                                          *)
DropOld(r) ==
    /\ req[r].pc = "drop"
    /\ \E i \in Ids \ usedIds, old \in DecryptedIds(req[r].cookies) :
         /\ Remove(old, req[r].login)
         /\ usedIds' = usedIds \cup {i}
         /\ req' = [req EXCEPT ![r].pc = "write", ![r].id = i]
    /\ UNCHANGED <<jar, begun, ceiling, toDelete, owner>>

(* store.set(sessionId, session) and the Set-Cookie header of the response.*)
Write(r) ==
    /\ req[r].pc = "write"
    /\ Put(req[r].id, req[r].login)
    /\ Answer(r, "set")
    /\ UNCHANGED <<jar, usedIds, begun, ceiling, toDelete, ended>>

\* Mutant: logout only clears the cookies.
DeleteCookiesOnly(r) ==
    /\ req[r].pc = "delete"
    /\ Answer(r, "clear")
    /\ UNCHANGED <<store, jar, usedIds, begun, ceiling, toDelete, owner, ended>>

(* delete(): clear the cookies and remove the session cookie's record.     *)
Delete(r) ==
    /\ req[r].pc = "delete"
    /\ \E i \in DecryptedIds(req[r].cookies) : Remove(i, NoLogin)
    /\ Answer(r, "clear")
    /\ UNCHANGED <<jar, usedIds, begun, ceiling, toDelete, owner>>

(* The browser applies the Set-Cookie headers of a response.               *)
Respond(r) ==
    LET hadLegacy == req[r].cookies.legacy # NoId
        legacy == IF req[r].res # "none" /\ hadLegacy THEN NoId ELSE jar.legacy
    IN  /\ req[r].pc = "respond"
        /\ jar' = [session |-> CASE req[r].res = "set"   -> req[r].id
                                 [] req[r].res = "clear" -> NoId
                                 [] OTHER                -> jar.session,
                   legacy |-> legacy]
        /\ req' = [req EXCEPT ![r] = Idle]
        /\ UNCHANGED <<store, usedIds, begun, ceiling, toDelete, owner, ended>>

(* A store call rejects, the process stops or the response is lost.        *)
Fail(r) ==
    /\ MayFail
    /\ req[r].pc # "idle"
    /\ req' = [req EXCEPT ![r] = Idle]
    /\ UNCHANGED <<store, jar, usedIds, begun, ceiling, toDelete, owner, ended>>

-----------------------------------------------------------------------------
(* Back-channel logout.  The claims of a logout token whose signature and  *)
(* issuer were found in order; `event` and `nonce` are those it must have  *)
(* and must not have.                                                      *)
LogoutTokens == [sid : MaybeLogin, sub : BOOLEAN, event : BOOLEAN, nonce : BOOLEAN]

verifyLogoutToken(t) == (t.sid # NoLogin \/ t.sub) /\ t.event /\ ~t.nonce

\* The logins the data store deletes: one, or whichever are the user's.
deleteByLogoutToken(t) ==
    IF t.sid # NoLogin THEN {{t.sid}} ELSE SUBSET Logins

\* Mutant: records are overwritten with the cookie placeholder.
BackChannelLogoutMistyped(t) ==
    /\ verifyLogoutToken(t)
    /\ \E L \in deleteByLogoutToken(t) :
         /\ store' = [i \in Ids |-> IF store[i] \in L THEN NoId ELSE store[i]]
         /\ ended' = ended \cup {store[i] : i \in {j \in Ids : store[j] \in L}}
    /\ UNCHANGED <<jar, req, usedIds, begun, ceiling, toDelete, owner>>

(* handleBackChannelLogout: the records the data store finds are removed.  *)
BackChannelLogout(t) ==
    /\ verifyLogoutToken(t)
    /\ \E L \in deleteByLogoutToken(t) :
         /\ store' = [i \in Ids |-> IF store[i] \in L THEN NoLogin ELSE store[i]]
         /\ ended' = ended \cup {store[i] : i \in {j \in Ids : store[j] \in L}}
    /\ UNCHANGED <<jar, req, usedIds, begun, ceiling, toDelete, owner>>

(* The session_expiry the identity provider asserted for a login passes.   *)
CeilingPasses(l) ==
    /\ l \in begun \ ceiling
    /\ ceiling' = ceiling \cup {l}
    /\ UNCHANGED <<store, jar, req, usedIds, begun, toDelete, owner, ended>>

(* deleteByReqCookies, started by Read and not awaited, runs at some point.*)
DeleteByReqCookies(i) ==
    /\ i \in toDelete
    /\ toDelete' = toDelete \ {i}
    /\ Remove(i, NoLogin)
    /\ UNCHANGED <<jar, req, usedIds, begun, ceiling, owner>>

(* The session cookie's max age ends and the browser drops it.             *)
CookieExpires ==
    /\ jar.session # NoId
    /\ jar' = [jar EXCEPT !.session = NoId]
    /\ UNCHANGED <<store, req, usedIds, begun, ceiling, toDelete, owner, ended>>

Progress(r) ==
    \/ Exchange(r) \/ Read(r)
    \/ SaveAtomically(r) \/ SaveAfterGet(r) \/ SaveUnderNewId(r)
    \/ CeilingBeforeRefresh(r) \/ DropOld(r) \/ Write(r)
    \/ Delete(r) \/ Respond(r)

Next ==
    \/ \E r \in Requests, k \in Kinds : Start(r, k)
    \/ \E r \in Requests : Progress(r) \/ Fail(r)
    \/ \E t \in LogoutTokens : BackChannelLogout(t)
    \/ \E l \in Logins : CeilingPasses(l)
    \/ \E i \in Ids : DeleteByReqCookies(i)
    \/ CookieExpires

Spec == Init /\ [][Next]_vars

(* A handler that has begun runs on: the event loop resumes it whenever    *)
(* the store answers.                                                      *)
FairSpec == Spec /\ \A r \in Requests : WF_vars(Progress(r))

-----------------------------------------------------------------------------
TypeOK ==
    /\ store \in [Ids -> MaybeLogin]
    /\ jar \in Cookies
    /\ req \in [Requests -> Request]
    /\ usedIds \subseteq Ids
    /\ begun \subseteq Logins
    /\ ceiling \subseteq Logins
    /\ toDelete \subseteq Ids
    /\ owner \in [Ids -> MaybeLogin]
    /\ ended \subseteq Logins

(* A login whose record was removed by a logout, a back-channel logout, a  *)
(* newer login or the ceiling has no record again: what the guard in set() *)
(* (stateful-session-store.ts:156-183) is there for.                       *)
NoResurrection == \A i \in Ids : store[i] \notin ended

(* A session identifier never comes to stand for another login than the    *)
(* one it was first stored with, whatever requests overlap: the identifier *)
(* is regenerated at login to prevent session fixation (lines 141-146).         *)
IdBoundToOneLogin == \A i \in Ids : store[i] \in {NoLogin, owner[i]}

(* A login has one record, so removing that record ends it.                *)
OneRecordPerLogin ==
    \A i, j \in Ids : store[i] = store[j] /\ store[i] # NoLogin => i = j

(* Once a record is removed its identifier stays without one: no request   *)
(* that read the identifier earlier brings it back.                        *)
RemovedIdStaysRemoved ==
    [][\A i \in Ids : owner[i] # NoLogin /\ store[i] = NoLogin
                         => store'[i] = NoLogin]_vars

(* The strengthening of NoResurrection and OneRecordPerLogin that every    *)
(* step keeps when all sessions have a v4 cookie and logins come through   *)
(* the redirect flow: every identifier somebody still holds was stored     *)
(* once, a login in progress has no record yet, and no two requests are    *)
(* about to write under one identifier or for one login.                   *)
Owned(l)   == \E i \in Ids : owner[i] = l
Pending(r) == req[r].pc \in {"drop", "write"}
Writing(r) == req[r].pc = "write"

HeldIdsWereStored ==
    /\ jar.session # NoId => owner[jar.session] # NoLogin
    /\ \A r \in Requests :
         /\ req[r].cookies.session # NoId
              => owner[req[r].cookies.session] # NoLogin
         /\ req[r].pc = "respond" /\ req[r].res = "set"
              => req[r].id \in Ids /\ owner[req[r].id] # NoLogin

NoV3OrPopup ==
    /\ jar.legacy = NoId
    /\ \A r \in Requests :
         req[r].cookies.legacy = NoId /\ req[r].kind # "popup"

OwnerIsUnique ==
    /\ \A i \in Ids :
         /\ owner[i] # NoLogin => i \in usedIds /\ owner[i] \in begun
         /\ store[i] # NoLogin => store[i] = owner[i]
    /\ \A i, j \in Ids : owner[i] = owner[j] /\ owner[i] # NoLogin => i = j

EndedIsOver == \A l \in ended : Owned(l) /\ \A i \in Ids : store[i] # l

SavesPresentedLogin ==
    \A r \in Requests : req[r].pc = "save" =>
        /\ req[r].cookies.session # NoId
        /\ req[r].login = owner[req[r].cookies.session]

PendingIsFresh ==
    /\ \A r \in Requests :
         /\ Pending(r) => req[r].login \in begun /\ ~Owned(req[r].login)
         /\ Writing(r) => req[r].id \in usedIds /\ owner[req[r].id] = NoLogin
    /\ \A r, s \in Requests :
         /\ Pending(r) /\ Pending(s) /\ req[r].login = req[s].login => r = s
         /\ Writing(r) /\ Writing(s) /\ req[r].id = req[s].id => r = s

RedirectInv ==
    /\ HeldIdsWereStored
    /\ NoV3OrPopup
    /\ OwnerIsUnique
    /\ EndedIsOver
    /\ SavesPresentedLogin
    /\ PendingIsFresh

(* The record of the session a logout request presented is removed and     *)
(* stays removed, whatever runs beside the logout.                         *)
LogoutEndsPresentedSession ==
    \A r \in Requests, i \in Ids :
        (/\ req[r].kind = "logout" /\ req[r].pc = "read"
         /\ req[r].cookies.session = i)
          ~> [](store[i] = NoLogin)
-----------------------------------------------------------------------------
(* The promise this store keeps when every session has a v4 cookie, logins *)
(* come through the redirect flow and the data store updates atomically.   *)
Recordings(l) == {i \in Ids : owner[i] = l}

Contract == INSTANCE SessionContract WITH
    phase  <- [l \in Logins |->
                 IF \E i \in Ids : store[i] = l THEN "live"
                 ELSE IF l \in ended THEN "over" ELSE "none"],
    holder <- [l \in Logins |->
                 IF Recordings(l) = {} THEN NoId
                 ELSE CHOOSE i \in Ids : owner[i] = l]

(* Logins begin once, under an identifier of their own, and end once: the  *)
(* store implements SessionContract.                                       *)
ImplementsContract == Contract!ContractSpec
=============================================================================
