------------------------- MODULE StatelessSessions -------------------------
(***************************************************************************)
(* Sessions kept in the browser (StatelessSessionStore): the encrypted     *)
(* session in a chunked cookie, the tokens for a connection in a cookie of *)
(* their own, a v3 cookie that may be left from before an upgrade.  A      *)
(* request works on the cookies it arrived with; its response is applied   *)
(* whenever it reaches the browser.                                        *)
(*                                                                         *)
(* Bounds: a write or login that nothing refers to any more is used again, *)
(* so behaviours are unbounded; Writes and Logins bound how many are in    *)
(* use together, Sizes how many cookies a session needs.  There is one     *)
(* connection, hence one cookie for connection tokens.                     *)
(***************************************************************************)
EXTENDS ChunkedCookies

CONSTANTS
    Requests,    \* slots for requests in progress together
    Writes,      \* encrypted sessions in use together
    Logins,      \* logins in use together
    Sizes,       \* numbers of cookies an encrypted session may need
    LegacyLogin  \* the login of a v3 session at the start, or NoLogin

ASSUME StatelessAssumption ==
    /\ Sizes \subseteq 1 .. MaxChunks
    /\ NoWrite \notin Writes /\ NoLogin \notin Logins
    /\ LegacyLogin \in Logins \cup {NoLogin}

VARIABLES
    jar,      \* the browser's cookies
    req       \* the requests in progress

vars == <<jar, req>>

Kinds  == {"touch", "token", "connection", "login", "logout"}
Values == [id : Writes, login : Logins, size : Sizes]

\* `fc` is the login whose connection token the __FC_0 cookie holds, `legacy`
\* the login of the v3 cookie.
EmptyJar == [session |-> EmptyCookie, fc |-> NoLogin, legacy |-> NoLogin]
Nothing  == [session |-> NoPatch, fc |-> {}, legacy |-> {}]
Idle == [kind |-> "touch", pc |-> "idle", jar |-> EmptyJar, value |-> Absent,
         fc |-> NoLogin, res |-> Nothing]

Readable(j)     == getChunkedCookie(j.session)

\* A v3 cookie becomes a session of the same login that has no cookie yet.
convertFromLegacy(l) == [Absent EXCEPT !.login = l]

\* get(): the v3 cookie counts only when there is no complete session cookie,
\* even one that does not decrypt.
SessionOf(j) ==
    IF Complete(j.session) THEN Readable(j) ELSE convertFromLegacy(j.legacy)

\* The cookies of connection tokens among those of j.
getConnectionTokenSetsCookies(j) == {j.fc} \ {NoLogin}

\* What the response says of a cookie: the token written to it, that it is
\* cleared if the request brought it, or nothing.
storeInCookie(tokens) == tokens \ {NoLogin}
deleteCookie(brought) == {NoLogin : c \in brought}

InUse(j) == {j.session[n] : n \in Names}
UsedValues ==
    InUse(jar) \cup UNION {InUse(req[r].jar) \cup {req[r].value}
                             \cup {req[r].res.session[n] : n \in Names}
                           : r \in Requests}
FreshWrites == Writes \ {v.id : v \in UsedValues}
FreshLogins ==
    Logins \ ({v.login : v \in UsedValues} \cup {jar.fc, jar.legacy}
               \cup UNION {{req[r].fc, req[r].jar.fc, req[r].jar.legacy}
                            : r \in Requests})

Init ==
    /\ jar = [EmptyJar EXCEPT !.legacy = LegacyLogin]
    /\ req = [r \in Requests |-> Idle]

-----------------------------------------------------------------------------
Start(r, k) ==
    /\ req[r].pc = "idle"
    /\ req' = [req EXCEPT ![r] = [Idle EXCEPT !.kind = k, !.jar = jar,
                 !.pc = CASE k = "login"  -> "login"
                          [] k = "logout" -> "delete"
                          [] OTHER        -> "read"]]
    /\ UNCHANGED jar

(* get(): no session ends the request; otherwise the handler holds it,     *)
(* and a token request may change how many cookies it needs.               *)
Read(r) ==
    LET s == SessionOf(req[r].jar)
    IN  /\ req[r].pc = "read"
        /\ \/ /\ s.login = NoLogin
              /\ req' = [req EXCEPT ![r].pc = "respond"]
           \/ /\ s.login # NoLogin
              /\ \E n \in IF req[r].kind = "token" \/ s.size = 0
                            THEN Sizes ELSE {s.size} :
                   req' = [req EXCEPT ![r].pc = "save",
                                      ![r].value = [s EXCEPT !.size = n],
                                      ![r].fc = req[r].jar.fc]
        /\ UNCHANGED jar

(* getAccessTokenForConnection: a token that is still valid is returned and*)
(* nothing is saved; otherwise one is exchanged for the session's login.   *)
Connection(r) ==
    /\ req[r].pc = "save"
    /\ req[r].kind = "connection"
    /\ \/ /\ req[r].fc # NoLogin
          /\ req' = [req EXCEPT ![r].pc = "respond"]
       \/ req' = [req EXCEPT ![r].kind = "token", ![r].fc = req[r].value.login]
    /\ UNCHANGED jar

(* The callback of a login: a session without connection tokens.           *)
Login(r) ==
    /\ req[r].pc = "login"
    /\ \E l \in FreshLogins, n \in Sizes :
         req' = [req EXCEPT ![r].pc = "save",
                   ![r].value = [id |-> NoWrite, login |-> l, size |-> n]]
    /\ UNCHANGED jar

\* Mutant: what was read is written back, and not what was encrypted.
SavePatchPlain(x, v) ==
    [session |-> setChunkedCookie(x.jar.session, x.value), fc |-> {}, legacy |-> {}]

\* The patch of set(): the session cookie, the connection cookie if the
\* session has a token, and the v3 cookie if the request brought it.
SavePatch(x, v) ==
    [session |-> setChunkedCookie(x.jar.session, v),
     fc      |-> storeInCookie({x.fc}),
     legacy  |-> deleteCookie({x.jar.legacy} \ {NoLogin})]

(* set(): encrypt and write the cookies of the response.                   *)
Save(r) ==
    /\ req[r].pc = "save"
    /\ req[r].kind # "connection"
    /\ \E w \in FreshWrites :
         LET v == [req[r].value EXCEPT !.id = w]
         IN  req' = [req EXCEPT ![r].pc = "respond", ![r].value = v,
                                ![r].res = SavePatch(req[r], v)]
    /\ UNCHANGED jar

\* Mutant: logout forgets the cookie of the connection token.
DeletePatchSessionOnly(j) ==
    [session |-> deleteChunkedCookie(j.session),
     fc      |-> {},
     legacy  |-> deleteCookie({j.legacy} \ {NoLogin})]

\* The patch of delete(): every cookie of the session the request brought.
DeletePatch(j) ==
    [session |-> deleteChunkedCookie(j.session),
     fc      |-> deleteCookie(getConnectionTokenSetsCookies(j)),
     legacy  |-> deleteCookie({j.legacy} \ {NoLogin})]

Delete(r) ==
    /\ req[r].pc = "delete"
    /\ req' = [req EXCEPT ![r].pc = "respond",
                          ![r].res = DeletePatch(req[r].jar)]
    /\ UNCHANGED jar

OneOf(p, old) == IF p = {} THEN old ELSE CHOOSE x \in p : TRUE

ApplyResponse(j, p) ==
    [session |-> Apply(j.session, p.session),
     fc      |-> OneOf(p.fc, j.fc),
     legacy  |-> OneOf(p.legacy, j.legacy)]

(* The browser applies a response.                                         *)
Respond(r) ==
    /\ req[r].pc = "respond"
    /\ jar' = ApplyResponse(jar, req[r].res)
    /\ req' = [req EXCEPT ![r] = Idle]

(* A handler fails or its response is lost.                                *)
Fail(r) ==
    /\ req[r].pc # "idle"
    /\ req' = [req EXCEPT ![r] = Idle]
    /\ UNCHANGED jar

Next ==
    \E r \in Requests :
        \/ \E k \in Kinds : Start(r, k)
        \/ Read(r) \/ Connection(r) \/ Login(r) \/ Save(r)
        \/ Delete(r) \/ Respond(r) \/ Fail(r)

Spec == Init /\ [][Next]_vars

-----------------------------------------------------------------------------
TypeOK ==
    /\ jar.session \in [Names -> Values \cup {Absent}]
    /\ {jar.fc, jar.legacy} \subseteq Logins \cup {NoLogin}
    /\ \A r \in Requests :
         /\ req[r].kind \in Kinds
         /\ req[r].value.login \in Logins \cup {NoLogin}
         /\ req[r].res.session \in [Names -> Values \cup {Absent, Keep}]

\* r's response is applied in this step, to the very cookies it arrived with.
AppliedAlone(r) ==
    /\ req[r].pc = "respond"
    /\ req[r].jar = jar
    /\ req'[r] = Idle
    /\ jar' = ApplyResponse(jar, req[r].res)

(* When nothing else changed the browser's cookies meanwhile, the session  *)
(* a request saved is the session the next request reads, whatever earlier *)
(* overlapping responses left behind: stale chunks and a stale base cookie *)
(* are cleaned up (setChunkedCookie, cookies.ts:237-294).                     *)
LoneSaveReadsBack ==
    [][\A r \in Requests :
         AppliedAlone(r) /\ req[r].res # Nothing /\ req[r].kind # "logout"
            => Readable(jar') = req[r].value]_vars

(* A logout that nothing overlaps leaves no session, no connection token   *)
(* and no v3 cookie in the browser.                                        *)
LoneLogoutClears ==
    [][\A r \in Requests :
         AppliedAlone(r) /\ req[r].kind = "logout" => jar' = EmptyJar]_vars
=============================================================================
