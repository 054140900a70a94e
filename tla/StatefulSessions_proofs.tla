---------------------- MODULE StatefulSessions_proofs ----------------------
(***************************************************************************)
(* Theorems about StatefulSessions, for every set of requests, identifiers *)
(* and logins.                                                             *)
(***************************************************************************)
EXTENDS StatefulSessions, TLAPS

(* A logout token names logins, by its `sid` or through the data store.    *)
LEMMA LogoutNames ==
  ASSUME NEW t \in LogoutTokens
  PROVE  \A L \in deleteByLogoutToken(t) : L \in SUBSET Logins
  BY DEF LogoutTokens, deleteByLogoutToken, MaybeLogin

(* Every variable keeps its type under every kind of request, v3 cookies,  *)
(* lapsing cookies and failures.                                           *)
LEMMA TypeInit == Init => TypeOK
  BY ConstantsAssumption
     DEF Init, InitEmpty, InitLegacy, TypeOK, Idle, NoCookies, Request, Steps,
         AllKinds, Cookies, MaybeId, MaybeLogin

LEMMA TypeNext == TypeOK /\ [Next]_vars => TypeOK'
<1> SUFFICES ASSUME TypeOK, [Next]_vars PROVE TypeOK'
  OBVIOUS
<1> USE ConstantsAssumption DEF MaybeId, MaybeLogin
<1>0. req \in [Requests -> Request]
  BY DEF TypeOK
<1>1. ASSUME NEW r \in Requests, NEW k \in Kinds, Start(r, k) PROVE TypeOK'
  BY <1>1 DEF TypeOK, Start, Idle, NoCookies, Request, Steps, AllKinds, Cookies
<1>2. ASSUME NEW r \in Requests, Exchange(r) PROVE TypeOK'
  <2>1. PICK l \in Logins :
           /\ begun' = begun \cup {l}
           /\ req' = [req EXCEPT ![r].pc = "drop", ![r].login = l]
    BY <1>2 DEF TypeOK, Exchange
  <2>2. req' \in [Requests -> Request]
    BY <1>0, <2>1 DEF Request, Steps
  <2> QED BY <1>2, <2>1, <2>2 DEF TypeOK, Exchange
<1>3. ASSUME NEW r \in Requests, Read(r) PROVE TypeOK'
  <2> DEFINE c == req[r].cookies
  <2>1. c \in Cookies
    BY DEF TypeOK, Request
  <2>2. PresentedId(c) \in Ids \cup {NoId}
    BY <2>1 DEF TypeOK, PresentedId, Cookies
  <2>3. Recorded(PresentedId(c)) \in Logins \cup {NoLogin}
    BY <2>2 DEF TypeOK, Recorded
  <2>4. req' \in [Requests -> Request]
    BY <1>0, <1>3, <2>3 DEF Read, Answer, Goto, Request, Steps
  <2>5. toDelete' \subseteq Ids
    <3>1. CASE Recorded(PresentedId(c)) \in ceiling
      <4>1. PresentedId(c) \in Ids
        BY <3>1, <2>2 DEF TypeOK, Recorded
      <4> QED BY <1>3, <3>1, <4>1 DEF TypeOK, Read
    <3>2. CASE Recorded(PresentedId(c)) \notin ceiling
      BY <1>3, <3>2 DEF TypeOK, Read
    <3> QED BY <3>1, <3>2
  <2> QED BY <1>3, <2>4, <2>5 DEF TypeOK, Read
<1>4. ASSUME NEW r \in Requests, SaveAtomically(r) PROVE TypeOK'
  <2>1. PICK i \in DecryptedIds(req[r].cookies) \ {NoId} :
           \/ store[i] = NoLogin /\ Answer(r, "none") /\ UNCHANGED <<store, owner>>
           \/ /\ Put(i, req[r].login)
              /\ req' = [req EXCEPT ![r].pc = "respond", ![r].res = "set",
                                    ![r].id = i]
    BY <1>4 DEF TypeOK, SaveAtomically
  <2>2. i \in Ids
    BY <2>1 DEF TypeOK, DecryptedIds, Request, Cookies
  <2>3. req[r].login \in Logins \cup {NoLogin}
    BY DEF TypeOK, Request
  <2>4. req' \in [Requests -> Request]
    BY <1>0, <2>1, <2>2 DEF Answer, Request, Steps
  <2>5. store' \in [Ids -> Logins \cup {NoLogin}] /\ owner' \in [Ids -> Logins \cup {NoLogin}]
    BY <2>1, <2>2, <2>3 DEF TypeOK, Put
  <2> QED BY <1>4, <2>4, <2>5 DEF TypeOK, SaveAtomically
<1>5. ASSUME NEW r \in Requests, SaveAfterGet(r) PROVE TypeOK'
  <2>1. PICK i \in DecryptedIds(req[r].cookies) \ {NoId} :
           \/ Answer(r, "none")
           \/ req' = [req EXCEPT ![r].pc = "write", ![r].id = i]
    BY <1>5 DEF TypeOK, SaveAfterGet
  <2>2. i \in Ids
    BY <2>1 DEF TypeOK, DecryptedIds, Request, Cookies
  <2>3. req' \in [Requests -> Request]
    BY <1>0, <2>1, <2>2 DEF Answer, Request, Steps
  <2> QED BY <1>5, <2>3 DEF TypeOK, SaveAfterGet
<1>6. ASSUME NEW r \in Requests, SaveUnderNewId(r) PROVE TypeOK'
  <2>1. PICK i \in Ids :
           /\ usedIds' = usedIds \cup {i}
           /\ req' = [req EXCEPT ![r].pc = "write", ![r].id = i]
    BY <1>6 DEF TypeOK, SaveUnderNewId
  <2>2. req' \in [Requests -> Request]
    BY <1>0, <2>1 DEF Request, Steps
  <2> QED BY <1>6, <2>1, <2>2 DEF TypeOK, SaveUnderNewId
<1>7. ASSUME NEW r \in Requests, CeilingBeforeRefresh(r) PROVE TypeOK'
  BY <1>7 DEF TypeOK, CeilingBeforeRefresh, Goto, Request, Steps
<1>8. ASSUME NEW i \in Ids \cup {NoId}, NEW l, Remove(i, l)
      PROVE  store' \in [Ids -> Logins \cup {NoLogin}] /\ ended' \subseteq Logins
  BY <1>8 DEF TypeOK, Remove, Recorded
<1>9. ASSUME NEW r \in Requests, DropOld(r) PROVE TypeOK'
  <2>1. PICK i \in Ids \ usedIds, old \in DecryptedIds(req[r].cookies) :
           /\ Remove(old, req[r].login)
           /\ usedIds' = usedIds \cup {i}
           /\ req' = [req EXCEPT ![r].pc = "write", ![r].id = i]
    BY <1>9 DEF TypeOK, DropOld
  <2>2. old \in Ids \cup {NoId}
    BY <2>1 DEF TypeOK, DecryptedIds, Request, Cookies
  <2>3. store' \in [Ids -> Logins \cup {NoLogin}] /\ ended' \subseteq Logins
    BY <2>1, <2>2, <1>8 DEF TypeOK
  <2>4. req' \in [Requests -> Request]
    BY <1>0, <2>1 DEF Request, Steps
  <2> QED BY <1>9, <2>1, <2>3, <2>4 DEF TypeOK, DropOld
<1>10. ASSUME NEW r \in Requests, Write(r) PROVE TypeOK'
  <2>1. req[r].login \in Logins \cup {NoLogin}
    BY DEF TypeOK, Request
  <2>2. store' \in [Ids -> Logins \cup {NoLogin}] /\ owner' \in [Ids -> Logins \cup {NoLogin}]
    BY <1>10, <2>1 DEF TypeOK, Write, Put
  <2>3. req' \in [Requests -> Request]
    BY <1>0, <1>10 DEF Write, Answer, Request, Steps
  <2> QED BY <1>10, <2>2, <2>3 DEF TypeOK, Write
<1>11. ASSUME NEW r \in Requests, Delete(r) PROVE TypeOK'
  <2>1. PICK i \in DecryptedIds(req[r].cookies) : Remove(i, NoLogin)
    BY <1>11 DEF TypeOK, Delete
  <2>2. i \in Ids \cup {NoId}
    BY <2>1 DEF TypeOK, DecryptedIds, Request, Cookies
  <2>3. store' \in [Ids -> Logins \cup {NoLogin}] /\ ended' \subseteq Logins
    BY <2>1, <2>2, <1>8 DEF TypeOK
  <2>4. req' \in [Requests -> Request]
    BY <1>0, <1>11 DEF Delete, Answer, Request, Steps
  <2> QED BY <1>11, <2>3, <2>4 DEF TypeOK, Delete
<1>12. ASSUME NEW r \in Requests, Respond(r) PROVE TypeOK'
  <2>1. req[r] \in Request
    BY <1>0
  <2>2. jar' \in Cookies
    BY <1>12, <2>1 DEF TypeOK, Respond, Request, Cookies
  <2>3. req' \in [Requests -> Request]
    BY <1>0, <1>12 DEF Respond, Idle, NoCookies, Request, Steps, AllKinds, Cookies
  <2> QED BY <1>12, <2>2, <2>3 DEF TypeOK, Respond
<1>13. ASSUME NEW r \in Requests, Fail(r) PROVE TypeOK'
  BY <1>13 DEF TypeOK, Fail, Idle, NoCookies, Request, Steps, AllKinds, Cookies
<1>14. ASSUME NEW t \in LogoutTokens, BackChannelLogout(t) PROVE TypeOK'
  <2>1. PICK L \in SUBSET Logins :
           /\ store' = [i \in Ids |-> IF store[i] \in L THEN NoLogin ELSE store[i]]
           /\ ended' = ended \cup {store[i] : i \in {j \in Ids : store[j] \in L}}
    BY <1>14, LogoutNames DEF BackChannelLogout
  <2>2. store' \in [Ids -> MaybeLogin] /\ ended' \subseteq Logins
    BY <2>1 DEF TypeOK, MaybeLogin
  <2> QED BY <1>14, <2>2 DEF TypeOK, BackChannelLogout
<1>15. ASSUME NEW l \in Logins, CeilingPasses(l) PROVE TypeOK'
  BY <1>15 DEF TypeOK, CeilingPasses
<1>16. ASSUME NEW i \in Ids, DeleteByReqCookies(i) PROVE TypeOK'
  BY <1>8, <1>16 DEF TypeOK, DeleteByReqCookies
<1>17. CASE CookieExpires
  BY <1>17 DEF TypeOK, CookieExpires, Cookies
<1>18. CASE UNCHANGED vars
  BY <1>18 DEF TypeOK, vars
<1> QED
  BY <1>1, <1>2, <1>3, <1>4, <1>5, <1>6, <1>7, <1>9, <1>10, <1>11, <1>12,
     <1>13, <1>14, <1>15, <1>16, <1>17, <1>18 DEF Next, Progress

(* Types hold in every reachable state of every instance.                  *)
THEOREM TypeCorrect == Spec => []TypeOK
  BY TypeInit, TypeNext, PTL DEF Spec
-----------------------------------------------------------------------------
(* The deployment the guard in set() was written for: an atomic update(),  *)
(* v4 cookies that outlive the request, logins through the redirect flow.  *)
RedirectDeployment ==
    /\ AtomicUpdate = TRUE
    /\ LegacyCookies = FALSE
    /\ CookieMayLapse = FALSE
    /\ "popup" \notin Kinds

\* How a step changes the request it belongs to.
Becomes(r, pc, login, id, res) ==
    /\ req'[r].kind = req[r].kind
    /\ req'[r].cookies = req[r].cookies
    /\ req'[r].pc = pc
    /\ req'[r].login = login
    /\ req'[r].id = id
    /\ req'[r].res = res
    /\ \A s \in Requests \ {r} : req'[s] = req[s]

\* The request slot is free again.
Frees(r) ==
    /\ req'[r] = Idle
    /\ \A s \in Requests \ {r} : req'[s] = req[s]

LEMMA RedirectInit ==
  ASSUME RedirectDeployment, Init
  PROVE  RedirectInv
  BY ConstantsAssumption
     DEF RedirectDeployment, Init, InitEmpty, RedirectInv, HeldIdsWereStored,
         NoV3OrPopup, OwnerIsUnique, EndedIsOver, SavesPresentedLogin,
         PendingIsFresh, Pending, Writing, Owned, Idle, NoCookies

(* A step that leaves the store and its history alone and frees a slot or  *)
(* moves a request to a step with no obligation keeps the invariant.       *)
LEMMA QuietStep ==
  ASSUME TypeOK, RedirectInv, NEW r \in Requests,
         UNCHANGED <<store, owner, ended, usedIds, begun>>,
         jar'.legacy = NoId,
         jar'.session # NoId => owner[jar'.session] # NoLogin,
         \/ Frees(r)
         \/ /\ req'[r].kind # "popup"
            /\ req'[r].cookies.legacy = NoId
            /\ req'[r].cookies.session # NoId
                 => owner[req'[r].cookies.session] # NoLogin
            /\ \/ req'[r].pc \in {"read", "exchange", "delete"}
               \/ req'[r].pc = "respond" /\ req'[r].res # "set"
            /\ \A s \in Requests \ {r} : req'[s] = req[s]
  PROVE  RedirectInv'
<1> USE DEF Frees, Idle, NoCookies
<1>1. HeldIdsWereStored'
  BY DEF RedirectInv, HeldIdsWereStored
<1>2. NoV3OrPopup'
  BY DEF RedirectInv, NoV3OrPopup
<1>3. OwnerIsUnique' /\ EndedIsOver'
  BY DEF RedirectInv, OwnerIsUnique, EndedIsOver, Owned
<1>4. SavesPresentedLogin'
  BY DEF RedirectInv, SavesPresentedLogin
<1>5. PendingIsFresh'
  BY DEF RedirectInv, PendingIsFresh, Pending, Writing, Owned
<1> QED BY <1>1, <1>2, <1>3, <1>4, <1>5 DEF RedirectInv

(* Removing records, and remembering the logins they belonged to, keeps    *)
(* what the invariant says of the store.                                   *)
LEMMA RemovalStep ==
  ASSUME TypeOK, RedirectInv, NEW S \in SUBSET Ids,
         store' = [i \in Ids |-> IF i \in S THEN NoLogin ELSE store[i]],
         ended' = ended \cup ({store[i] : i \in S} \ {NoLogin}),
         owner' = owner, begun' = begun, usedIds \subseteq usedIds'
  PROVE  OwnerIsUnique' /\ EndedIsOver'
  BY DEF RedirectInv, OwnerIsUnique, EndedIsOver, Owned, TypeOK, MaybeLogin

(* The record an identifier of a request's cookie leads to is removed.     *)
LEMMA RemoveIsRemoval ==
  ASSUME TypeOK, RedirectInv, NEW i \in MaybeId, NEW keep,
         Remove(i, keep), \A j \in Ids : j = i => store[j] # keep \/ keep = NoLogin,
         owner' = owner, begun' = begun, usedIds \subseteq usedIds'
  PROVE  OwnerIsUnique' /\ EndedIsOver'
<1> DEFINE S == IF i = NoId THEN {} ELSE {i}
<1>1. S \in SUBSET Ids
  BY DEF MaybeId
<1>2. store' = [j \in Ids |-> IF j \in S THEN NoLogin ELSE store[j]]
  BY ConstantsAssumption DEF Remove
<1>3. ended' = ended \cup ({store[j] : j \in S} \ {NoLogin})
  BY ConstantsAssumption DEF Remove, Recorded, MaybeId
<1> QED BY <1>1, <1>2, <1>3, RemovalStep

(* PendingIsFresh after a step, from what holds of each request on its own *)
(* and of each pair of requests.                                           *)
LEMMA PendingParts ==
  ASSUME \A s \in Requests : Pending(s)' =>
             req'[s].login \in begun' /\ ~Owned(req[s].login)',
         \A s \in Requests : Writing(s)' =>
             req'[s].id \in usedIds' /\ owner'[req'[s].id] = NoLogin,
         \A s, t \in Requests :
             Pending(s)' /\ Pending(t)' /\ req'[s].login = req'[t].login => s = t,
         \A s, t \in Requests :
             Writing(s)' /\ Writing(t)' /\ req'[s].id = req'[t].id => s = t
  PROVE  PendingIsFresh'
  BY DEF PendingIsFresh, Pending, Writing, Owned

LEMMA RedirectNext ==
  ASSUME RedirectDeployment, TypeOK, RedirectInv, [Next]_vars
  PROVE  RedirectInv'
<1> USE ConstantsAssumption
<1>0. /\ \A r \in Requests : req[r] \in Request
      /\ \A r \in Requests : req[r].cookies \in Cookies
      /\ \A c \in Cookies : DecryptedIds(c) = {c.session}
      /\ \A r \in Requests : req[r].kind # "popup"
  BY DEF TypeOK, Request, DecryptedIds, RedirectDeployment, RedirectInv, NoV3OrPopup
<1>1. ASSUME NEW r \in Requests, NEW k \in Kinds, Start(r, k) PROVE RedirectInv'
  <2>1. /\ req'[r].kind = k /\ req'[r].cookies = jar
        /\ req'[r].pc \in {"read", "exchange"}
        /\ \A s \in Requests \ {r} : req'[s] = req[s]
    BY <1>1 DEF Start, TypeOK, Idle
  <2>2. jar.legacy = NoId /\ (jar.session # NoId => owner[jar.session] # NoLogin)
    BY DEF RedirectInv, NoV3OrPopup, HeldIdsWereStored
  <2> QED BY <1>1, <2>1, <2>2, QuietStep DEF Start, RedirectDeployment
<1>2. ASSUME NEW r \in Requests, Exchange(r) PROVE RedirectInv'
  <2>1. PICK l \in Logins \ begun :
           /\ begun' = begun \cup {l}
           /\ req' = [req EXCEPT ![r].pc = "drop", ![r].login = l]
    BY <1>2 DEF Exchange
  <2>2. Becomes(r, "drop", l, req[r].id, req[r].res)
    BY <1>0, <2>1 DEF Becomes, TypeOK, Request
  <2>3. ~Owned(l) /\ l # NoLogin
    BY <2>1 DEF RedirectInv, OwnerIsUnique, Owned
  <2>4. UNCHANGED <<store, jar, usedIds, owner, ended>>
    BY <1>2 DEF Exchange
  <2>5. OwnerIsUnique' /\ EndedIsOver'
    BY <2>1, <2>4 DEF RedirectInv, OwnerIsUnique, EndedIsOver, Owned
  <2>6. HeldIdsWereStored' /\ NoV3OrPopup' /\ SavesPresentedLogin'
    BY <2>2, <2>4
       DEF Becomes, RedirectInv, HeldIdsWereStored, NoV3OrPopup, SavesPresentedLogin
  <2>7. ASSUME NEW s \in Requests, s # r, Pending(s)'
        PROVE  Pending(s) /\ req[s].login \in begun /\ req[s].login # l
    BY <2>1, <2>2, <2>7 DEF Becomes, RedirectInv, PendingIsFresh, Pending
  <2>8. PendingIsFresh'
    <3>1. \A s \in Requests : Pending(s)' =>
             req'[s].login \in begun' /\ ~Owned(req[s].login)'
      <4>1. ASSUME NEW s \in Requests, s # r, Pending(s)'
            PROVE  req'[s] = req[s] /\ req[s].login \in begun' /\ ~Owned(req[s].login)
        BY <2>1, <2>2, <2>7, <4>1 DEF Becomes, RedirectInv, PendingIsFresh
      <4>2. req'[r].login = l /\ l \in begun'
        BY <2>1, <2>2 DEF Becomes
      <4> QED BY <2>3, <2>4, <4>1, <4>2 DEF Owned
    <3>2. \A s \in Requests : Writing(s)' =>
             req'[s].id \in usedIds' /\ owner'[req'[s].id] = NoLogin
      BY <2>2, <2>4 DEF Becomes, RedirectInv, PendingIsFresh, Writing
    <3>3. \A s, t \in Requests :
             Pending(s)' /\ Pending(t)' /\ req'[s].login = req'[t].login => s = t
      BY <2>2, <2>7 DEF Becomes, RedirectInv, PendingIsFresh, Pending
    <3>4. \A s, t \in Requests :
             Writing(s)' /\ Writing(t)' /\ req'[s].id = req'[t].id => s = t
      BY <2>2 DEF Becomes, RedirectInv, PendingIsFresh, Writing
    <3> QED BY <3>1, <3>2, <3>3, <3>4, PendingParts
  <2> QED BY <2>5, <2>6, <2>8 DEF RedirectInv
<1>3. ASSUME NEW r \in Requests, Read(r) PROVE RedirectInv'
  <2>1. UNCHANGED <<store, jar, usedIds, begun, owner, ended>>
    BY <1>3 DEF Read
  <2> DEFINE c == req[r].cookies
             l == Recorded(PresentedId(c))
  <2>2. PresentedId(c) = c.session
    BY DEF PresentedId, RedirectInv, NoV3OrPopup
  <2>3. CASE Goto(r, "delete") \/ Answer(r, "none")
    <3>1. /\ req'[r].kind = req[r].kind /\ req'[r].cookies = req[r].cookies
          /\ \/ req'[r].pc = "delete"
             \/ req'[r].pc = "respond" /\ req'[r].res = "none"
          /\ \A s \in Requests \ {r} : req'[s] = req[s]
      BY <1>0, <2>3 DEF Goto, Answer, TypeOK, Request
    <3> QED BY <1>0, <2>1, <3>1, QuietStep DEF RedirectInv, NoV3OrPopup, HeldIdsWereStored
  <2>4. CASE l # NoLogin /\ req' = [req EXCEPT ![r].pc = "save", ![r].login = l]
    <3>1. Becomes(r, "save", l, req[r].id, req[r].res)
      BY <1>0, <2>4 DEF Becomes, TypeOK, Request
    <3>2. c.session \in Ids /\ l = store[c.session]
      BY <1>0, <2>2, <2>4 DEF Recorded, Cookies, MaybeId
    <3>3. l = owner[c.session]
      BY <2>4, <3>2 DEF RedirectInv, OwnerIsUnique
    <3> QED
      BY <2>1, <3>1, <3>2, <3>3
         DEF Becomes, RedirectInv, HeldIdsWereStored, NoV3OrPopup, OwnerIsUnique,
             EndedIsOver, SavesPresentedLogin, PendingIsFresh, Pending, Writing, Owned
  <2> QED BY <1>0, <1>3, <2>3, <2>4 DEF Read
<1>4. ASSUME NEW r \in Requests, SaveAtomically(r) PROVE RedirectInv'
  <2>1. UNCHANGED <<jar, usedIds, begun, ended>> /\ req[r].pc = "save"
    BY <1>4 DEF SaveAtomically
  <2> DEFINE i == req[r].cookies.session
  <2>2. i \in Ids /\ req[r].login = owner[i] /\ i # NoId
    BY <1>0, <2>1 DEF RedirectInv, SavesPresentedLogin, Cookies, MaybeId
  <2>3. CASE store[i] = NoLogin /\ Answer(r, "none") /\ UNCHANGED <<store, owner>>
    <3>1. Becomes(r, "respond", req[r].login, req[r].id, "none")
      BY <1>0, <2>3 DEF Becomes, Answer, TypeOK, Request
    <3> QED BY <1>0, <2>1, <2>3, <3>1, QuietStep
            DEF Becomes, RedirectInv, NoV3OrPopup, HeldIdsWereStored
  <2>4. CASE /\ store[i] # NoLogin /\ Put(i, req[r].login)
             /\ req' = [req EXCEPT ![r].pc = "respond", ![r].res = "set", ![r].id = i]
    <3>1. Becomes(r, "respond", req[r].login, i, "set")
      BY <1>0, <2>4 DEF Becomes, TypeOK, Request
    <3>2. store[i] = owner[i]
      BY <2>2, <2>4 DEF RedirectInv, OwnerIsUnique
    <3>3. store' = store /\ owner' = owner
      BY <2>2, <2>4, <3>2 DEF Put, TypeOK
    <3>4. owner[i] # NoLogin
      BY <2>4, <3>2
    <3> QED
      BY <2>1, <2>2, <3>1, <3>3, <3>4
         DEF Becomes, RedirectInv, HeldIdsWereStored, NoV3OrPopup, OwnerIsUnique,
             EndedIsOver, SavesPresentedLogin, PendingIsFresh, Pending, Writing, Owned
  <2> QED BY <1>0, <1>4, <2>2, <2>3, <2>4 DEF SaveAtomically
<1>5. ASSUME NEW r \in Requests, SaveAfterGet(r) PROVE RedirectInv'
  BY <1>5 DEF SaveAfterGet, RedirectDeployment
<1>6. ASSUME NEW r \in Requests, SaveUnderNewId(r) PROVE RedirectInv'
  BY <1>0, <1>6 DEF SaveUnderNewId, RedirectInv, SavesPresentedLogin
<1>7. ASSUME NEW r \in Requests, CeilingBeforeRefresh(r) PROVE RedirectInv'
  <2>1. Becomes(r, "delete", req[r].login, req[r].id, req[r].res)
    BY <1>0, <1>7 DEF CeilingBeforeRefresh, Goto, Becomes, TypeOK, Request
  <2> QED BY <1>0, <1>7, <2>1, QuietStep
          DEF CeilingBeforeRefresh, Becomes, RedirectInv, NoV3OrPopup, HeldIdsWereStored
<1>8. ASSUME NEW r \in Requests, DropOld(r) PROVE RedirectInv'
  <2> DEFINE old == req[r].cookies.session
             l   == req[r].login
  <2>0. DecryptedIds(req[r].cookies) = {old}
    BY <1>0
  <2>1. PICK i \in Ids \ usedIds :
           /\ Remove(old, l)
           /\ usedIds' = usedIds \cup {i}
           /\ req' = [req EXCEPT ![r].pc = "write", ![r].id = i]
    <3> HIDE DEF old
    <3> QED BY <2>0, <1>8 DEF DropOld
  <2>2. Becomes(r, "write", l, i, req[r].res)
    BY <1>0, <2>1 DEF Becomes, TypeOK, Request
  <2>3. UNCHANGED <<jar, begun, owner>> /\ Pending(r)
    BY <1>8 DEF DropOld, Pending
  <2>4. l \in begun /\ ~Owned(l)
    BY <2>3 DEF RedirectInv, PendingIsFresh
  <2>5. owner[i] = NoLogin
    BY <2>1 DEF RedirectInv, OwnerIsUnique
  <2>6. OwnerIsUnique' /\ EndedIsOver'
    <3>1. old \in MaybeId
      BY <1>0 DEF Cookies
    <3>2. \A j \in Ids : store[j] # l
      BY <2>4 DEF RedirectInv, OwnerIsUnique, Owned, TypeOK
    <3> QED BY <2>1, <2>3, <3>1, <3>2, RemoveIsRemoval
  <2>7. HeldIdsWereStored' /\ NoV3OrPopup' /\ SavesPresentedLogin'
    BY <2>2, <2>3 DEF Becomes, RedirectInv, HeldIdsWereStored, NoV3OrPopup, SavesPresentedLogin
  <2>8. ASSUME NEW s \in Requests, s # r, Pending(s)'
        PROVE  /\ req'[s] = req[s] /\ Pending(s) /\ (Writing(s)' => Writing(s))
               /\ Writing(s) => req[s].id # i
    BY <2>1, <2>2, <2>8 DEF Becomes, RedirectInv, PendingIsFresh, Pending, Writing
  <2>9. PendingIsFresh'
    <3>1. \A s \in Requests : Pending(s)' =>
             req'[s].login \in begun' /\ ~Owned(req[s].login)'
      BY <2>2, <2>3, <2>4, <2>8 DEF Becomes, RedirectInv, PendingIsFresh, Pending, Owned
    <3>2. \A s \in Requests : Writing(s)' =>
             req'[s].id \in usedIds' /\ owner'[req'[s].id] = NoLogin
      <4>1. ASSUME NEW s \in Requests, s # r, Writing(s)'
            PROVE  /\ req'[s] = req[s] /\ req[s].id \in usedIds'
                   /\ owner'[req[s].id] = NoLogin
        <5>1. Writing(s) /\ req'[s] = req[s]
          BY <2>2, <4>1 DEF Becomes, Writing
        <5>2. req[s].id \in usedIds /\ owner[req[s].id] = NoLogin
          BY <5>1 DEF RedirectInv, PendingIsFresh
        <5> QED BY <2>1, <2>3, <5>1, <5>2
      <4>2. req'[r].id = i /\ i \in usedIds' /\ owner'[i] = NoLogin
        BY <2>1, <2>2, <2>3, <2>5 DEF Becomes
      <4> QED BY <4>1, <4>2
    <3>3. \A s, t \in Requests :
             Pending(s)' /\ Pending(t)' /\ req'[s].login = req'[t].login => s = t
      BY <2>2, <2>3, <2>8 DEF Becomes, RedirectInv, PendingIsFresh, Pending
    <3>4. \A s, t \in Requests :
             Writing(s)' /\ Writing(t)' /\ req'[s].id = req'[t].id => s = t
      <4>1. \A s \in Requests : Writing(s)' => Pending(s)'
        BY DEF Writing, Pending
      <4> QED BY <2>2, <2>8, <4>1 DEF Becomes, RedirectInv, PendingIsFresh, Pending, Writing
    <3> QED BY <3>1, <3>2, <3>3, <3>4, PendingParts
  <2> QED BY <2>6, <2>7, <2>9 DEF RedirectInv
<1>9. ASSUME NEW r \in Requests, Write(r) PROVE RedirectInv'
  <2> DEFINE i == req[r].id
             l == req[r].login
  <2>1. UNCHANGED <<jar, usedIds, begun, ended>> /\ Writing(r) /\ Pending(r)
    BY <1>9 DEF Write, Writing, Pending
  <2>2. Becomes(r, "respond", l, i, "set")
    BY <1>0, <1>9 DEF Write, Answer, Becomes, TypeOK, Request
  <2>3. /\ i \in usedIds /\ i \in Ids /\ owner[i] = NoLogin
        /\ l \in begun /\ l # NoLogin /\ ~Owned(l)
    BY <2>1 DEF RedirectInv, PendingIsFresh, TypeOK
  <2>4. /\ store' = [store EXCEPT ![i] = l]
        /\ owner' = [owner EXCEPT ![i] = l]
    BY <1>9, <2>3 DEF Write, Put
  <2>5. /\ store'[i] = l /\ owner'[i] = l
        /\ \A j \in Ids \ {i} : store'[j] = store[j] /\ owner'[j] = owner[j]
    BY <2>3, <2>4 DEF TypeOK
  <2>6. OwnerIsUnique'
    BY <2>1, <2>3, <2>5 DEF RedirectInv, OwnerIsUnique, Owned
  <2>7. EndedIsOver'
    <3>1. ASSUME NEW m \in ended
          PROVE  /\ m # l
                 /\ \E j \in Ids : j # i /\ owner[j] = m
                 /\ \A j \in Ids : store[j] # m
      <4>1. m # NoLogin /\ Owned(m) /\ \A j \in Ids : store[j] # m
        BY DEF RedirectInv, EndedIsOver, TypeOK
      <4> QED BY <2>3, <4>1 DEF Owned
    <3> QED BY <2>1, <2>5, <3>1 DEF EndedIsOver, Owned
  <2>8. HeldIdsWereStored'
    <3>1. \A j \in Ids : owner[j] # NoLogin => owner'[j] # NoLogin
      BY <2>3, <2>5
    <3>2. jar.session \in Ids \cup {NoId} /\ \A s \in Requests : req[s].cookies.session \in Ids \cup {NoId}
      BY <1>0 DEF TypeOK, Cookies, MaybeId
    <3> QED BY <2>1, <2>2, <2>3, <2>5, <3>1, <3>2 DEF Becomes, RedirectInv, HeldIdsWereStored
  <2>9. NoV3OrPopup'
    BY <2>1, <2>2 DEF Becomes, RedirectInv, NoV3OrPopup
  <2>10. SavesPresentedLogin'
    <3>1. ASSUME NEW s \in Requests, req'[s].pc = "save"
          PROVE  /\ req'[s].cookies.session # NoId
                 /\ req'[s].login = owner'[req'[s].cookies.session]
      <4>1. s # r /\ req'[s] = req[s]
        BY <2>2, <3>1 DEF Becomes
      <4>2. req[s].cookies.session # NoId /\ req[s].login = owner[req[s].cookies.session]
        BY <3>1, <4>1 DEF RedirectInv, SavesPresentedLogin
      <4>3. owner[req[s].cookies.session] # NoLogin /\ req[s].cookies.session \in Ids
        BY <1>0, <4>2 DEF RedirectInv, HeldIdsWereStored, Cookies, MaybeId
      <4> QED BY <2>3, <2>5, <4>1, <4>2, <4>3
    <3> QED BY <3>1 DEF SavesPresentedLogin
  <2>11. PendingIsFresh'
    <3>1. ASSUME NEW s \in Requests, Pending(s)'
          PROVE  /\ s # r /\ req'[s] = req[s] /\ Pending(s)
                 /\ req[s].login # l /\ (Writing(s) => req[s].id # i)
      BY <2>1, <2>2, <3>1 DEF Becomes, RedirectInv, PendingIsFresh, Pending, Writing
    <3>2. \A s \in Requests : Writing(s)' => Pending(s)'
      BY DEF Writing, Pending
    <3>3. ASSUME NEW s \in Requests, Pending(s)'
          PROVE  req'[s].login \in begun' /\ ~Owned(req[s].login)'
      <4>1. req[s].login \in begun /\ ~Owned(req[s].login)
        BY <3>1, <3>3 DEF RedirectInv, PendingIsFresh
      <4> QED BY <2>1, <2>5, <3>1, <3>3, <4>1 DEF Owned
    <3>4. ASSUME NEW s \in Requests, Writing(s)'
          PROVE  req'[s].id \in usedIds' /\ owner'[req'[s].id] = NoLogin
      <4>1. Writing(s) /\ req'[s] = req[s] /\ req[s].id # i
        BY <3>1, <3>2, <3>4 DEF Writing
      <4>2. req[s].id \in usedIds /\ owner[req[s].id] = NoLogin
        BY <4>1 DEF RedirectInv, PendingIsFresh
      <4> QED BY <2>1, <2>5, <4>1, <4>2 DEF TypeOK
    <3>5. ASSUME NEW s \in Requests, NEW t \in Requests
          PROVE  /\ Pending(s)' /\ Pending(t)' /\ req'[s].login = req'[t].login => s = t
                 /\ Writing(s)' /\ Writing(t)' /\ req'[s].id = req'[t].id => s = t
      BY <3>1, <3>2 DEF RedirectInv, PendingIsFresh, Writing
    <3> QED BY <3>3, <3>4, <3>5, PendingParts
  <2> QED BY <2>6, <2>7, <2>8, <2>9, <2>10, <2>11 DEF RedirectInv
<1>10. ASSUME NEW r \in Requests, Delete(r) PROVE RedirectInv'
  <2>1. Remove(req[r].cookies.session, NoLogin) /\ UNCHANGED <<jar, usedIds, begun, owner>>
    BY <1>0, <1>10 DEF Delete
  <2>2. Becomes(r, "respond", req[r].login, req[r].id, "clear")
    BY <1>0, <1>10 DEF Delete, Answer, Becomes, TypeOK, Request
  <2>3. OwnerIsUnique' /\ EndedIsOver'
    BY <1>0, <2>1, RemoveIsRemoval DEF Cookies
  <2>4. HeldIdsWereStored' /\ NoV3OrPopup' /\ SavesPresentedLogin' /\ PendingIsFresh'
    BY <2>1, <2>2
       DEF Becomes, RedirectInv, HeldIdsWereStored, NoV3OrPopup,
           SavesPresentedLogin, PendingIsFresh, Pending, Writing, Owned
  <2> QED BY <2>3, <2>4 DEF RedirectInv
<1>11. ASSUME NEW r \in Requests, Respond(r) PROVE RedirectInv'
  <2>1. Frees(r) /\ UNCHANGED <<store, usedIds, begun, owner, ended>>
    BY <1>11 DEF Respond, Frees, TypeOK
  <2>2. jar'.legacy = NoId
    BY <1>11 DEF Respond, RedirectInv, NoV3OrPopup
  <2>3. jar'.session # NoId => owner[jar'.session] # NoLogin
    BY <1>0, <1>11 DEF Respond, RedirectInv, HeldIdsWereStored, Request
  <2> QED BY <2>1, <2>2, <2>3, QuietStep
<1>12. ASSUME NEW r \in Requests, Fail(r) PROVE RedirectInv'
  <2>1. Frees(r) /\ UNCHANGED <<store, jar, usedIds, begun, owner, ended>>
    BY <1>12 DEF Fail, Frees, TypeOK
  <2> QED BY <2>1, QuietStep DEF RedirectInv, NoV3OrPopup, HeldIdsWereStored
<1>13. ASSUME NEW t \in LogoutTokens, BackChannelLogout(t) PROVE RedirectInv'
  <2>0. PICK L \in SUBSET Logins :
           /\ store' = [i \in Ids |-> IF store[i] \in L THEN NoLogin ELSE store[i]]
           /\ ended' = ended \cup {store[i] : i \in {j \in Ids : store[j] \in L}}
    BY <1>13, LogoutNames DEF BackChannelLogout
  <2> DEFINE S == {i \in Ids : store[i] \in L}
  <2>1. /\ store' = [i \in Ids |-> IF i \in S THEN NoLogin ELSE store[i]]
        /\ UNCHANGED <<jar, req, usedIds, begun, owner>>
    BY <1>13, <2>0 DEF BackChannelLogout
  <2>2. ended' = ended \cup ({store[i] : i \in S} \ {NoLogin})
    BY <2>0, ConstantsAssumption
  <2>3. OwnerIsUnique' /\ EndedIsOver'
    <3> HIDE DEF S
    <3>1. S \in SUBSET Ids
      BY DEF S
    <3> QED BY <2>1, <2>2, <3>1, RemovalStep
  <2> QED
    BY <2>1, <2>3
       DEF RedirectInv, HeldIdsWereStored, NoV3OrPopup, SavesPresentedLogin,
           PendingIsFresh, Pending, Writing, Owned
<1>14. ASSUME NEW i \in Ids, DeleteByReqCookies(i) PROVE RedirectInv'
  <2>1. Remove(i, NoLogin) /\ UNCHANGED <<jar, req, usedIds, begun, owner>>
    BY <1>14 DEF DeleteByReqCookies
  <2>2. OwnerIsUnique' /\ EndedIsOver'
    BY <2>1, RemoveIsRemoval DEF MaybeId
  <2> QED
    BY <2>1, <2>2
       DEF RedirectInv, HeldIdsWereStored, NoV3OrPopup, SavesPresentedLogin,
           PendingIsFresh, Pending, Writing, Owned
<1>15. ASSUME UNCHANGED <<store, req, usedIds, begun, owner, ended>>,
              jar'.legacy = NoId, jar'.session \in {NoId, jar.session}
       PROVE  RedirectInv'
  BY <1>15
     DEF RedirectInv, HeldIdsWereStored, NoV3OrPopup, OwnerIsUnique, EndedIsOver,
         SavesPresentedLogin, PendingIsFresh, Pending, Writing, Owned
<1>16. CASE \E l \in Logins : CeilingPasses(l)
  BY <1>15, <1>16 DEF CeilingPasses, RedirectInv, NoV3OrPopup
<1>17. CASE CookieExpires
  BY <1>15, <1>17 DEF CookieExpires, RedirectInv, NoV3OrPopup, TypeOK, Cookies
<1>18. CASE UNCHANGED vars
  BY <1>15, <1>18 DEF vars, RedirectInv, NoV3OrPopup
<1> QED
  BY <1>1, <1>2, <1>3, <1>4, <1>5, <1>6, <1>7, <1>8, <1>9, <1>10, <1>11, <1>12,
     <1>13, <1>14, <1>16, <1>17, <1>18 DEF Next, Progress

(* No request that was in progress when a session ended brings it back     *)
(* (stateful-session-store.ts:156-183), for any number of requests,        *)
(* identifiers and logins.                                                 *)
THEOREM SessionsStayEnded ==
  ASSUME RedirectDeployment
  PROVE  Spec => []NoResurrection
<1>1. TypeOK /\ RedirectInv /\ [Next]_vars => (TypeOK /\ RedirectInv)'
  BY TypeNext, RedirectNext
<1>2. Init => TypeOK /\ RedirectInv
  BY TypeInit, RedirectInit
<1>3. TypeOK /\ RedirectInv => NoResurrection
  BY DEF RedirectInv, EndedIsOver, NoResurrection
<1> QED BY <1>1, <1>2, <1>3, PTL DEF Spec

(* A login has one record, so that one deletion ends it.                   *)
THEOREM OneRecord ==
  ASSUME RedirectDeployment
  PROVE  Spec => []OneRecordPerLogin
<1>1. TypeOK /\ RedirectInv /\ [Next]_vars => (TypeOK /\ RedirectInv)'
  BY TypeNext, RedirectNext
<1>2. Init => TypeOK /\ RedirectInv
  BY TypeInit, RedirectInit
<1>3. TypeOK /\ RedirectInv => OneRecordPerLogin
  BY DEF RedirectInv, OwnerIsUnique, OneRecordPerLogin
<1> QED BY <1>1, <1>2, <1>3, PTL DEF Spec

-----------------------------------------------------------------------------
(* Every deployment: with or without update(), v3 cookies, cookies that    *)
(* lapse, popups and failures.                                             *)

\* A request that saves a session saves the login its cookie's identifier stands for.
SavesOwner ==
    \A r \in Requests :
        LET i == req[r].cookies.session
        IN  req[r].pc = "save" /\ i # NoId => req[r].login = owner[i] /\ owner[i] # NoLogin

\* One that is about to write does so for the login the identifier stands for, or
\* is the only one to write under it yet; with an atomic update() it always is.
WritesOwner ==
    \A r \in Requests : Writing(r) =>
        /\ req[r].id \in usedIds
        /\ \/ owner[req[r].id] = req[r].login /\ ~AtomicUpdate
           \/ /\ owner[req[r].id] = NoLogin
              /\ \A s \in Requests \ {r} : Writing(s) => req[s].id # req[r].id

IdInv ==
    /\ IdBoundToOneLogin
    /\ \A i \in Ids : owner[i] # NoLogin => i \in usedIds
    /\ SavesOwner /\ WritesOwner

\* A step that records nothing, and moves a request to no save or write.
LEMMA IdQuiet ==
  ASSUME TypeOK, IdInv, NEW r \in Requests,
         owner' = owner, usedIds' = usedIds,
         \A i \in Ids : store'[i] \in {NoLogin, store[i]},
         \A s \in Requests \ {r} : req'[s] = req[s],
         req'[r].pc \notin {"save", "write"}
  PROVE  IdInv'
<1>1. IdBoundToOneLogin'
  BY DEF IdInv, IdBoundToOneLogin
<1>2. SavesOwner'
  BY DEF IdInv, SavesOwner
<1>3. WritesOwner'
  BY DEF IdInv, WritesOwner, Writing
<1> QED BY <1>1, <1>2, <1>3 DEF IdInv

\* Nor one that leaves the requests alone.
LEMMA IdRemoves ==
  ASSUME TypeOK, IdInv, owner' = owner, usedIds' = usedIds, req' = req,
         \A i \in Ids : store'[i] \in {NoLogin, store[i]}
  PROVE  IdInv'
BY DEF IdInv, IdBoundToOneLogin, SavesOwner, WritesOwner, Writing

\* A request that is to write under an identifier nobody used.
LEMMA IdReserved ==
  ASSUME TypeOK, IdInv, NEW r \in Requests, NEW i \in Ids \ usedIds,
         owner' = owner, usedIds' = usedIds \cup {i},
         \A j \in Ids : store'[j] \in {NoLogin, store[j]},
         \A s \in Requests \ {r} : req'[s] = req[s],
         req'[r].pc = "write", req'[r].id = i
  PROVE  IdInv'
<1>1. owner[i] = NoLogin /\ \A s \in Requests : Writing(s) => req[s].id # i
  BY DEF IdInv, WritesOwner
<1>2. IdBoundToOneLogin'
  BY DEF IdInv, IdBoundToOneLogin
<1>3. SavesOwner'
  BY DEF IdInv, SavesOwner
<1>4. WritesOwner'
  <2> SUFFICES ASSUME NEW p \in Requests, Writing(p)'
               PROVE  /\ req'[p].id \in usedIds'
                      /\ \/ owner'[req'[p].id] = req'[p].login /\ ~AtomicUpdate
                         \/ /\ owner'[req'[p].id] = NoLogin
                            /\ \A s \in Requests \ {p} : Writing(s)' => req'[s].id # req'[p].id
    BY DEF WritesOwner
  <2>1. CASE p = r
    <3>1. \A s \in Requests \ {r} : Writing(s)' => req'[s].id # i
      BY <1>1 DEF Writing
    <3> QED BY <1>1, <2>1, <3>1
  <2>2. CASE p # r
    <3>1. Writing(p) /\ req'[p] = req[p] /\ req[p].id # i
      BY <1>1, <2>2 DEF Writing
    <3>2. \A s \in Requests \ {p} : Writing(s)' => s = r \/ (Writing(s) /\ req'[s] = req[s])
      BY DEF Writing
    <3> QED BY <3>1, <3>2 DEF IdInv, WritesOwner
  <2> QED BY <2>1, <2>2
<1> QED BY <1>2, <1>3, <1>4 DEF IdInv

\* A record is written for the login its identifier stands for.
LEMMA IdRecorded ==
  ASSUME TypeOK, IdInv, NEW r \in Requests, NEW i \in usedIds, NEW l \in MaybeLogin,
         Put(i, l), usedIds' = usedIds,
         \/ owner[i] = l
         \/ owner[i] = NoLogin /\ \A s \in Requests \ {r} : Writing(s) => req[s].id # i,
         \A s \in Requests \ {r} : req'[s] = req[s],
         req'[r].pc \notin {"save", "write"}
  PROVE  IdInv'
<1>1. i \in Ids /\ owner'[i] = l /\ store'[i] = l
      /\ \A j \in Ids \ {i} : owner'[j] = owner[j] /\ store'[j] = store[j]
  BY DEF TypeOK, Put
<1>2. \A j \in Ids : owner[j] # NoLogin => owner'[j] = owner[j]
  BY <1>1
<1>3. IdBoundToOneLogin' /\ \A j \in Ids : owner'[j] # NoLogin => j \in usedIds'
  BY <1>1 DEF IdInv, IdBoundToOneLogin
<1>4. SavesOwner'
  <2> SUFFICES ASSUME NEW s \in Requests, req'[s].pc = "save", req'[s].cookies.session # NoId
               PROVE  /\ req'[s].login = owner'[req'[s].cookies.session]
                      /\ owner'[req'[s].cookies.session] # NoLogin
    BY DEF SavesOwner
  <2>1. s # r /\ req'[s] = req[s]
    OBVIOUS
  <2>2. req[s].cookies.session \in Ids
    BY <2>1 DEF TypeOK, Request, Cookies, MaybeId
  <2> QED BY <1>2, <2>1, <2>2 DEF IdInv, SavesOwner
<1>5. WritesOwner'
  <2> SUFFICES ASSUME NEW p \in Requests, Writing(p)'
               PROVE  /\ req'[p].id \in usedIds'
                      /\ \/ owner'[req'[p].id] = req'[p].login /\ ~AtomicUpdate
                         \/ /\ owner'[req'[p].id] = NoLogin
                            /\ \A s \in Requests \ {p} : Writing(s)' => req'[s].id # req'[p].id
    BY DEF WritesOwner
  <2>1. Writing(p) /\ req'[p] = req[p] /\ p # r
    BY DEF Writing
  <2>2. req[p].id \in usedIds /\ req[p].id \in Ids
    BY <2>1 DEF IdInv, WritesOwner, TypeOK
  <2>3. CASE owner[req[p].id] = req[p].login /\ ~AtomicUpdate
    <3>1. CASE req[p].id = i
      BY <1>1, <2>1, <2>2, <2>3, <3>1
    <3>2. CASE req[p].id # i
      BY <1>1, <2>1, <2>2, <2>3, <3>2
    <3> QED BY <3>1, <3>2
  <2>4. CASE /\ owner[req[p].id] = NoLogin
             /\ \A s \in Requests \ {p} : Writing(s) => req[s].id # req[p].id
    <3>1. \A s \in Requests \ {p} : Writing(s)' => req'[s].id # req[p].id
      BY <2>4 DEF Writing
    <3>2. CASE req[p].id = i
      <4>1. l = NoLogin
        BY <2>1, <2>4, <3>2
      <4> QED BY <1>1, <2>1, <2>2, <3>1, <3>2, <4>1
    <3>3. CASE req[p].id # i
      BY <1>1, <2>1, <2>2, <2>4, <3>1, <3>3
    <3> QED BY <3>2, <3>3
  <2> QED BY <2>1, <2>3, <2>4 DEF IdInv, WritesOwner
<1> QED BY <1>3, <1>4, <1>5 DEF IdInv

LEMMA IdInit ==
  ASSUME Init
  PROVE  IdInv
<1>1. \A r \in Requests : req[r].pc = "idle"
  BY DEF Init, Idle
<1>2. owner = store
  BY DEF Init
<1>3. \A i \in Ids : store[i] # NoLogin => i \in usedIds
  BY ConstantsAssumption DEF Init, InitEmpty, InitLegacy
<1> QED BY <1>1, <1>2, <1>3 DEF IdInv, IdBoundToOneLogin, SavesOwner, WritesOwner, Writing

\* Removing the record of an identifier leaves the others.
LEMMA RemoveOnly ==
  ASSUME TypeOK, NEW i, NEW keep, Remove(i, keep)
  PROVE  \A j \in Ids : store'[j] \in {NoLogin, store[j]}
BY DEF Remove, TypeOK

LEMMA IdNext ==
  ASSUME TypeOK, IdInv, [Next]_vars
  PROVE  IdInv'
<1> USE ConstantsAssumption
<1>0. \A r \in Requests : /\ req[r] \in Request /\ req[r].cookies \in Cookies
                          /\ req[r].login \in MaybeLogin
  BY DEF TypeOK, Request
<1>1. ASSUME NEW r \in Requests, NEW k \in Kinds, Start(r, k) PROVE IdInv'
  <2>1. req'[r].pc \notin {"save", "write"} /\ \A s \in Requests \ {r} : req'[s] = req[s]
    BY <1>1 DEF Start, TypeOK, Idle
  <2> QED BY <1>1, <2>1, IdQuiet DEF Start
<1>2. ASSUME NEW r \in Requests, Exchange(r) PROVE IdInv'
  <2>1. req'[r].pc \notin {"save", "write"} /\ \A s \in Requests \ {r} : req'[s] = req[s]
    BY <1>0, <1>2 DEF Exchange, TypeOK, Request
  <2> QED BY <1>2, <2>1, IdQuiet DEF Exchange
<1>3. ASSUME NEW r \in Requests, Read(r) PROVE IdInv'
  <2> DEFINE c == req[r].cookies
             l == Recorded(PresentedId(c))
  <2>1. UNCHANGED <<store, usedIds, owner>> /\ \A s \in Requests \ {r} : req'[s] = req[s]
    BY <1>0, <1>3 DEF Read, Goto, Answer, TypeOK
  <2>2. \/ req'[r].pc \notin {"save", "write"}
        \/ /\ req'[r].pc = "save" /\ req'[r].login = l /\ req'[r].cookies = c
           /\ l # NoLogin
    BY <1>0, <1>3 DEF Read, Goto, Answer, TypeOK, Request
  <2>3. CASE req'[r].pc \notin {"save", "write"}
    BY <2>1, <2>3, IdQuiet
  <2>4. CASE req'[r].pc = "save" /\ req'[r].login = l /\ req'[r].cookies = c /\ l # NoLogin
    <3>1. c.session # NoId => l = owner[c.session]
      <4>1. c.session # NoId => c.session \in Ids /\ l = store[c.session]
        BY <1>0 DEF PresentedId, Recorded, Cookies, MaybeId
      <4> QED BY <2>4, <4>1 DEF IdInv, IdBoundToOneLogin
    <3>2. IdBoundToOneLogin' /\ \A i \in Ids : owner'[i] # NoLogin => i \in usedIds'
      BY <2>1 DEF IdInv, IdBoundToOneLogin
    <3>3. SavesOwner'
      BY <2>1, <2>4, <3>1 DEF IdInv, SavesOwner
    <3>4. WritesOwner'
      BY <2>1, <2>4 DEF IdInv, WritesOwner, Writing
    <3> QED BY <3>2, <3>3, <3>4 DEF IdInv
  <2> QED BY <2>2, <2>3, <2>4
<1>4. ASSUME NEW r \in Requests, SaveAtomically(r) PROVE IdInv'
  <2>1. PICK i \in DecryptedIds(req[r].cookies) \ {NoId} :
           \/ store[i] = NoLogin /\ Answer(r, "none") /\ UNCHANGED <<store, owner>>
           \/ /\ store[i] # NoLogin /\ Put(i, req[r].login)
              /\ req' = [req EXCEPT ![r].pc = "respond", ![r].res = "set", ![r].id = i]
    BY <1>4 DEF SaveAtomically
  <2>2. i = req[r].cookies.session /\ i \in Ids
    BY <1>0, <2>1 DEF DecryptedIds, Cookies, MaybeId
  <2>3. owner[i] = req[r].login /\ i \in usedIds
    BY <1>4, <2>1, <2>2 DEF SaveAtomically, IdInv, SavesOwner
  <2>4. usedIds' = usedIds
    BY <1>4 DEF SaveAtomically
  <2>5. req'[r].pc = "respond" /\ \A s \in Requests \ {r} : req'[s] = req[s]
    BY <1>0, <2>1 DEF Answer, TypeOK, Request
  <2>6. CASE UNCHANGED <<store, owner>>
    BY <2>4, <2>5, <2>6, IdQuiet
  <2>7. CASE Put(i, req[r].login)
    BY <1>0, <2>3, <2>4, <2>5, <2>7, IdRecorded
  <2> QED BY <2>1, <2>6, <2>7
<1>5. ASSUME NEW r \in Requests, SaveAfterGet(r) PROVE IdInv'
  <2>1. PICK i \in DecryptedIds(req[r].cookies) \ {NoId} :
           IF store[i] = NoLogin
             THEN Answer(r, "none")
             ELSE req' = [req EXCEPT ![r].pc = "write", ![r].id = i]
    BY <1>5 DEF SaveAfterGet
  <2>2. UNCHANGED <<store, usedIds, owner>> /\ req[r].pc = "save" /\ ~AtomicUpdate
    BY <1>5 DEF SaveAfterGet
  <2>3. \A s \in Requests \ {r} : req'[s] = req[s]
    BY <2>1 DEF Answer, TypeOK
  <2>4. CASE store[i] = NoLogin
    <3>1. req'[r].pc = "respond"
      BY <1>0, <2>1, <2>4 DEF Answer, TypeOK, Request
    <3> QED BY <2>2, <2>3, <3>1, IdQuiet
  <2>5. CASE store[i] # NoLogin
    <3>1. req'[r].pc = "write" /\ req'[r].id = i /\ req'[r].login = req[r].login
      BY <1>0, <2>1, <2>5 DEF TypeOK, Request
    <3>2. i = req[r].cookies.session /\ i \in Ids
      BY <1>0, <2>1 DEF DecryptedIds, Cookies, MaybeId
    <3>3. owner[i] = req[r].login /\ owner[i] # NoLogin /\ i \in usedIds
      BY <2>1, <2>2, <3>2 DEF IdInv, SavesOwner
    <3>4. IdBoundToOneLogin' /\ \A j \in Ids : owner'[j] # NoLogin => j \in usedIds'
      BY <2>2 DEF IdInv, IdBoundToOneLogin
    <3>5. SavesOwner'
      BY <2>2, <2>3, <3>1 DEF IdInv, SavesOwner
    <3>6. WritesOwner'
      <4> SUFFICES ASSUME NEW p \in Requests, Writing(p)'
                   PROVE  /\ req'[p].id \in usedIds'
                          /\ \/ owner'[req'[p].id] = req'[p].login /\ ~AtomicUpdate
                             \/ /\ owner'[req'[p].id] = NoLogin
                                /\ \A s \in Requests \ {p} : Writing(s)' => req'[s].id # req'[p].id
        BY DEF WritesOwner
      <4>1. CASE p = r
        BY <2>2, <3>1, <3>3, <4>1
      <4>2. CASE p # r
        <5>1. Writing(p) /\ req'[p] = req[p]
          BY <2>3, <4>2 DEF Writing
        <5>2. \A s \in Requests \ {p} : Writing(s)' => s = r \/ (Writing(s) /\ req'[s] = req[s])
          BY <2>3 DEF Writing
        <5> QED BY <2>2, <3>1, <3>3, <5>1, <5>2 DEF IdInv, WritesOwner
      <4> QED BY <4>1, <4>2
    <3> QED BY <3>4, <3>5, <3>6 DEF IdInv
  <2> QED BY <2>4, <2>5
<1>6. ASSUME NEW r \in Requests, SaveUnderNewId(r) PROVE IdInv'
  <2>1. PICK i \in Ids \ usedIds :
           /\ usedIds' = usedIds \cup {i}
           /\ req' = [req EXCEPT ![r].pc = "write", ![r].id = i]
    BY <1>6 DEF SaveUnderNewId
  <2>2. /\ req'[r].pc = "write" /\ req'[r].id = i /\ \A s \in Requests \ {r} : req'[s] = req[s]
    BY <1>0, <2>1 DEF TypeOK, Request
  <2>3. store' = store /\ owner' = owner
    BY <1>6 DEF SaveUnderNewId
  <2> QED BY <2>1, <2>2, <2>3, IdReserved
<1>7. ASSUME NEW r \in Requests, CeilingBeforeRefresh(r) PROVE IdInv'
  <2>1. req'[r].pc = "delete" /\ \A s \in Requests \ {r} : req'[s] = req[s]
    BY <1>0, <1>7 DEF CeilingBeforeRefresh, Goto, TypeOK, Request
  <2> QED BY <1>7, <2>1, IdQuiet DEF CeilingBeforeRefresh
<1>8. ASSUME NEW r \in Requests, DropOld(r) PROVE IdInv'
  <2>1. PICK i \in Ids \ usedIds, old \in DecryptedIds(req[r].cookies) :
           /\ Remove(old, req[r].login)
           /\ usedIds' = usedIds \cup {i}
           /\ req' = [req EXCEPT ![r].pc = "write", ![r].id = i]
    BY <1>8 DEF DropOld
  <2>2. /\ req'[r].pc = "write" /\ req'[r].id = i /\ \A s \in Requests \ {r} : req'[s] = req[s]
    BY <1>0, <2>1 DEF TypeOK, Request
  <2>3. owner' = owner
    BY <1>8 DEF DropOld
  <2>4. \A j \in Ids : store'[j] \in {NoLogin, store[j]}
    BY <2>1, RemoveOnly
  <2> QED BY <2>1, <2>2, <2>3, <2>4, IdReserved
<1>9. ASSUME NEW r \in Requests, Write(r) PROVE IdInv'
  <2>1. /\ Put(req[r].id, req[r].login) /\ usedIds' = usedIds /\ Writing(r)
    BY <1>9 DEF Write, Writing
  <2>2. req'[r].pc = "respond" /\ \A s \in Requests \ {r} : req'[s] = req[s]
    BY <1>0, <1>9 DEF Write, Answer, TypeOK, Request
  <2>3. /\ req[r].id \in usedIds
        /\ \/ owner[req[r].id] = req[r].login
           \/ owner[req[r].id] = NoLogin
              /\ \A s \in Requests \ {r} : Writing(s) => req[s].id # req[r].id
    BY <2>1 DEF IdInv, WritesOwner
  <2> QED BY <1>0, <2>1, <2>2, <2>3, IdRecorded
<1>10. ASSUME NEW r \in Requests, Delete(r) PROVE IdInv'
  <2>1. req'[r].pc = "respond" /\ \A s \in Requests \ {r} : req'[s] = req[s]
    BY <1>0, <1>10 DEF Delete, Answer, TypeOK, Request
  <2>2. \A j \in Ids : store'[j] \in {NoLogin, store[j]}
    BY <1>10, RemoveOnly DEF Delete
  <2> QED BY <1>10, <2>1, <2>2, IdQuiet DEF Delete
<1>11. ASSUME NEW r \in Requests, Respond(r) \/ Fail(r) PROVE IdInv'
  <2>1. req'[r] = Idle /\ \A s \in Requests \ {r} : req'[s] = req[s]
    BY <1>11 DEF Respond, Fail, TypeOK
  <2> QED BY <1>11, <2>1, IdQuiet DEF Respond, Fail, Idle
<1>12. ASSUME NEW t \in LogoutTokens, BackChannelLogout(t) PROVE IdInv'
  <2>1. PICK L : store' = [i \in Ids |-> IF store[i] \in L THEN NoLogin ELSE store[i]]
    BY <1>12 DEF BackChannelLogout
  <2> QED BY <1>12, <2>1, IdRemoves DEF BackChannelLogout
<1>13. ASSUME NEW i \in Ids, DeleteByReqCookies(i) PROVE IdInv'
  BY <1>13, RemoveOnly, IdRemoves DEF DeleteByReqCookies
<1>14. CASE \/ \E l \in Logins : CeilingPasses(l)
            \/ CookieExpires \/ UNCHANGED vars
  BY <1>14, IdRemoves DEF CeilingPasses, CookieExpires, vars
<1> QED
  BY <1>1, <1>2, <1>3, <1>4, <1>5, <1>6, <1>7, <1>8, <1>9, <1>10, <1>11, <1>12,
     <1>13, <1>14 DEF Next, Progress

\* What every deployment keeps.
LEMMA EveryDeployment == Spec => [](TypeOK /\ IdInv)
<1> QED BY TypeInit, TypeNext, IdInit, IdNext, PTL DEF Spec

(* A session identifier never comes to stand for another login than the    *)
(* one it was first stored with, on any data store, with v3 cookies,       *)
(* popups, lapsing cookies and failures (stateful-session-store.ts:141).   *)
THEOREM IdsStayBound == Spec => []IdBoundToOneLogin
<1> QED BY EveryDeployment, PTL DEF IdInv

(* With an atomic update() the guard in set() holds of every deployment: a *)
(* record that was removed is not written again, whoever read it before    *)
(* (stateful-session-store.ts:156-183).                                    *)
THEOREM RemovedStayRemoved ==
  ASSUME AtomicUpdate
  PROVE  Spec => RemovedIdStaysRemoved
<1>1. ASSUME TypeOK, IdInv, [Next]_vars, NEW i \in Ids, owner[i] # NoLogin, store[i] = NoLogin
      PROVE  store'[i] = NoLogin
  <2> USE ConstantsAssumption
  <2>1. CASE UNCHANGED store
    BY <1>1, <2>1
  <2>2. ASSUME NEW r \in Requests, SaveAtomically(r) PROVE store'[i] = NoLogin
    <3>1. PICK j \in DecryptedIds(req[r].cookies) \ {NoId} :
             UNCHANGED store \/ (store[j] # NoLogin /\ Put(j, req[r].login))
      BY <2>2 DEF SaveAtomically
    <3> QED BY <1>1, <3>1 DEF Put, TypeOK
  <2>3. ASSUME NEW r \in Requests, Write(r) PROVE store'[i] = NoLogin
    <3>1. Writing(r) /\ Put(req[r].id, req[r].login)
      BY <2>3 DEF Write, Writing
    <3>2. owner[req[r].id] = NoLogin
      BY <1>1, <3>1 DEF IdInv, WritesOwner
    <3> QED BY <1>1, <3>1, <3>2 DEF Put, TypeOK
  <2>4. ASSUME NEW k, NEW keep, Remove(k, keep) PROVE store'[i] = NoLogin
    BY <1>1, <2>4 DEF Remove
  <2>5. ASSUME NEW t \in LogoutTokens, BackChannelLogout(t) PROVE store'[i] = NoLogin
    BY <1>1, <2>5 DEF BackChannelLogout
  <2>6. ASSUME NEW r \in Requests, SaveAfterGet(r) PROVE store'[i] = NoLogin
    BY <2>6 DEF SaveAfterGet
  <2>7. ASSUME NEW r \in Requests, DropOld(r) \/ Delete(r) PROVE store'[i] = NoLogin
    BY <2>4, <2>7 DEF DropOld, Delete
  <2>8. ASSUME NEW j \in Ids, DeleteByReqCookies(j) PROVE store'[i] = NoLogin
    BY <2>4, <2>8 DEF DeleteByReqCookies
  <2>9. ASSUME NEW r \in Requests,
               \/ \E k \in Kinds : Start(r, k)
               \/ Exchange(r) \/ Read(r) \/ SaveUnderNewId(r) \/ CeilingBeforeRefresh(r)
               \/ Respond(r) \/ Fail(r)
        PROVE  UNCHANGED store
    BY <2>9 DEF Start, Exchange, Read, SaveUnderNewId, CeilingBeforeRefresh, Respond, Fail
  <2>10. CASE (\E l \in Logins : CeilingPasses(l)) \/ CookieExpires \/ UNCHANGED vars
    BY <2>1, <2>10 DEF CeilingPasses, CookieExpires, vars
  <2> QED BY <1>1, <2>1, <2>2, <2>3, <2>5, <2>6, <2>7, <2>8, <2>9, <2>10 DEF Next, Progress
<1>2. TypeOK /\ IdInv /\ [Next]_vars =>
        [\A i \in Ids : owner[i] # NoLogin /\ store[i] = NoLogin => store'[i] = NoLogin]_vars
  BY <1>1
<1> QED BY <1>2, EveryDeployment, PTL DEF Spec, RemovedIdStaysRemoved

-----------------------------------------------------------------------------
(* The contract.                                                           *)

\* What a step does to the records: nothing, remove some of them and remember whose
\* they were, or write the first one of a login under an identifier of its own.
Removes(S) ==
    /\ store' = [i \in Ids |-> IF i \in S THEN NoLogin ELSE store[i]]
    /\ ended' = ended \cup ({store[i] : i \in S} \ {NoLogin})
    /\ owner' = owner

Records(i, l) ==
    /\ owner[i] = NoLogin /\ ~Owned(l)
    /\ store' = [store EXCEPT ![i] = l]
    /\ owner' = [owner EXCEPT ![i] = l]
    /\ ended' = ended

LEMMA RemoveRemoves ==
  ASSUME TypeOK, NEW i \in MaybeId, NEW keep, Remove(i, keep), owner' = owner,
         \A j \in Ids : j = i => store[j] # keep \/ keep = NoLogin
  PROVE  \E S \in SUBSET Ids : Removes(S)
<1> DEFINE S == IF i = NoId THEN {} ELSE {i}
<1>1. S \in SUBSET Ids
  BY DEF MaybeId
<1>2. store' = [j \in Ids |-> IF j \in S THEN NoLogin ELSE store[j]]
  BY ConstantsAssumption DEF Remove
<1>3. ended' = ended \cup ({store[j] : j \in S} \ {NoLogin})
  BY ConstantsAssumption DEF Remove, Recorded, MaybeId
<1> QED BY <1>1, <1>2, <1>3 DEF Removes

LEMMA StoreSteps ==
  ASSUME RedirectDeployment, TypeOK, RedirectInv, [Next]_vars
  PROVE  \/ UNCHANGED <<store, owner, ended>>
         \/ \E S \in SUBSET Ids : Removes(S)
         \/ \E i \in Ids, l \in Logins : Records(i, l)
<1> USE ConstantsAssumption
<1>0. /\ \A r \in Requests : req[r] \in Request
      /\ \A r \in Requests : req[r].cookies \in Cookies
      /\ \A c \in Cookies : DecryptedIds(c) = {c.session}
  BY DEF TypeOK, Request, DecryptedIds, RedirectDeployment
<1>1. ASSUME NEW r \in Requests,
             \/ \E k \in Kinds : Start(r, k)
             \/ Exchange(r) \/ Read(r) \/ SaveUnderNewId(r) \/ CeilingBeforeRefresh(r)
             \/ SaveAfterGet(r) \/ Respond(r) \/ Fail(r)
      PROVE  UNCHANGED <<store, owner, ended>>
  BY <1>1 DEF Start, Exchange, Read, SaveUnderNewId, CeilingBeforeRefresh, SaveAfterGet,
              Respond, Fail
<1>2. ASSUME NEW r \in Requests, SaveAtomically(r)
      PROVE  UNCHANGED <<store, owner, ended>>
  <2> DEFINE i == req[r].cookies.session
  <2>1. ended' = ended /\ req[r].pc = "save"
    BY <1>2 DEF SaveAtomically
  <2>2. i \in Ids /\ req[r].login = owner[i]
    BY <1>0, <2>1 DEF RedirectInv, SavesPresentedLogin, Cookies, MaybeId
  <2>3. CASE UNCHANGED <<store, owner>>
    BY <2>1, <2>3
  <2>4. CASE store[i] # NoLogin /\ Put(i, req[r].login)
    <3>1. store[i] = owner[i] /\ owner[i] # NoLogin
      BY <2>2, <2>4 DEF RedirectInv, OwnerIsUnique
    <3> QED BY <2>1, <2>2, <2>4, <3>1 DEF Put, TypeOK
  <2> QED BY <1>0, <1>2, <2>2, <2>3, <2>4 DEF SaveAtomically
<1>3. ASSUME NEW r \in Requests, Write(r)
      PROVE  \E i \in Ids, l \in Logins : Records(i, l)
  <2> DEFINE i == req[r].id
             l == req[r].login
  <2>1. ended' = ended /\ Put(i, l) /\ Writing(r) /\ Pending(r)
    BY <1>3 DEF Write, Writing, Pending
  <2>2. i \in Ids /\ owner[i] = NoLogin /\ l \in Logins /\ ~Owned(l)
    BY <2>1 DEF RedirectInv, PendingIsFresh, TypeOK
  <2>3. Records(i, l)
    BY <2>1, <2>2 DEF Records, Put
  <2> QED BY <2>2, <2>3
<1>4. ASSUME NEW r \in Requests, DropOld(r)
      PROVE  \E S \in SUBSET Ids : Removes(S)
  <2> DEFINE old == req[r].cookies.session
             l   == req[r].login
  <2>0. DecryptedIds(req[r].cookies) = {old} /\ old \in MaybeId
    BY <1>0 DEF Cookies
  <2>1. Remove(old, l) /\ owner' = owner /\ Pending(r)
    <3> HIDE DEF old
    <3> QED BY <2>0, <1>4 DEF DropOld, Pending
  <2>2. \A j \in Ids : store[j] # l
    BY <2>1 DEF RedirectInv, PendingIsFresh, OwnerIsUnique, Owned, TypeOK
  <2> QED BY <2>0, <2>1, <2>2, RemoveRemoves
<1>5. ASSUME NEW r \in Requests, Delete(r)
      PROVE  \E S \in SUBSET Ids : Removes(S)
  <2>1. Remove(req[r].cookies.session, NoLogin) /\ owner' = owner
        /\ req[r].cookies.session \in MaybeId
    BY <1>0, <1>5 DEF Delete, Cookies
  <2> QED BY <2>1, RemoveRemoves
<1>6. ASSUME NEW t \in LogoutTokens, BackChannelLogout(t)
      PROVE  \E S \in SUBSET Ids : Removes(S)
  <2>1. PICK L \in SUBSET Logins :
           /\ store' = [i \in Ids |-> IF store[i] \in L THEN NoLogin ELSE store[i]]
           /\ ended' = ended \cup {store[i] : i \in {j \in Ids : store[j] \in L}}
    BY <1>6, LogoutNames DEF BackChannelLogout
  <2> DEFINE S == {i \in Ids : store[i] \in L}
  <2>2. store' = [i \in Ids |-> IF i \in S THEN NoLogin ELSE store[i]] /\ owner' = owner
    BY <1>6, <2>1 DEF BackChannelLogout
  <2>3. ended' = ended \cup ({store[i] : i \in S} \ {NoLogin})
    BY <2>1
  <2>4. S \in SUBSET Ids
    OBVIOUS
  <2> HIDE DEF S
  <2> QED BY <2>2, <2>3, <2>4 DEF Removes
<1>7. ASSUME NEW i \in Ids, DeleteByReqCookies(i)
      PROVE  \E S \in SUBSET Ids : Removes(S)
  BY <1>7, RemoveRemoves DEF DeleteByReqCookies, MaybeId
<1>8. CASE (\E l \in Logins : CeilingPasses(l)) \/ CookieExpires \/ UNCHANGED vars
  BY <1>8 DEF CeilingPasses, CookieExpires, vars
<1> QED BY <1>1, <1>2, <1>3, <1>4, <1>5, <1>6, <1>7, <1>8 DEF Next, Progress

\* The state of the contract that a state of the store stands for.
phase  == [l \in Logins |->
             IF \E i \in Ids : store[i] = l THEN "live"
             ELSE IF l \in ended THEN "over" ELSE "none"]
holder == [l \in Logins |->
             IF Recordings(l) = {} THEN NoId ELSE CHOOSE i \in Ids : owner[i] = l]

\* The identifier that stands for a login is the one it was stored with.
LEMMA HolderIs ==
  ASSUME TypeOK, OwnerIsUnique, NEW l \in Logins
  PROVE  /\ \A i \in Ids : owner[i] = l => holder[l] = i
         /\ ~Owned(l) => holder[l] = NoId
<1>1. ASSUME NEW i \in Ids, owner[i] = l
      PROVE  holder[l] = i
  <2>1. \A j \in Ids : owner[j] = l => j = i
    BY <1>1, ConstantsAssumption DEF OwnerIsUnique
  <2>2. (CHOOSE j \in Ids : owner[j] = l) = i
    BY <1>1, <2>1
  <2>3. Recordings(l) # {}
    BY <1>1 DEF Recordings
  <2> QED BY <2>2, <2>3 DEF holder
<1>2. ASSUME ~Owned(l)
      PROVE  holder[l] = NoId
  BY <1>2 DEF holder, Recordings, Owned
<1> QED BY <1>1, <1>2

\* The next state's.
LEMMA HolderIsNext ==
  ASSUME TypeOK', OwnerIsUnique', NEW l \in Logins
  PROVE  /\ \A i \in Ids : owner'[i] = l => holder'[l] = i
         /\ (\A i \in Ids : owner'[i] # l) => holder'[l] = NoId
<1>1. ASSUME NEW i \in Ids, owner'[i] = l
      PROVE  holder'[l] = i
  <2>1. \A j \in Ids : owner'[j] = l => j = i
    BY <1>1, ConstantsAssumption DEF OwnerIsUnique
  <2>2. (CHOOSE j \in Ids : owner'[j] = l) = i
    BY <1>1, <2>1
  <2>3. Recordings(l)' # {}
    BY <1>1 DEF Recordings
  <2> QED BY <2>2, <2>3 DEF holder
<1>2. ASSUME \A i \in Ids : owner'[i] # l
      PROVE  holder'[l] = NoId
  BY <1>2 DEF holder, Recordings
<1> QED BY <1>1, <1>2

\* Removing records ends the logins they belonged to.
LEMMA RemovalEnds ==
  ASSUME TypeOK, RedirectInv, NEW S \in SUBSET Ids, Removes(S)
  PROVE  \E L \in SUBSET Logins :
           /\ \A l \in L : phase[l] = "live"
           /\ phase' = [l \in Logins |-> IF l \in L THEN "over" ELSE phase[l]]
           /\ holder' = holder
<1> DEFINE L == {store[i] : i \in S} \ {NoLogin}
<1>1. L \in SUBSET Logins
  BY DEF TypeOK, MaybeLogin
<1>2. \A l \in L : \E i \in Ids : store[i] = l
  OBVIOUS
<1>3. \A l \in L : phase[l] = "live"
  BY <1>1, <1>2 DEF phase
<1>4. ASSUME NEW l \in Logins
      PROVE  phase'[l] = IF l \in L THEN "over" ELSE phase[l]
  <2>1. phase'[l] = IF \E i \in Ids : store'[i] = l THEN "live"
                    ELSE IF l \in ended' THEN "over" ELSE "none"
    BY DEF phase
  <2>2. l # NoLogin /\ \A i \in Ids : store'[i] = IF i \in S THEN NoLogin ELSE store[i]
    BY ConstantsAssumption DEF Removes
  <2>3. CASE l \in L
    <3>1. \A i \in Ids : store[i] = l => i \in S
      BY <2>2, <2>3 DEF RedirectInv, OwnerIsUnique
    <3>2. \A i \in Ids : store'[i] # l
      BY <2>2, <3>1
    <3>3. l \in ended'
      BY <2>3 DEF Removes
    <3> QED BY <2>1, <2>3, <3>2, <3>3
  <2>4. CASE l \notin L
    <3>1. \A i \in Ids : store'[i] = l <=> store[i] = l
      BY <2>2, <2>4
    <3>2. l \in ended' <=> l \in ended
      BY <2>4 DEF Removes
    <3> HIDE DEF L
    <3> QED BY <2>1, <2>4, <3>1, <3>2 DEF phase
  <2> QED BY <2>3, <2>4
<1>5. holder' = holder
  BY DEF Removes, holder, Recordings
<1>6. phase' = [l \in Logins |-> IF l \in L THEN "over" ELSE phase[l]]
  <2>1. phase' = [l \in Logins |-> phase'[l]]
    BY DEF phase
  <2> HIDE DEF L
  <2> QED BY <1>4, <2>1
<1> HIDE DEF L
<1> QED BY <1>1, <1>3, <1>5, <1>6

\* The first record of a login begins it, under an identifier nobody had.
LEMMA RecordBegins ==
  ASSUME TypeOK, RedirectInv, TypeOK', RedirectInv', NEW i \in Ids, NEW l \in Logins, Records(i, l)
  PROVE  /\ phase[l] = "none" /\ \A m \in Logins : holder[m] # i
         /\ phase' = [phase EXCEPT ![l] = "live"]
         /\ holder' = [holder EXCEPT ![l] = i]
<1>0. /\ owner[i] = NoLogin /\ ~Owned(l) /\ l # NoLogin /\ ended' = ended
      /\ store'[i] = l /\ owner'[i] = l
      /\ \A j \in Ids \ {i} : store'[j] = store[j] /\ owner'[j] = owner[j]
  BY ConstantsAssumption DEF Records, TypeOK
<1>1. \A j \in Ids : store[j] # l
  BY <1>0 DEF RedirectInv, OwnerIsUnique, Owned
<1>2. store[i] = NoLogin
  BY <1>0 DEF RedirectInv, OwnerIsUnique
<1>3. phase[l] = "none"
  <2>1. l \notin ended
    BY <1>0 DEF RedirectInv, EndedIsOver
  <2> QED BY <1>1, <2>1 DEF phase
<1>4. ASSUME NEW m \in Logins
      PROVE  holder[m] # i
  <2>1. CASE Owned(m)
    <3>1. PICK j \in Ids : owner[j] = m
      BY <2>1 DEF Owned
    <3>2. j # i
      BY <1>0, <3>1, ConstantsAssumption
    <3> QED BY <3>1, <3>2, HolderIs DEF RedirectInv
  <2>2. CASE ~Owned(m)
    BY <2>2, HolderIs, ConstantsAssumption DEF RedirectInv
  <2> QED BY <2>1, <2>2
<1>5. ASSUME NEW m \in Logins
      PROVE  phase'[m] = IF m = l THEN "live" ELSE phase[m]
  <2>1. phase'[m] = IF \E j \in Ids : store'[j] = m THEN "live"
                    ELSE IF m \in ended' THEN "over" ELSE "none"
    BY DEF phase
  <2>2. CASE m = l
    BY <1>0, <2>1, <2>2
  <2>3. CASE m # l
    <3>1. \A j \in Ids : store'[j] = m <=> store[j] = m
      BY <1>0, <1>2, <2>3, ConstantsAssumption
    <3> QED BY <1>0, <2>1, <2>3, <3>1 DEF phase
  <2> QED BY <2>2, <2>3
<1>6. ASSUME NEW m \in Logins
      PROVE  holder'[m] = IF m = l THEN i ELSE holder[m]
  <2>1. CASE m = l
    BY <1>0, <2>1, HolderIsNext DEF RedirectInv
  <2>2. CASE m # l /\ Owned(m)
    <3>1. PICK j \in Ids : owner[j] = m
      BY <2>2 DEF Owned
    <3>2. owner'[j] = m
      BY <1>0, <3>1, ConstantsAssumption
    <3> QED BY <2>2, <3>1, <3>2, HolderIs, HolderIsNext DEF RedirectInv
  <2>3. CASE m # l /\ ~Owned(m)
    <3>1. \A j \in Ids : owner'[j] # m
      BY <1>0, <2>3 DEF Owned
    <3> QED BY <2>3, <3>1, HolderIs, HolderIsNext DEF RedirectInv
  <2> QED BY <2>1, <2>2, <2>3
<1>7. phase' = [phase EXCEPT ![l] = "live"]
  <2>1. phase' = [m \in Logins |-> phase'[m]] /\ phase = [m \in Logins |-> phase[m]]
    BY DEF phase
  <2> QED BY <1>5, <2>1
<1>8. holder' = [holder EXCEPT ![l] = i]
  <2>1. holder' = [m \in Logins |-> holder'[m]] /\ holder = [m \in Logins |-> holder[m]]
    BY DEF holder
  <2> QED BY <1>6, <2>1
<1> QED BY <1>3, <1>4, <1>7, <1>8

(* The store implements its contract: logins begin once, under identifiers *)
(* of their own, and end once.                                             *)
THEOREM StoreImplementsContract ==
  ASSUME RedirectDeployment
  PROVE  Spec => ImplementsContract
<1>1. Init => Contract!ContractInit
  <2> SUFFICES ASSUME Init PROVE Contract!ContractInit
    OBVIOUS
  <2>1. \A i \in Ids : store[i] = NoLogin /\ owner[i] = NoLogin
    BY ConstantsAssumption DEF RedirectDeployment, Init, InitEmpty
  <2>2. ended = {} /\ NoLogin \notin Logins
    BY ConstantsAssumption DEF Init
  <2> QED BY <2>1, <2>2 DEF Contract!ContractInit, Recordings
<1>2. ASSUME TypeOK, RedirectInv, TypeOK', RedirectInv', [Next]_vars
      PROVE  [Contract!ContractNext]_(Contract!ContractVars)
  <2>1. CASE UNCHANGED <<store, owner, ended>>
    BY <2>1 DEF Contract!ContractVars, Recordings
  <2>2. ASSUME NEW S \in SUBSET Ids, Removes(S)
        PROVE  Contract!ContractNext
    <3>1. PICK L \in SUBSET Logins :
             /\ \A l \in L : phase[l] = "live"
             /\ phase' = [l \in Logins |-> IF l \in L THEN "over" ELSE phase[l]]
             /\ holder' = holder
      BY <1>2, <2>2, RemovalEnds
    <3>2. Contract!End(L)
      BY <3>1 DEF Contract!End, phase, holder
    <3> QED BY <3>1, <3>2 DEF Contract!ContractNext
  <2>3. ASSUME NEW i \in Ids, NEW l \in Logins, Records(i, l)
        PROVE  Contract!ContractNext
    <3>1. Contract!Begin(l, i)
      BY <1>2, <2>3, RecordBegins DEF Contract!Begin, phase, holder
    <3> QED BY <3>1 DEF Contract!ContractNext
  <2> QED BY <1>2, <2>1, <2>2, <2>3, StoreSteps
<1>3. TypeOK /\ RedirectInv /\ [Next]_vars => (TypeOK /\ RedirectInv)'
  BY TypeNext, RedirectNext
<1>4. Init => TypeOK /\ RedirectInv
  BY TypeInit, RedirectInit
<1> QED BY <1>1, <1>2, <1>3, <1>4, PTL DEF Spec, ImplementsContract, Contract!ContractSpec
=============================================================================
