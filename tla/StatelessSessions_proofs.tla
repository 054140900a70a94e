---------------------- MODULE StatelessSessions_proofs ----------------------
(***************************************************************************)
(* Theorems about StatelessSessions, for any number of requests, logins and*)
(* writes and for sessions of any size.                                    *)
(***************************************************************************)
EXTENDS StatelessSessions, FiniteSetTheorems, TLAPS

Cookie == [Names -> Values \cup {Absent}]
Patch  == [Names -> Values \cup {Absent, Keep}]
Maybe  == Logins \cup {NoLogin}
Jar    == [session : Cookie, fc : Maybe, legacy : Maybe]

-----------------------------------------------------------------------------
\* The cookie functions.

\* A value that was written is neither a missing cookie nor an untouched one.
LEMMA Distinguished ==
  /\ Absent # Keep
  /\ \A v \in Values : v # Absent /\ v # Keep /\ v.size \in 1 .. MaxChunks
BY StatelessAssumption DEF Absent, Keep, Values

LEMMA IndicesNamed ==
  /\ Indices \subseteq Names /\ Base \in Names /\ Base \notin Indices
  /\ 0 \in Indices /\ \A n \in Names : n # Base => n \in Indices
  /\ \A v \in Values : 0 .. v.size - 1 \subseteq Indices
BY ChunksAssumption, Distinguished DEF Names, Indices, Base

\* What is read is one of the cookies, or nothing.
LEMMA ReadIsTyped ==
  ASSUME NEW c \in Cookie
  PROVE  getChunkedCookie(c) \in Values \cup {Absent}
<1>1. c[Base] \in Values \cup {Absent} /\ c[0] \in Values \cup {Absent}
  BY IndicesNamed DEF Cookie
<1> QED BY <1>1 DEF getChunkedCookie

LEMMA ApplyIsTyped ==
  ASSUME NEW c \in Cookie, NEW p \in Patch
  PROVE  Apply(c, p) \in Cookie
BY DEF Apply, Cookie, Patch

LEMMA SetIsTyped ==
  ASSUME NEW c \in Cookie, NEW v \in Values
  PROVE  setChunkedCookie(c, v) \in Patch
<1>1. SetWhole(c, v) \in Patch
  BY DEF SetWhole, Patch
<1>2. SetParts(c, v) \in Patch
  <2>1. \A n \in Names : SetParts(c, v)[n] \in Values \cup {Absent, Keep}
    BY DEF SetParts
  <2> QED BY <2>1 DEF SetParts, Patch
<1> QED BY <1>1, <1>2 DEF setChunkedCookie

LEMMA DeleteIsTyped ==
  ASSUME NEW c \in Cookie
  PROVE  deleteChunkedCookie(c) \in Patch
BY DEF deleteChunkedCookie, Patch

\* After deleteChunkedCookie nothing of the cookie is left.
LEMMA DeleteClears ==
  ASSUME NEW c \in Cookie
  PROVE  Apply(c, deleteChunkedCookie(c)) = EmptyCookie
<1> DEFINE p == deleteChunkedCookie(c)
<1>1. ASSUME NEW n \in Names
      PROVE  (IF p[n] = Keep THEN c[n] ELSE p[n]) = Absent
  <2>1. CASE n = Base \/ n \in Present(c)
    BY <2>1, Distinguished DEF deleteChunkedCookie
  <2>2. CASE n # Base /\ n \notin Present(c)
    <3>1. p[n] = Keep /\ c[n] = Absent
      BY <2>2, IndicesNamed DEF deleteChunkedCookie, Present
    <3> QED BY <3>1
  <2> QED BY <2>1, <2>2
<1> HIDE DEF p
<1> QED BY <1>1 DEF Apply, EmptyCookie, p

\* A value that is set is read back from a cookie with which it leaves no index
\* out: the chunks beyond it are as many as the count says.
NoGapWith(c, v) == \E h \in 0 .. MaxChunks : Present(c) \cup 0 .. v.size - 1 = 0 .. h - 1

LEMMA SetReadsBack ==
  ASSUME NEW c \in Cookie, NEW v \in Values, v.size = 1 \/ NoGapWith(c, v)
  PROVE  getChunkedCookie(Apply(c, setChunkedCookie(c, v))) = v
<1> DEFINE d == Apply(c, setChunkedCookie(c, v))
<1>0. v # Absent /\ v # Keep /\ Absent # Keep /\ v.size \in 1 .. MaxChunks
  BY Distinguished
<1>1. CASE v.size = 1
  <2>1. d[Base] = v
    BY <1>0, <1>1, IndicesNamed DEF Apply, setChunkedCookie, SetWhole
  <2> HIDE DEF d
  <2>2. getChunkedCookie(d) = v
    BY <1>0, <2>1 DEF getChunkedCookie
  <2> QED BY <2>2 DEF d
<1>2. CASE v.size # 1
  <2>1. PICK h \in 0 .. MaxChunks : Present(c) \cup 0 .. v.size - 1 = 0 .. h - 1
    BY <1>2 DEF NoGapWith
  <2>2. Cardinality(Present(c) \cup 0 .. v.size - 1) = h
    <3>1. Cardinality(0 .. h - 1) = h
      BY <2>1, FS_Interval, ChunksAssumption
    <3> QED BY <2>1, <3>1
  <2> DEFINE p == [n \in Names |-> CASE n = Base     -> Absent
                       [] n \in 0 .. v.size - 1    -> v
                       [] n \in v.size .. h - 1 -> Absent
                       [] OTHER        -> Keep]
  <2>3. setChunkedCookie(c, v) = p
    BY <1>2, <2>2 DEF setChunkedCookie, SetParts
  <2>4. /\ p[Base] = Absent
        /\ \A i \in Indices : p[i] = IF i < v.size THEN v
                                     ELSE IF i < h THEN Absent ELSE Keep
    BY <1>0, IndicesNamed, ChunksAssumption DEF Base, Indices
  <2> HIDE DEF p
  <2>5. /\ d[Base] = Absent
        /\ \A i \in Indices : d[i] = IF i < v.size THEN v
                                     ELSE IF i < h THEN Absent ELSE c[i]
    BY <1>0, <2>3, <2>4, IndicesNamed DEF Apply
  <2>6. \A i \in Indices : d[i] # Absent <=> i < v.size
    <3> TAKE i \in Indices
    <3>1. CASE i < h
      BY <1>0, <2>5, <3>1
    <3>2. CASE ~(i < h)
      <4>1. i \notin Present(c) \cup 0 .. v.size - 1
        BY <2>1, <3>2
      <4>2. c[i] = Absent /\ ~(i < v.size)
        BY <1>0, <4>1 DEF Present, Indices
      <4> QED BY <2>5, <3>2, <4>2
    <3> QED BY <3>1, <3>2
  <2> HIDE DEF d
  <2>7. Present(d) = 0 .. v.size - 1
    BY <1>0, <2>6, IndicesNamed, ChunksAssumption DEF Present, Indices
  <2>8. \A i \in 0 .. v.size - 1 : d[i] = v
    BY <1>0, <2>5, IndicesNamed
  <2>9. d[0] = v
    BY <1>0, <2>8
  <2>10. getChunkedCookie(d) = v
    BY <2>5, <2>7, <2>8, <2>9 DEF getChunkedCookie
  <2> QED BY <2>10 DEF d
<1> QED BY <1>1, <1>2

\* Up to three chunks leave no room for a gap beyond two.
LEMMA ThreeChunksNoGap ==
  ASSUME MaxChunks <= 3, NEW c \in Cookie, NEW v \in Values
  PROVE  v.size = 1 \/ NoGapWith(c, v)
<1> SUFFICES ASSUME v.size # 1 PROVE NoGapWith(c, v)
  OBVIOUS
<1>1. v.size \in 2 .. 3 /\ MaxChunks \in 2 .. 3 /\ v.size <= MaxChunks
  BY Distinguished, ChunksAssumption
<1> DEFINE h == IF 2 \in Present(c) THEN 3 ELSE v.size
<1>2. Present(c) \subseteq 0 .. 2
  BY <1>1 DEF Present, Indices
<1>3. Present(c) \cup 0 .. v.size - 1 = 0 .. h - 1
  BY <1>1, <1>2
<1>4. h \in 0 .. MaxChunks
  BY <1>1 DEF Present, Indices
<1> QED BY <1>3, <1>4 DEF NoGapWith

-----------------------------------------------------------------------------
\* The inductive invariant.

\* What a request holds: the cookies it came with, and from its read on a
\* session that can be encrypted.
Response == [session : Patch, fc : SUBSET Maybe, legacy : {{}, {NoLogin}}]
Request  == [kind : Kinds,
             pc : {"idle", "read", "login", "save", "delete", "respond"},
             jar : Jar,
             value : [id : Writes \cup {NoWrite}, login : Maybe, size : Sizes \cup {0}],
             fc : Maybe, res : Response]

Encryptable(q) ==
    q.pc = "save" => q.value.login \in Logins /\ q.value.size \in Sizes

\* What a response says is what delete() or set() made of the request's cookies.
ResponseFits(q) ==
    /\ q.pc = "delete" => q.kind = "logout"
    /\ q.kind = "logout" => /\ q.pc \in {"delete", "respond"}
                            /\ q.pc = "respond" => q.res = DeletePatch(q.jar)
    /\ q.kind # "logout" /\ q.res # Nothing
         => /\ q.pc = "respond" /\ q.value \in Values
            /\ q.res = SavePatch(q, q.value)

IInv ==
    /\ jar \in Jar
    /\ req \in [Requests -> Request]
    /\ \A r \in Requests : Encryptable(req[r]) /\ ResponseFits(req[r])

\* One request goes on, the cookies stay.
LEMMA OneGoesOn ==
  ASSUME IInv, NEW r \in Requests, NEW q \in Request, Encryptable(q), ResponseFits(q),
         req' = [req EXCEPT ![r] = q], jar' \in Jar
  PROVE  IInv'
<1>1. req' \in [Requests -> Request]
  BY DEF IInv
<1>2. \A p \in Requests : req'[p] = IF p = r THEN q ELSE req[p]
  BY DEF IInv
<1> QED BY <1>1, <1>2 DEF IInv, Encryptable, ResponseFits

LEMMA EmptyTyped ==
  /\ EmptyCookie \in Cookie /\ EmptyJar \in Jar /\ NoPatch \in Patch
  /\ Nothing \in Response /\ Idle \in Request
  /\ Encryptable(Idle) /\ ResponseFits(Idle)
<1>1. EmptyCookie \in Cookie /\ NoPatch \in Patch
  BY DEF EmptyCookie, Cookie, NoPatch, Patch
<1>2. EmptyJar \in Jar /\ Nothing \in Response
  BY <1>1 DEF EmptyJar, Jar, Nothing, Response, Maybe
<1>3. Absent \in [id : Writes \cup {NoWrite}, login : Maybe, size : Sizes \cup {0}]
  BY DEF Absent, Maybe
<1>4. Idle \in Request
  BY <1>2, <1>3 DEF Idle, Request, Kinds, Maybe
<1> QED BY <1>1, <1>2, <1>4 DEF Idle, Encryptable, ResponseFits

LEMMA StartInv ==
  ASSUME IInv, NEW r \in Requests, NEW k \in Kinds, Start(r, k)
  PROVE  IInv'
<1> DEFINE q == [Idle EXCEPT !.kind = k, !.jar = jar,
                   !.pc = CASE k = "login"  -> "login"
                            [] k = "logout" -> "delete"
                            [] OTHER        -> "read"]
<1>1. req' = [req EXCEPT ![r] = q] /\ jar' = jar /\ jar \in Jar
  BY DEF Start, IInv
<1>2. /\ q.kind = k /\ q.jar = jar /\ q.res = Nothing
      /\ q.pc = IF k = "login" THEN "login" ELSE IF k = "logout" THEN "delete" ELSE "read"
  BY DEF Idle, Kinds
<1>3. q \in Request
  <2>1. (CASE k = "login"  -> "login" [] k = "logout" -> "delete" [] OTHER -> "read")
          \in {"idle", "read", "login", "save", "delete", "respond"}
    OBVIOUS
  <2> QED BY <1>1, <2>1, EmptyTyped DEF Idle, Request
<1> HIDE DEF q
<1>4. Encryptable(q) /\ ResponseFits(q)
  BY <1>2 DEF Encryptable, ResponseFits
<1> QED BY <1>1, <1>3, <1>4, OneGoesOn

\* A session that is read can be saved with as many cookies as it needs.
LEMMA SessionTyped ==
  ASSUME NEW j \in Jar
  PROVE  \/ SessionOf(j) \in Values
         \/ SessionOf(j) = Absent
         \/ SessionOf(j) = [id |-> NoWrite, login |-> j.legacy, size |-> 0]
<1>1. j.session \in Cookie
  BY DEF Jar
<1>2. Readable(j) \in Values \cup {Absent}
  BY <1>1, ReadIsTyped DEF Readable
<1>3. [Absent EXCEPT !.login = j.legacy] = [id |-> NoWrite, login |-> j.legacy, size |-> 0]
  BY DEF Absent
<1> QED BY <1>2, <1>3 DEF SessionOf, convertFromLegacy

LEMMA ReadInv ==
  ASSUME IInv, NEW r \in Requests, Read(r)
  PROVE  IInv'
<1> DEFINE x == req[r]
           s == SessionOf(x.jar)
<1>1. /\ x \in Request /\ x.pc = "read" /\ jar' = jar /\ jar \in Jar
      /\ x.kind # "logout" /\ x.res = Nothing
  BY DEF Read, IInv, ResponseFits
<1>2. CASE req' = [req EXCEPT ![r].pc = "respond"]
  <2> DEFINE q == [x EXCEPT !.pc = "respond"]
  <2>1. req' = [req EXCEPT ![r] = q]
    BY <1>2 DEF IInv
  <2>2. q \in Request /\ Encryptable(q) /\ ResponseFits(q)
    BY <1>1 DEF Request, Encryptable, ResponseFits
  <2> HIDE DEF q
  <2> QED BY <1>1, <2>1, <2>2, OneGoesOn
<1>3. ASSUME s.login # NoLogin,
             NEW n \in IF x.kind = "token" \/ s.size = 0 THEN Sizes ELSE {s.size},
             req' = [req EXCEPT ![r].pc = "save", ![r].value = [s EXCEPT !.size = n],
                                ![r].fc = x.jar.fc]
      PROVE  IInv'
  <2> DEFINE q == [x EXCEPT !.pc = "save", !.value = [s EXCEPT !.size = n],
                            !.fc = x.jar.fc]
  <2>1. req' = [req EXCEPT ![r] = q]
    BY <1>3 DEF IInv
  <2>2. x.jar \in Jar
    BY <1>1 DEF Request
  <2>3. /\ s \in [id : Writes \cup {NoWrite}, login : Maybe, size : Sizes \cup {0}]
        /\ s.size # 0 => s.size \in Sizes
    <3>1. x.jar.legacy \in Maybe
      BY <2>2 DEF Jar
    <3>2. \/ s \in Values \/ s = Absent
          \/ s = [id |-> NoWrite, login |-> x.jar.legacy, size |-> 0]
      BY <2>2, SessionTyped
    <3> HIDE DEF s
    <3> QED BY <3>1, <3>2 DEF Values, Absent, Maybe
  <2> HIDE DEF s
  <2>4. n \in Sizes /\ s.login \in Logins
    BY <1>3, <2>3 DEF Maybe
  <2>5. x.jar.fc \in Maybe
    BY <2>2 DEF Jar
  <2>6. q \in Request
    BY <1>1, <2>3, <2>4, <2>5 DEF Request
  <2>7. /\ q.pc = "save" /\ q.kind = x.kind /\ q.res = x.res
        /\ q.value.login = s.login /\ q.value.size = n
    BY <1>1, <2>3 DEF Request
  <2> HIDE DEF q
  <2>8. Encryptable(q) /\ ResponseFits(q)
    BY <1>1, <2>4, <2>7 DEF Encryptable, ResponseFits
  <2> QED BY <1>1, <2>1, <2>6, <2>8, OneGoesOn
<1> QED BY <1>2, <1>3 DEF Read

LEMMA ConnectionInv ==
  ASSUME IInv, NEW r \in Requests, Connection(r)
  PROVE  IInv'
<1> DEFINE x == req[r]
<1>1. /\ x \in Request /\ x.pc = "save" /\ x.kind = "connection"
      /\ jar' = jar /\ jar \in Jar /\ x.res = Nothing
      /\ x.value.login \in Logins /\ x.value.size \in Sizes
  BY DEF Connection, IInv, ResponseFits, Encryptable
<1>2. CASE req' = [req EXCEPT ![r].pc = "respond"]
  <2> DEFINE q == [x EXCEPT !.pc = "respond"]
  <2>1. req' = [req EXCEPT ![r] = q]
    BY <1>2 DEF IInv
  <2>2. q \in Request /\ Encryptable(q) /\ ResponseFits(q)
    BY <1>1 DEF Request, Encryptable, ResponseFits
  <2> HIDE DEF q
  <2> QED BY <1>1, <2>1, <2>2, OneGoesOn
<1>3. CASE req' = [req EXCEPT ![r].kind = "token", ![r].fc = req[r].value.login]
  <2> DEFINE q == [x EXCEPT !.kind = "token", !.fc = x.value.login]
  <2>1. req' = [req EXCEPT ![r] = q]
    BY <1>3 DEF IInv
  <2>2. q \in Request /\ Encryptable(q) /\ ResponseFits(q)
    BY <1>1 DEF Request, Encryptable, ResponseFits, Kinds, Maybe
  <2> HIDE DEF q
  <2> QED BY <1>1, <2>1, <2>2, OneGoesOn
<1> QED BY <1>2, <1>3 DEF Connection

LEMMA LoginInv ==
  ASSUME IInv, NEW r \in Requests, Login(r)
  PROVE  IInv'
<1> DEFINE x == req[r]
<1>1. /\ x \in Request /\ x.pc = "login" /\ jar' = jar /\ jar \in Jar
      /\ x.kind # "logout" /\ x.res = Nothing
  BY DEF Login, IInv, ResponseFits
<1>2. PICK l \in FreshLogins, n \in Sizes :
        req' = [req EXCEPT ![r].pc = "save",
                  ![r].value = [id |-> NoWrite, login |-> l, size |-> n]]
  BY DEF Login
<1> DEFINE v == [id |-> NoWrite, login |-> l, size |-> n]
           q == [x EXCEPT !.pc = "save", !.value = v]
<1>3. l \in Logins
  BY DEF FreshLogins
<1>4. req' = [req EXCEPT ![r] = q]
  BY <1>2 DEF IInv
<1>5. q \in Request /\ Encryptable(q) /\ ResponseFits(q)
  BY <1>1, <1>3 DEF Request, Encryptable, ResponseFits, Maybe
<1> HIDE DEF q
<1> QED BY <1>1, <1>4, <1>5, OneGoesOn

LEMMA SaveInv ==
  ASSUME IInv, NEW r \in Requests, Save(r)
  PROVE  IInv'
<1> DEFINE x == req[r]
<1>1. /\ x \in Request /\ x.pc = "save" /\ jar' = jar /\ jar \in Jar
      /\ x.kind # "logout" /\ x.value.login \in Logins /\ x.value.size \in Sizes
  BY DEF Save, IInv, ResponseFits, Encryptable
<1>2. PICK w \in FreshWrites :
        req' = [req EXCEPT ![r].pc = "respond",
                  ![r].value = [x.value EXCEPT !.id = w],
                  ![r].res = SavePatch(x, [x.value EXCEPT !.id = w])]
  BY DEF Save
<1> DEFINE v == [x.value EXCEPT !.id = w]
           q == [x EXCEPT !.pc = "respond", !.value = v, !.res = SavePatch(x, v)]
<1>3. w \in Writes
  BY DEF FreshWrites
<1>4. req' = [req EXCEPT ![r] = q]
  BY <1>2 DEF IInv
<1>5. v \in Values
  BY <1>1, <1>3 DEF Request, Values
<1> HIDE DEF v
<1>6. x.jar \in Jar /\ x.jar.session \in Cookie
  BY <1>1 DEF Request, Jar
<1>7. SavePatch(x, v) \in Response
  <2>1. setChunkedCookie(x.jar.session, v) \in Patch
    BY <1>5, <1>6, SetIsTyped
  <2> QED BY <1>1, <2>1 DEF SavePatch, storeInCookie, deleteCookie, Response, Request
<1>8. q \in Request
  BY <1>1, <1>5, <1>7 DEF Request, Values, Maybe
<1>9. /\ q.pc = "respond" /\ q.kind = x.kind /\ q.value = v
      /\ q.res = SavePatch(x, v) /\ q.jar = x.jar /\ q.fc = x.fc
  BY <1>1 DEF Request
<1> HIDE DEF q
<1>10. SavePatch(x, v) = SavePatch(q, v)
  BY <1>9 DEF SavePatch
<1>11. Encryptable(q) /\ ResponseFits(q)
  BY <1>1, <1>5, <1>9, <1>10 DEF Encryptable, ResponseFits
<1> QED BY <1>1, <1>4, <1>8, <1>11, OneGoesOn

LEMMA DeleteInv ==
  ASSUME IInv, NEW r \in Requests, Delete(r)
  PROVE  IInv'
<1> DEFINE x == req[r]
           q == [x EXCEPT !.pc = "respond", !.res = DeletePatch(x.jar)]
<1>1. /\ x \in Request /\ x.pc = "delete" /\ jar' = jar /\ jar \in Jar
      /\ x.kind = "logout"
  BY DEF Delete, IInv, ResponseFits
<1>2. req' = [req EXCEPT ![r] = q]
  BY DEF Delete, IInv
<1>3. x.jar \in Jar /\ x.jar.session \in Cookie
  BY <1>1 DEF Request, Jar
<1>4. DeletePatch(x.jar) \in Response
  BY <1>3, DeleteIsTyped DEF DeletePatch, deleteCookie, Response, Maybe
<1>5. q \in Request
  BY <1>1, <1>4 DEF Request
<1>6. /\ q.pc = "respond" /\ q.kind = "logout" /\ q.jar = x.jar
      /\ q.res = DeletePatch(x.jar)
  BY <1>1 DEF Request
<1> HIDE DEF q
<1>7. Encryptable(q) /\ ResponseFits(q)
  BY <1>6 DEF Encryptable, ResponseFits
<1> QED BY <1>1, <1>2, <1>5, <1>7, OneGoesOn

\* What the browser has after a response.
LEMMA ResponseTyped ==
  ASSUME NEW j \in Jar, NEW p \in Response
  PROVE  ApplyResponse(j, p) \in Jar
<1>1. Apply(j.session, p.session) \in Cookie
  BY ApplyIsTyped DEF Jar, Response
<1>2. \A s \in SUBSET Maybe, old \in Maybe : OneOf(s, old) \in Maybe
  BY DEF OneOf
<1>3. p.fc \in SUBSET Maybe /\ p.legacy \in SUBSET Maybe
  BY DEF Response, Maybe
<1>4. OneOf(p.fc, j.fc) \in Maybe /\ OneOf(p.legacy, j.legacy) \in Maybe
  BY <1>2, <1>3 DEF Jar
<1> QED BY <1>1, <1>4 DEF ApplyResponse, Jar

LEMMA NextInv == IInv /\ [Next]_vars => IInv'
<1> SUFFICES ASSUME IInv, [Next]_vars PROVE IInv'
  OBVIOUS
<1>1. ASSUME NEW r \in Requests, NEW k \in Kinds, Start(r, k) PROVE IInv'
  BY <1>1, StartInv
<1>2. ASSUME NEW r \in Requests, Read(r) PROVE IInv'
  BY <1>2, ReadInv
<1>3. ASSUME NEW r \in Requests, Connection(r) PROVE IInv'
  BY <1>3, ConnectionInv
<1>4. ASSUME NEW r \in Requests, Login(r) PROVE IInv'
  BY <1>4, LoginInv
<1>5. ASSUME NEW r \in Requests, Save(r) PROVE IInv'
  BY <1>5, SaveInv
<1>6. ASSUME NEW r \in Requests, Delete(r) PROVE IInv'
  BY <1>6, DeleteInv
<1>7. ASSUME NEW r \in Requests, Respond(r) PROVE IInv'
  <2>1. jar' = ApplyResponse(jar, req[r].res) /\ req' = [req EXCEPT ![r] = Idle]
    BY <1>7 DEF Respond
  <2>2. jar \in Jar /\ req[r].res \in Response
    BY DEF IInv, Request
  <2>3. jar' \in Jar
    BY <2>1, <2>2, ResponseTyped
  <2> QED BY <2>1, <2>3, EmptyTyped, OneGoesOn
<1>8. ASSUME NEW r \in Requests, Fail(r) PROVE IInv'
  <2>1. jar' \in Jar /\ req' = [req EXCEPT ![r] = Idle]
    BY <1>8 DEF Fail, IInv
  <2> QED BY <2>1, EmptyTyped, OneGoesOn
<1>9. CASE UNCHANGED vars
  BY <1>9 DEF vars, IInv, Encryptable, ResponseFits
<1> QED BY <1>1, <1>2, <1>3, <1>4, <1>5, <1>6, <1>7, <1>8, <1>9 DEF Next

LEMMA InitInv == Init => IInv
<1> SUFFICES ASSUME Init PROVE IInv
  OBVIOUS
<1>1. jar \in Jar
  <2>1. EmptyJar \in Jar
    BY EmptyTyped
  <2> QED BY <2>1, StatelessAssumption DEF Init, Jar, Maybe
<1> QED BY <1>1, EmptyTyped DEF Init, IInv

LEMMA Invariant == Spec => []IInv
  BY InitInv, NextInv, PTL DEF Spec

-----------------------------------------------------------------------------
(* Cookies, requests and responses keep their types: what is read is a     *)
(* whole session of one write or none, and only what can be encrypted is   *)
(* saved.                                                                  *)
THEOREM StatelessTypeCorrect == Spec => []TypeOK
<1>1. IInv => TypeOK
  <2> SUFFICES ASSUME IInv PROVE TypeOK
    OBVIOUS
  <2>1. jar.session \in Cookie /\ jar.fc \in Maybe /\ jar.legacy \in Maybe
    BY DEF IInv, Jar
  <2>2. ASSUME NEW r \in Requests
        PROVE  /\ req[r].kind \in Kinds /\ req[r].value.login \in Maybe
               /\ req[r].res.session \in Patch
    BY DEF IInv, Request, Response
  <2> QED BY <2>1, <2>2 DEF TypeOK, Cookie, Patch, Maybe
<1> QED BY <1>1, Invariant, PTL

(* A logout that nothing overlaps leaves no session, no connection token   *)
(* and no v3 cookie, whatever the browser had, of however many chunks.     *)
THEOREM LogoutsClear == Spec => LoneLogoutClears
<1> DEFINE A == \A r \in Requests :
                  AppliedAlone(r) /\ req[r].kind = "logout" => jar' = EmptyJar
<1>1. IInv => A
  <2> SUFFICES ASSUME IInv, NEW r \in Requests, AppliedAlone(r), req[r].kind = "logout"
               PROVE  jar' = EmptyJar
    OBVIOUS
  <2>1. jar' = ApplyResponse(jar, DeletePatch(jar)) /\ jar \in Jar
    BY DEF AppliedAlone, IInv, ResponseFits
  <2>2. Apply(jar.session, deleteChunkedCookie(jar.session)) = EmptyCookie
    BY <2>1, DeleteClears DEF Jar
  <2>3. \A l : OneOf(deleteCookie({l} \ {NoLogin}), l) = NoLogin
    <3> TAKE l
    <3>1. CASE l = NoLogin
      <4>1. deleteCookie({l} \ {NoLogin}) = {}
        BY <3>1 DEF deleteCookie
      <4> QED BY <3>1, <4>1 DEF OneOf
    <3>2. CASE l # NoLogin
      <4>1. deleteCookie({l} \ {NoLogin}) = {NoLogin}
        BY <3>2 DEF deleteCookie
      <4> QED BY <4>1 DEF OneOf
    <3> QED BY <3>1, <3>2
  <2> QED BY <2>1, <2>2, <2>3 DEF ApplyResponse, DeletePatch,
        getConnectionTokenSetsCookies, EmptyJar
<1> QED BY <1>1, Invariant, PTL DEF LoneLogoutClears

\* In a step in which nothing overlapped, the browser reads what was set.
LEMMA ReadBack ==
  ASSUME IInv, NEW r \in Requests, AppliedAlone(r), req[r].res # Nothing,
         req[r].kind # "logout",
         req[r].value.size = 1 \/ NoGapWith(jar.session, req[r].value)
  PROVE  Readable(jar') = req[r].value
<1> DEFINE v == req[r].value
<1>1. /\ jar' = ApplyResponse(jar, SavePatch(req[r], v))
      /\ v \in Values /\ jar \in Jar /\ req[r].jar = jar
  BY DEF AppliedAlone, IInv, ResponseFits
<1>2. jar'.session = Apply(jar.session, setChunkedCookie(jar.session, v))
  BY <1>1 DEF ApplyResponse, SavePatch
<1>3. jar.session \in Cookie
  BY <1>1 DEF Jar
<1> QED BY <1>1, <1>2, <1>3, SetReadsBack DEF Readable

(* A save that nothing overlaps is read back, whatever stale chunks and    *)
(* base cookies the browser had: for sessions of up to three chunks.  With *)
(* four, an index that overlaps left out hides the chunk beyond it.        *)
THEOREM SavesReadBack == ASSUME MaxChunks <= 3 PROVE Spec => LoneSaveReadsBack
<1> DEFINE A == \A r \in Requests :
                  AppliedAlone(r) /\ req[r].res # Nothing /\ req[r].kind # "logout"
                    => Readable(jar') = req[r].value
<1>1. IInv => A
  <2> SUFFICES ASSUME IInv, NEW r \in Requests, AppliedAlone(r),
                      req[r].res # Nothing, req[r].kind # "logout"
               PROVE  Readable(jar') = req[r].value
    OBVIOUS
  <2>1. req[r].value \in Values /\ jar.session \in Cookie
    BY DEF IInv, ResponseFits, Jar
  <2>2. req[r].value.size = 1 \/ NoGapWith(jar.session, req[r].value)
    BY <2>1, ThreeChunksNoGap
  <2> QED BY <2>2, ReadBack
<1> QED BY <1>1, Invariant, PTL DEF LoneSaveReadsBack

(* The same for sessions of any number of chunks, when the chunks that the *)
(* request brought and those it sets leave no index out.                   *)
SavesWithoutGapReadBack ==
    [][\A r \in Requests :
         AppliedAlone(r) /\ req[r].res # Nothing /\ req[r].kind # "logout"
           /\ NoGapWith(jar.session, req[r].value)
           => Readable(jar') = req[r].value]_vars

(* With any number of chunks a save that nothing overlaps is read back from*)
(* a browser whose chunks have no gap.                                     *)
THEOREM LargeSavesReadBack == Spec => SavesWithoutGapReadBack
<1> DEFINE A == \A r \in Requests :
                  AppliedAlone(r) /\ req[r].res # Nothing /\ req[r].kind # "logout"
                    /\ NoGapWith(jar.session, req[r].value)
                    => Readable(jar') = req[r].value
<1>1. IInv => A
  <2> SUFFICES ASSUME IInv, NEW r \in Requests, AppliedAlone(r),
                      req[r].res # Nothing, req[r].kind # "logout",
                      NoGapWith(jar.session, req[r].value)
               PROVE  Readable(jar') = req[r].value
    OBVIOUS
  <2> QED BY ReadBack
<1> QED BY <1>1, Invariant, PTL DEF SavesWithoutGapReadBack
=============================================================================
