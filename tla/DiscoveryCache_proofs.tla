------------------------ MODULE DiscoveryCache_proofs ------------------------
(***************************************************************************)
(* Theorems about DiscoveryCache, and about MetadataDiscovery, which uses  *)
(* it, for every set of calls and domains and for all limits.              *)
(***************************************************************************)
EXTENDS MetadataDiscovery, SequenceTheorems, TLAPS

Call == [pc : {"idle", "waiting", "returned", "failed"},
         domain : Domains \cup {NoDomain}, on : Calls \cup {NoCall},
         calledAt : Nat, at : Nat]

\* A sequence without repetitions.
Distinct(s) == \A i, j \in DOMAIN s : s[i] = s[j] => i = j

LEMMA MoveToEndKeeps ==
  ASSUME NEW s \in Seq(Domains), NEW d \in Elements(s), Distinct(s)
  PROVE  /\ MoveToEnd(s, d) \in Seq(Domains)
         /\ Len(MoveToEnd(s, d)) = Len(s)
         /\ Distinct(MoveToEnd(s, d))
         /\ Elements(MoveToEnd(s, d)) = Elements(s)
<1> DEFINE i == CHOOSE i \in DOMAIN s : s[i] = d
           n == Len(s)
           t == [j \in DOMAIN s |-> IF j < i THEN s[j]
                                    ELSE IF j < n THEN s[j + 1] ELSE d]
<1>1. n \in Nat /\ DOMAIN s = 1 .. n /\ \A j \in 1 .. n : s[j] \in Domains
  OBVIOUS
<1>2. i \in 1 .. n /\ s[i] = d
  BY <1>1 DEF Elements
<1>3. MoveToEnd(s, d) = t
  BY DEF MoveToEnd
<1> HIDE DEF i, n
<1>4. t \in [1 .. n -> Domains]
  BY <1>1, <1>2
<1>5. t \in Seq(Domains) /\ Len(t) = n
  BY <1>1, <1>4
<1>6. Distinct(t)
  <2> SUFFICES ASSUME NEW j \in 1 .. n, NEW k \in 1 .. n, t[j] = t[k]
               PROVE  j = k
    BY <1>1 DEF Distinct
  <2>1. \A l \in 1 .. n : t[l] = IF l < i THEN s[l] ELSE IF l < n THEN s[l + 1] ELSE s[i]
    BY <1>1, <1>2
  <2>2. \A l, m \in 1 .. n : s[l] = s[m] => l = m
    BY <1>1 DEF Distinct
  <2> HIDE DEF t
  <2> QED BY <1>1, <1>2, <2>1, <2>2
<1>7. Elements(t) = Elements(s)
  <2>1. ASSUME NEW e \in Elements(t) PROVE e \in Elements(s)
    BY <1>1, <1>2, <2>1 DEF Elements
  <2>2. ASSUME NEW e \in Elements(s) PROVE e \in Elements(t)
    <3>1. PICK k \in 1 .. n : s[k] = e
      BY <1>1 DEF Elements
    <3>2. CASE k < i
      BY <1>1, <3>1, <3>2 DEF Elements
    <3>3. CASE k > i
      <4>1. k - 1 \in 1 .. n /\ t[k - 1] = s[k]
        BY <1>1, <1>2, <3>3
      <4> QED BY <1>1, <3>1, <4>1 DEF Elements
    <3>4. CASE k = i
      <4>1. n \in 1 .. n /\ t[n] = d
        BY <1>1, <1>2
      <4> QED BY <1>1, <1>2, <3>1, <3>4, <4>1 DEF Elements
    <3> QED BY <1>1, <1>2, <3>2, <3>3, <3>4
  <2> QED BY <2>1, <2>2
<1> QED BY <1>3, <1>5, <1>6, <1>7 DEF n

LEMMA InsertKeeps ==
  ASSUME NEW s \in Seq(Domains), NEW d \in Domains, Distinct(s)
  PROVE  /\ Insert(s, d) \in Seq(Domains) /\ Distinct(Insert(s, d))
         /\ Elements(Insert(s, d)) = Elements(s) \cup {d}
<1>1. CASE d \in Elements(s)
  BY <1>1 DEF Insert
<1>2. CASE d \notin Elements(s)
  <2>1. Insert(s, d) = Append(s, d)
    BY <1>2 DEF Insert
  <2>2. /\ Append(s, d) \in Seq(Domains) /\ Len(Append(s, d)) = Len(s) + 1
        /\ \A i \in 1 .. Len(s) : Append(s, d)[i] = s[i]
        /\ Append(s, d)[Len(s) + 1] = d
    OBVIOUS
  <2>3. \A i \in 1 .. Len(s) : s[i] # d
    BY <1>2 DEF Elements
  <2>4. Distinct(Append(s, d))
    BY <2>2, <2>3 DEF Distinct
  <2>5. Elements(Append(s, d)) = Elements(s) \cup {d}
    BY <2>2 DEF Elements
  <2> QED BY <2>1, <2>2, <2>4, <2>5
<1> QED BY <1>1, <1>2

LEMMA EvictKeeps ==
  ASSUME NEW s \in Seq(Domains), Distinct(s)
  PROVE  /\ Evict(s) \in Seq(Domains) /\ Distinct(Evict(s))
         /\ Len(Evict(s)) <= maxEntries
         /\ Elements(Evict(s)) \subseteq Elements(s)
<1>1. CASE Len(s) <= maxEntries
  BY <1>1, CacheAssumption DEF Evict
<1>2. CASE Len(s) > maxEntries
  <2> DEFINE k == Len(s) - maxEntries + 1
             t == SubSeq(s, k, Len(s))
  <2>1. k \in 1 .. Len(s) /\ Evict(s) = t
    BY <1>2, CacheAssumption DEF Evict
  <2> HIDE DEF k
  <2>2. /\ t \in Seq(Domains) /\ Len(t) = Len(s) - k + 1
        /\ \A i \in 1 .. Len(s) - k + 1 : t[i] = s[k + i - 1]
    BY <2>1
  <2>3. Len(t) = maxEntries
    BY <2>2, CacheAssumption DEF k
  <2>4. \A i \in 1 .. Len(t) : k + i - 1 \in 1 .. Len(s) /\ t[i] = s[k + i - 1]
    BY <2>1, <2>2
  <2> HIDE DEF t
  <2>5. Distinct(t)
    <3> SUFFICES ASSUME NEW i \in 1 .. Len(t), NEW j \in 1 .. Len(t), t[i] = t[j]
                 PROVE  i = j
      BY <2>2 DEF Distinct
    <3>1. /\ k + i - 1 \in DOMAIN s /\ k + j - 1 \in DOMAIN s
          /\ s[k + i - 1] = s[k + j - 1]
      BY <2>4
    <3>2. k + i - 1 = k + j - 1
      BY <3>1 DEF Distinct
    <3> QED BY <2>1, <2>2, <3>2
  <2>6. Elements(t) \subseteq Elements(s)
    BY <2>2, <2>4 DEF Elements
  <2> QED BY <2>1, <2>2, <2>3, <2>5, <2>6, CacheAssumption
<1> QED BY <1>1, <1>2, CacheAssumption

-----------------------------------------------------------------------------
\* A call that fetches is the one its domain has in flight.
OwnFlight ==
    \A c \in Calls : Fetching(c) =>
        calls[c].domain \in Domains /\ inFlight[calls[c].domain] = c

\* Cached metadata was fetched, and fetches end and are joined in time.
Timing ==
    /\ \A d \in Elements(order) : expiresAt[d] >= ttl
    /\ \A c \in Calls : calls[c].pc = "waiting" =>
         now <= calls[calls[c].on].at + FetchLimit
           /\ calls[c].calledAt <= calls[calls[c].on].at + FetchLimit

\* The inductive invariant.
IInv == WaitersHaveFetch /\ OwnFlight /\ Bounded /\ Timing /\ Fresh

LEMMA InitInv == Init => TypeOK /\ IInv
  BY CacheAssumption
  DEF Init, TypeOK, IInv, WaitersHaveFetch, OwnFlight, Bounded, Timing, Fresh,
      Fetching, Idle, Elements

LEMMA BeginInv ==
  ASSUME TypeOK, IInv, NEW c \in Calls, NEW d \in Domains,
         Hit(c, d) \/ Join(c, d) \/ Fetch(c, d)
  PROVE  TypeOK' /\ IInv'
<1> USE DEF Fetching
<1>0. /\ calls \in [Calls -> Call] /\ now \in Nat /\ order \in Seq(Domains)
      /\ expiresAt \in [Domains -> Nat]
      /\ inFlight \in [Domains -> Calls \cup {NoCall}]
  BY DEF TypeOK, Call
<1>i. /\ WaitersHaveFetch /\ OwnFlight /\ Bounded /\ Timing /\ Fresh
      /\ Distinct(order)
  BY DEF IInv, Bounded, Distinct
<1>1. CASE Hit(c, d)
  <2>1. d \in Elements(order) /\ expiresAt[d] > now /\ expiresAt[d] >= ttl
    BY <1>1, <1>i DEF Hit, Cached, Timing
  <2>2. /\ order' \in Seq(Domains) /\ Len(order') = Len(order)
        /\ Distinct(order') /\ Elements(order') = Elements(order)
    BY <1>0, <1>1, <1>i, <2>1, MoveToEndKeeps DEF Hit
  <2> DEFINE x == [pc |-> "returned", domain |-> d, on |-> NoCall,
                   calledAt |-> now, at |-> expiresAt[d] - ttl]
  <2>3. calls' = [calls EXCEPT ![c] = x] /\ calls[c].pc = "idle"
    BY <1>1 DEF Hit, Begin
  <2>4. x \in Call
    BY <1>0, <2>1, CacheAssumption DEF Call
  <2>5. TypeOK'
    <3>1. calls' \in [Calls -> Call]
      BY <1>0, <2>3, <2>4
    <3> QED BY <1>0, <1>1, <2>2, <3>1 DEF Hit, TypeOK, Call
  <2>6. \A q \in Calls : calls'[q].pc = "waiting"
                           => q # c /\ calls'[q] = calls[q] /\ calls[q].on # c
                                /\ (calls[q].on \in Calls => calls'[calls[q].on] = calls[calls[q].on])
    BY <1>0, <1>i, <2>3 DEF WaitersHaveFetch
  <2>7. \A q \in Calls : q # c => calls'[q] = calls[q]
    BY <1>0, <2>3
  <2>8. /\ inFlight' = inFlight /\ now' = now /\ expiresAt' = expiresAt
    BY <1>1 DEF Hit
  <2>9. WaitersHaveFetch'
    BY <1>0, <1>i, <2>3, <2>6, <2>7, <2>8, CacheAssumption DEF WaitersHaveFetch
  <2>10. OwnFlight'
    BY <1>i, <2>6, <2>8 DEF OwnFlight
  <2>11. Bounded'
    BY <1>i, <2>2 DEF Bounded, Distinct
  <2>12. Timing'
    BY <1>0, <1>i, <2>2, <2>6, <2>8, <2>9 DEF Timing, WaitersHaveFetch
  <2>13. Fresh'
    BY <1>0, <1>i, <2>1, <2>3, <2>7, CacheAssumption DEF Fresh
  <2> QED BY <2>5, <2>9, <2>10, <2>11, <2>12, <2>13 DEF IInv
<1>2. CASE Join(c, d)
  <2> DEFINE f == inFlight[d]
             x == [pc |-> "waiting", domain |-> d, on |-> f,
                   calledAt |-> now, at |-> 0]
  <2>1. calls' = [calls EXCEPT ![c] = x] /\ calls[c].pc = "idle"
    BY <1>2 DEF Join, Begin
  <2>2. f \in Calls /\ f # c /\ Fetching(f) /\ calls[f].domain = d
    BY <1>0, <1>2, <1>i, <2>1 DEF Join, WaitersHaveFetch
  <2>3. x \in Call
    BY <1>0, <2>2 DEF Call
  <2>4. TypeOK'
    <3>1. calls' \in [Calls -> Call]
      BY <1>0, <2>1, <2>3
    <3> QED BY <1>0, <1>2, <3>1 DEF Join, TypeOK, Call
  <2>5. \A q \in Calls : q # c => calls'[q] = calls[q]
    BY <1>0, <2>1
  <2>6. calls'[c] = x
    BY <1>0, <2>1
  <2>7. /\ inFlight' = inFlight /\ now' = now /\ expiresAt' = expiresAt
        /\ order' = order
    BY <1>2 DEF Join
  <2>8. \A q \in Calls : calls[q].pc = "waiting" => calls[q].on # c
    BY <1>i, <2>1 DEF WaitersHaveFetch
  <2>9. WaitersHaveFetch'
    BY <1>0, <1>i, <2>1, <2>2, <2>5, <2>6, <2>7, <2>8 DEF WaitersHaveFetch
  <2>10. OwnFlight'
    BY <1>i, <2>2, <2>5, <2>6, <2>7 DEF OwnFlight
  <2>11. Bounded'
    BY <1>i, <2>7 DEF Bounded
  <2>12. Timing'
    <3>1. now <= calls[f].at + FetchLimit
      BY <1>i, <2>2 DEF Timing
    <3>2. ASSUME NEW q \in Calls, calls'[q].pc = "waiting"
          PROVE  /\ now <= calls'[calls'[q].on].at + FetchLimit
                 /\ calls'[q].calledAt <= calls'[calls'[q].on].at + FetchLimit
      <4>1. CASE q = c
        BY <2>2, <2>5, <2>6, <3>1, <4>1
      <4>2. CASE q # c
        BY <1>i, <2>5, <2>8, <3>2, <4>2 DEF Timing, WaitersHaveFetch
      <4> QED BY <4>1, <4>2
    <3> QED BY <1>i, <2>7, <3>2 DEF Timing
  <2>13. Fresh'
    BY <1>i, <2>5, <2>6, <2>7 DEF Fresh
  <2> QED BY <2>4, <2>9, <2>10, <2>11, <2>12, <2>13 DEF IInv
<1>3. CASE Fetch(c, d)
  <2> DEFINE x == [pc |-> "waiting", domain |-> d, on |-> c,
                   calledAt |-> now, at |-> now]
  <2>1. calls' = [calls EXCEPT ![c] = x] /\ calls[c].pc = "idle"
    BY <1>3 DEF Fetch, Begin
  <2>2. /\ inFlight' = [inFlight EXCEPT ![d] = c] /\ inFlight[d] = NoCall
        /\ now' = now /\ expiresAt' = expiresAt /\ order' = order
    BY <1>3 DEF Fetch
  <2>3. x \in Call
    BY <1>0 DEF Call
  <2>4. TypeOK'
    <3>1. calls' \in [Calls -> Call] /\ inFlight' \in [Domains -> Calls \cup {NoCall}]
      BY <1>0, <2>1, <2>2, <2>3
    <3> QED BY <1>0, <1>3, <2>2, <3>1 DEF Fetch, TypeOK, Call
  <2>5. \A q \in Calls : q # c => calls'[q] = calls[q]
    BY <1>0, <2>1
  <2>6. calls'[c] = x
    BY <1>0, <2>1
  <2>7. \A q \in Calls : calls[q].pc = "waiting" => calls[q].on # c /\ q # c
    BY <1>i, <2>1 DEF WaitersHaveFetch
  <2>8. \A q \in Calls : Fetching(q) => calls[q].domain # d
    BY <1>0, <1>i, <2>2, CacheAssumption DEF OwnFlight
  <2>9. WaitersHaveFetch'
    <3>1. ASSUME NEW q \in Calls, calls'[q].pc = "waiting"
          PROVE  /\ calls'[q].on \in Calls
                 /\ calls'[calls'[q].on].pc = "waiting"
                 /\ calls'[calls'[q].on].on = calls'[q].on
                 /\ calls'[calls'[q].on].domain = calls'[q].domain
      <4>1. CASE q = c
        BY <2>6, <4>1
      <4>2. CASE q # c
        BY <1>i, <2>5, <2>7, <3>1, <4>2 DEF WaitersHaveFetch
      <4> QED BY <4>1, <4>2
    <3>2. ASSUME NEW e \in Domains, inFlight'[e] # NoCall
          PROVE  /\ calls'[inFlight'[e]].pc = "waiting"
                 /\ calls'[inFlight'[e]].on = inFlight'[e]
                 /\ calls'[inFlight'[e]].domain = e
      <4>1. CASE e = d
        BY <1>0, <2>2, <2>6, <4>1
      <4>2. CASE e # d
        <5>1. inFlight'[e] = inFlight[e]
          BY <1>0, <2>2, <4>2
        <5>2. Fetching(inFlight[e]) /\ calls[inFlight[e]].domain = e
          BY <1>i, <3>2, <5>1 DEF WaitersHaveFetch
        <5>3. inFlight[e] \in Calls
          BY <1>0, <3>2, <5>1
        <5> QED BY <2>5, <2>7, <5>1, <5>2, <5>3
      <4> QED BY <4>1, <4>2
    <3> QED BY <3>1, <3>2 DEF WaitersHaveFetch
  <2>10. OwnFlight'
    <3>1. ASSUME NEW q \in Calls, calls'[q].pc = "waiting", calls'[q].on = q
          PROVE  calls'[q].domain \in Domains /\ inFlight'[calls'[q].domain] = q
      <4>1. CASE q = c
        BY <1>0, <2>2, <2>6, <4>1
      <4>2. CASE q # c
        BY <1>0, <1>i, <2>2, <2>5, <2>8, <3>1, <4>2 DEF OwnFlight
      <4> QED BY <4>1, <4>2
    <3> QED BY <3>1 DEF OwnFlight
  <2>11. Bounded'
    BY <1>i, <2>2 DEF Bounded
  <2>12. Timing'
    <3>1. ASSUME NEW q \in Calls, calls'[q].pc = "waiting"
          PROVE  /\ now <= calls'[calls'[q].on].at + FetchLimit
                 /\ calls'[q].calledAt <= calls'[calls'[q].on].at + FetchLimit
      <4>1. CASE q = c
        BY <1>0, <2>6, <4>1, CacheAssumption
      <4>2. CASE q # c
        BY <1>i, <2>5, <2>7, <3>1, <4>2 DEF Timing, WaitersHaveFetch
      <4> QED BY <4>1, <4>2
    <3> QED BY <1>i, <2>2, <3>1 DEF Timing
  <2>13. Fresh'
    BY <1>i, <2>5, <2>6 DEF Fresh
  <2> QED BY <2>4, <2>9, <2>10, <2>11, <2>12, <2>13 DEF IInv
<1> QED BY <1>1, <1>2, <1>3

\* A fetch ends, one way or the other: pc is what becomes of those that wait.
LEMMA SettleInv ==
  ASSUME TypeOK, IInv, NEW c \in Calls, Resolves(c) \/ Rejects(c)
  PROVE  TypeOK' /\ IInv'
<1> USE DEF Fetching
<1> DEFINE d == calls[c].domain
<1>0. /\ calls \in [Calls -> Call] /\ now \in Nat /\ order \in Seq(Domains)
      /\ expiresAt \in [Domains -> Nat]
      /\ inFlight \in [Domains -> Calls \cup {NoCall}]
  BY DEF TypeOK, Call
<1>i. /\ WaitersHaveFetch /\ OwnFlight /\ Bounded /\ Timing /\ Fresh
      /\ Distinct(order)
  BY DEF IInv, Bounded, Distinct
<1>1. PICK pc \in {"returned", "failed"} : Settle(c, pc)
  BY DEF Resolves, Rejects
<1>2. /\ Fetching(c) /\ d \in Domains /\ inFlight[d] = c
      /\ inFlight' = [inFlight EXCEPT ![d] = NoCall] /\ now' = now
  BY <1>i DEF Resolves, Rejects, OwnFlight
<1>3. \A q \in Calls :
        IF calls[q].pc = "waiting" /\ calls[q].on = c
        THEN calls'[q] = [calls[q] EXCEPT !.pc = pc, !.at = calls[c].at]
        ELSE calls'[q] = calls[q]
  BY <1>1 DEF Settle
<1>4. calls' \in [Calls -> Call]
  <2>1. \A q \in Calls : calls'[q] \in Call
    BY <1>0, <1>3 DEF Call
  <2> QED BY <1>1, <2>1 DEF Settle
<1>5. \A q \in Calls : calls'[q].pc = "waiting"
        => calls'[q] = calls[q] /\ calls[q].on # c
  BY <1>0, <1>3 DEF Call
<1>6. \A q \in Calls : Fetching(q) /\ q # c => calls'[q] = calls[q]
  BY <1>3
<1>7. /\ order' \in Seq(Domains) /\ Distinct(order') /\ Len(order') <= maxEntries
      /\ Elements(order') \subseteq Elements(order) \cup {d}
      /\ expiresAt' \in [Domains -> Nat]
      /\ \A e \in Elements(order') : expiresAt'[e] >= ttl
  <2>1. CASE Resolves(c)
    <3>1. /\ Insert(order, d) \in Seq(Domains) /\ Distinct(Insert(order, d))
          /\ Elements(Insert(order, d)) = Elements(order) \cup {d}
      BY <1>0, <1>2, <1>i, InsertKeeps
    <3>2. order' = Evict(Insert(order, d))
      BY <2>1 DEF Resolves
    <3>3. /\ order' \in Seq(Domains) /\ Distinct(order')
          /\ Len(order') <= maxEntries
          /\ Elements(order') \subseteq Elements(order) \cup {d}
      BY <3>1, <3>2, EvictKeeps
    <3>4. calls[c].at \in Nat
      BY <1>0 DEF Call
    <3>5. expiresAt' = [expiresAt EXCEPT ![d] = calls[c].at + ttl]
      BY <2>1 DEF Resolves
    <3>6. /\ expiresAt' \in [Domains -> Nat]
          /\ \A e \in Elements(order) \cup {d} : expiresAt'[e] >= ttl
      <4>1. \A e \in Elements(order) : e \in Domains
        BY <1>0 DEF Elements
      <4> QED BY <1>0, <1>2, <1>i, <3>4, <3>5, <4>1, CacheAssumption DEF Timing
    <3> QED BY <3>3, <3>6
  <2>2. CASE Rejects(c)
    BY <1>0, <1>i, <2>2 DEF Rejects, Bounded, Timing
  <2> QED BY <2>1, <2>2
<1>8. TypeOK'
  <2>1. inFlight' \in [Domains -> Calls \cup {NoCall}]
    BY <1>0, <1>2
  <2> QED BY <1>0, <1>2, <1>4, <1>7, <2>1 DEF TypeOK, Call
<1>9. WaitersHaveFetch'
  <2>1. ASSUME NEW q \in Calls, calls'[q].pc = "waiting"
        PROVE  /\ calls'[q].on \in Calls
               /\ calls'[calls'[q].on].pc = "waiting"
               /\ calls'[calls'[q].on].on = calls'[q].on
               /\ calls'[calls'[q].on].domain = calls'[q].domain
    BY <1>i, <1>5, <1>6, <2>1 DEF WaitersHaveFetch
  <2>2. ASSUME NEW e \in Domains, inFlight'[e] # NoCall
        PROVE  /\ calls'[inFlight'[e]].pc = "waiting"
               /\ calls'[inFlight'[e]].on = inFlight'[e]
               /\ calls'[inFlight'[e]].domain = e
    <3>1. e # d /\ inFlight'[e] = inFlight[e] /\ inFlight[e] \in Calls
      BY <1>0, <1>2, <2>2
    <3>2. Fetching(inFlight[e]) /\ calls[inFlight[e]].domain = e
      BY <1>i, <2>2, <3>1 DEF WaitersHaveFetch
    <3>3. inFlight[e] # c
      BY <3>1, <3>2
    <3> QED BY <1>6, <3>1, <3>2, <3>3
  <2> QED BY <2>1, <2>2 DEF WaitersHaveFetch
<1>10. OwnFlight'
  <2>1. ASSUME NEW q \in Calls, calls'[q].pc = "waiting", calls'[q].on = q
        PROVE  calls'[q].domain \in Domains /\ inFlight'[calls'[q].domain] = q
    BY <1>0, <1>2, <1>i, <1>5, <2>1 DEF OwnFlight
  <2> QED BY <2>1 DEF OwnFlight
<1>11. Bounded'
  BY <1>7 DEF Bounded, Distinct
<1>12. Timing'
  <2>1. ASSUME NEW q \in Calls, calls'[q].pc = "waiting"
        PROVE  /\ now <= calls'[calls'[q].on].at + FetchLimit
               /\ calls'[q].calledAt <= calls'[calls'[q].on].at + FetchLimit
    BY <1>i, <1>5, <1>6, <2>1 DEF Timing, WaitersHaveFetch
  <2> QED BY <1>2, <1>7, <2>1 DEF Timing
<1>13. Fresh'
  <2>1. ASSUME NEW q \in Calls, calls[q].pc = "waiting", calls[q].on = c
        PROVE  /\ calls'[q].calledAt = calls[q].calledAt
               /\ calls'[q].at = calls[c].at
               /\ calls[q].calledAt <= calls[c].at + FetchLimit
    BY <1>0, <1>3, <1>i, <2>1 DEF Call, Timing
  <2>2. ASSUME NEW q \in Calls, calls'[q].pc = "returned"
        PROVE  \/ calls'[q].calledAt < calls'[q].at + ttl
               \/ calls'[q].calledAt <= calls'[q].at + FetchLimit
    <3>1. CASE calls[q].pc = "waiting" /\ calls[q].on = c
      BY <2>1, <3>1
    <3>2. CASE ~(calls[q].pc = "waiting" /\ calls[q].on = c)
      BY <1>3, <1>i, <2>2, <3>2 DEF Fresh
    <3> QED BY <3>1, <3>2
  <2> QED BY <2>2 DEF Fresh
<1> QED BY <1>8, <1>9, <1>10, <1>11, <1>12, <1>13 DEF IInv

LEMMA NextInv == TypeOK /\ IInv /\ [Next]_vars => TypeOK' /\ IInv'
<1> SUFFICES ASSUME TypeOK, IInv, [Next]_vars PROVE TypeOK' /\ IInv'
  OBVIOUS
<1>0. /\ calls \in [Calls -> Call] /\ now \in Nat /\ order \in Seq(Domains)
      /\ expiresAt \in [Domains -> Nat]
      /\ inFlight \in [Domains -> Calls \cup {NoCall}]
  BY DEF TypeOK, Call
<1>i. WaitersHaveFetch /\ OwnFlight /\ Bounded /\ Timing /\ Fresh
  BY DEF IInv
<1>1. ASSUME NEW c \in Calls, NEW d \in Domains,
             Hit(c, d) \/ Join(c, d) \/ Fetch(c, d)
      PROVE  TypeOK' /\ IInv'
  BY <1>1, BeginInv
<1>2. ASSUME NEW c \in Calls, Resolves(c) \/ Rejects(c) PROVE TypeOK' /\ IInv'
  BY <1>2, SettleInv
<1>3. ASSUME NEW c \in Calls, Finish(c) PROVE TypeOK' /\ IInv'
  <2>1. calls' = [calls EXCEPT ![c] = Idle] /\ calls[c].pc \in {"returned", "failed"}
    BY <1>3 DEF Finish
  <2>2. UNCHANGED <<now, order, expiresAt, inFlight>>
    BY <1>3 DEF Finish
  <2>3. Idle \in Call
    BY DEF Idle, Call
  <2>4. calls' \in [Calls -> Call]
    BY <1>0, <2>1, <2>3
  <2>5. TypeOK'
    BY <1>0, <2>2, <2>4 DEF TypeOK, Call
  <2>6. \A q \in Calls : q # c => calls'[q] = calls[q]
    BY <1>0, <2>1
  <2>7. calls'[c].pc = "idle"
    BY <1>0, <2>1 DEF Idle
  <2>8. \A q \in Calls : calls[q].pc = "waiting" => q # c /\ calls[q].on # c
    BY <1>i, <2>1 DEF WaitersHaveFetch, Fetching
  <2>9. WaitersHaveFetch'
    BY <1>0, <1>i, <2>2, <2>6, <2>7, <2>8 DEF WaitersHaveFetch, Fetching
  <2>10. OwnFlight'
    BY <1>i, <2>2, <2>6, <2>7, <2>8 DEF OwnFlight, Fetching
  <2>11. Bounded'
    BY <1>i, <2>2 DEF Bounded
  <2>12. Timing'
    BY <1>i, <2>2, <2>6, <2>7, <2>8 DEF Timing, WaitersHaveFetch
  <2>13. Fresh'
    BY <1>i, <2>6, <2>7 DEF Fresh
  <2> QED BY <2>5, <2>9, <2>10, <2>11, <2>12, <2>13 DEF IInv
<1>4. CASE Tick
  <2>1. UNCHANGED <<order, expiresAt, inFlight, calls>> /\ now' = now + 1
    BY <1>4 DEF Tick
  <2>2. TypeOK'
    BY <1>0, <2>1 DEF TypeOK, Call
  <2>3. ASSUME NEW c \in Calls, calls[c].pc = "waiting"
        PROVE  now + 1 <= calls[calls[c].on].at + FetchLimit
    <3>1. calls[c].on \in Calls /\ Fetching(calls[c].on)
      BY <1>i, <2>3 DEF WaitersHaveFetch
    <3>2. now < calls[calls[c].on].at + FetchLimit
      BY <1>4, <3>1 DEF Tick
    <3>3. calls[calls[c].on].at \in Nat
      BY <1>0, <3>1 DEF Call
    <3> QED BY <1>0, <3>2, <3>3, CacheAssumption
  <2>4. Timing'
    BY <1>i, <2>1, <2>3 DEF Timing
  <2> QED BY <1>i, <2>1, <2>2, <2>4
          DEF IInv, WaitersHaveFetch, OwnFlight, Bounded, Fresh, Fetching
<1>5. CASE UNCHANGED vars
  BY <1>5, <1>i
  DEF vars, TypeOK, IInv, WaitersHaveFetch, OwnFlight, Bounded, Timing, Fresh, Fetching
<1> QED BY <1>1, <1>2, <1>3, <1>4, <1>5 DEF Next

LEMMA Invariant == Spec => [](TypeOK /\ IInv)
  BY InitInv, NextInv, PTL DEF Spec

(* Every variable keeps its type, so no metadata is dated before it was    *)
(* fetched.                                                                *)
THEOREM TypeCorrect == Spec => []TypeOK
  BY Invariant, PTL

(* For any number of calls and domains, one fetch at a time is under way   *)
(* for a domain.                                                           *)
THEOREM Deduplicated == Spec => []OneFetchPerDomain
<1>1. TypeOK /\ IInv => OneFetchPerDomain
  BY DEF IInv, OwnFlight, OneFetchPerDomain
<1> QED BY <1>1, Invariant, PTL

(* No call waits on a fetch that is over, or on one for another domain, and*)
(* none finds a fetch that failed.                                         *)
THEOREM FetchesAreLive == Spec => []WaitersHaveFetch
<1>1. TypeOK /\ IInv => WaitersHaveFetch
  BY DEF IInv
<1> QED BY <1>1, Invariant, PTL

(* The cache never holds more than maxEntries, nor a domain twice.         *)
THEOREM SizeBounded == Spec => []Bounded
<1>1. TypeOK /\ IInv => Bounded
  BY DEF IInv
<1> QED BY <1>1, Invariant, PTL

(* What the cache returns is no older than ttl, or the fetch it came from. *)
THEOREM NeverStale == Spec => []Fresh
<1>1. TypeOK /\ IInv => Fresh
  BY DEF IInv
<1> QED BY <1>1, Invariant, PTL
-----------------------------------------------------------------------------
\* The clients that keep metadata.

\* A call is current while its client is in the map.
CurrentKnown == \A c \in current : Known(calls[c].domain)

\* The map is an LruMap: no domain twice, no more than maxClients.
ClientsBounded == Len(clients) <= maxClients /\ Distinct(clients)

ClientsTyped ==
    /\ clients \in Seq(Domains)
    /\ memo \in [Domains -> Nat \cup {NoTime}]
    /\ current \subseteq Calls

\* The inductive invariant of MDSpec, above TypeOK.
ClientInv == ClientsTyped /\ ClientsBounded /\ CurrentKnown /\ MemoOfUsableClient

\* A key set into a full LruMap takes the place of the least recently used.
LEMMA LruSetKeeps ==
  ASSUME NEW s \in Seq(Domains), NEW d \in Domains, Distinct(s),
         d \notin Elements(s), Len(s) <= maxClients
  PROVE  /\ LruSet(s, d) \in Seq(Domains) /\ Distinct(LruSet(s, d))
         /\ Len(LruSet(s, d)) <= maxClients
         /\ d \in Elements(LruSet(s, d))
<1> DEFINE t == IF Len(s) >= maxClients THEN Tail(s) ELSE s
           u == Append(t, d)
<1>0. maxClients \in Nat \ {0} /\ Len(s) \in Nat
  BY ClientsAssumption
<1>1. PICK k \in {0, 1} :
        /\ t \in Seq(Domains) /\ Len(t) = Len(s) - k /\ Len(t) < maxClients
        /\ \A i \in 1 .. Len(t) : i + k \in 1 .. Len(s) /\ t[i] = s[i + k]
  <2>1. CASE Len(s) >= maxClients
    <3>1. s # <<>>
      BY <1>0, <2>1
    <3>2. /\ Tail(s) \in Seq(Domains) /\ Len(Tail(s)) = Len(s) - 1
          /\ \A i \in 1 .. Len(s) - 1 : Tail(s)[i] = s[i + 1]
      BY <3>1
    <3>3. t = Tail(s)
      BY <2>1
    <3> HIDE DEF t, u
    <3>4. /\ t \in Seq(Domains) /\ Len(t) = Len(s) - 1 /\ Len(t) < maxClients
          /\ \A i \in 1 .. Len(t) : i + 1 \in 1 .. Len(s) /\ t[i] = s[i + 1]
      BY <1>0, <3>2, <3>3
    <3> QED BY <3>4
  <2>2. CASE Len(s) < maxClients
    <3>1. t = s
      BY <1>0, <2>2
    <3> HIDE DEF t, u
    <3>2. /\ t \in Seq(Domains) /\ Len(t) = Len(s) - 0 /\ Len(t) < maxClients
          /\ \A i \in 1 .. Len(t) : i + 0 \in 1 .. Len(s) /\ t[i] = s[i + 0]
      BY <1>0, <2>2, <3>1
    <3> QED BY <3>2
  <2> QED BY <1>0, <2>1, <2>2
<1>2. LruSet(s, d) = u
  BY DEF LruSet
<1> HIDE DEF t
<1>3. /\ u \in Seq(Domains) /\ Len(u) = Len(t) + 1
      /\ \A i \in 1 .. Len(t) : u[i] = t[i]
      /\ u[Len(t) + 1] = d
  BY <1>1
<1> HIDE DEF u
<1>4. \A i \in 1 .. Len(t) : t[i] # d
  BY <1>1 DEF Elements
<1>5. \A i, j \in 1 .. Len(t) : t[i] = t[j] => i = j
  <2> SUFFICES ASSUME NEW i \in 1 .. Len(t), NEW j \in 1 .. Len(t), t[i] = t[j]
               PROVE  i = j
    OBVIOUS
  <2>1. i + k \in DOMAIN s /\ j + k \in DOMAIN s /\ s[i + k] = s[j + k]
    BY <1>1
  <2>2. i + k = j + k
    BY <2>1 DEF Distinct
  <2> QED BY <1>1, <2>2
<1>6. Len(t) \in Nat
  BY <1>1
<1>7. Distinct(u)
  BY <1>3, <1>4, <1>5, <1>6 DEF Distinct
<1>8. d \in Elements(u)
  BY <1>3, <1>6 DEF Elements
<1> QED BY <1>0, <1>1, <1>2, <1>3, <1>6, <1>7, <1>8

\* What looking for a client does to the map and to what clients keep.
LEMMA ForDomainKeeps ==
  ASSUME ClientsTyped, ClientsBounded, MemoOfUsableClient,
         NEW d \in Domains, ForDomain(d)
  PROVE  /\ clients' \in Seq(Domains) /\ ClientsBounded'
         /\ memo' \in [Domains -> Nat \cup {NoTime}]
         /\ MemoOfUsableClient'
         /\ d \in Elements(clients')
         /\ Known(d) => Elements(clients') = Elements(clients)
<1>0. clients \in Seq(Domains) /\ Distinct(clients) /\ Len(clients) <= maxClients
  BY DEF ClientsTyped, ClientsBounded
<1>1. /\ clients' \in Seq(Domains) /\ Distinct(clients')
      /\ Len(clients') <= maxClients
      /\ d \in Elements(clients')
      /\ Known(d) => Elements(clients') = Elements(clients)
  <2>1. CASE Known(d)
    <3>1. clients' = MoveToEnd(clients, d) /\ d \in Elements(clients)
      BY <2>1 DEF ForDomain, LruGet, Known
    <3> QED BY <1>0, <3>1, MoveToEndKeeps
  <2>2. CASE ~Known(d)
    <3>1. clients' = LruSet(clients, d) /\ d \notin Elements(clients)
      BY <2>2 DEF ForDomain, Known
    <3> QED BY <1>0, <2>2, <3>1, LruSetKeeps
  <2> QED BY <2>1, <2>2
<1>2. memo' = [e \in Domains |->
                 IF e \in Elements(clients) \ Elements(clients')
                 THEN NoTime ELSE memo[e]]
  BY DEF ForDomain
<1>3. memo' \in [Domains -> Nat \cup {NoTime}]
  BY <1>2 DEF ClientsTyped
<1>4. MemoOfUsableClient'
  <2> SUFFICES ASSUME NEW e \in Domains, memo'[e] # NoTime
               PROVE  e \in Elements(clients') /\ (useMtls => e \in Aliases)
    BY DEF MemoOfUsableClient, Known
  <2>1. memo'[e] = memo[e] /\ ~(e \in Elements(clients) \ Elements(clients'))
    BY <1>2
  <2>2. e \in Elements(clients) /\ (useMtls => e \in Aliases)
    BY <2>1 DEF MemoOfUsableClient, Known
  <2> QED BY <2>1, <2>2
<1> QED BY <1>1, <1>3, <1>4 DEF ClientsBounded

LEMMA ClientInvInit == MDInit => ClientInv
  BY ClientsAssumption
  DEF MDInit, ClientInv, ClientsTyped, ClientsBounded, CurrentKnown,
      MemoOfUsableClient, Distinct, Elements, Known

\* Each step of the clients is one of the cache's, or leaves it alone.
LEMMA ClientStep == [MDNext]_mdVars => [Next]_vars
<1>1. ASSUME NEW d \in Domains, Remembered(d) PROVE UNCHANGED vars
  BY <1>1 DEF Remembered
<1>2. ASSUME NEW d \in Domains, NEW c \in Calls, Discover(c, d) PROVE Next
  BY <1>2 DEF Discover, Next
<1>3. ASSUME NEW c \in Calls, Remember(c) PROVE Next
  BY <1>3 DEF Remember, Next
<1>4. ASSUME NEW c \in Calls, Resolves(c) \/ Rejects(c) PROVE Next
  BY <1>4 DEF Next
<1>5. CASE Tick
  BY <1>5 DEF Next
<1>6. CASE UNCHANGED mdVars
  BY <1>6 DEF mdVars
<1> QED BY <1>1, <1>2, <1>3, <1>4, <1>5, <1>6 DEF MDNext

LEMMA ClientInvStep ==
  ASSUME TypeOK, ClientInv, [MDNext]_mdVars PROVE ClientInv'
<1>0. /\ ClientsTyped /\ ClientsBounded /\ CurrentKnown /\ MemoOfUsableClient
      /\ calls \in [Calls -> Call]
  BY DEF ClientInv, TypeOK, Call
<1>s. [Next]_vars
  BY ClientStep
<1>1. ASSUME NEW d \in Domains, Remembered(d) PROVE ClientInv'
  <2>1. ForDomain(d) /\ Known(d) /\ calls' = calls /\ current' = current
    BY <1>1 DEF Remembered, vars
  <2>2. /\ clients' \in Seq(Domains) /\ ClientsBounded'
        /\ memo' \in [Domains -> Nat \cup {NoTime}]
        /\ MemoOfUsableClient'
        /\ Elements(clients') = Elements(clients)
    BY <1>0, <2>1, ForDomainKeeps
  <2>3. CurrentKnown'
    BY <1>0, <2>1, <2>2 DEF CurrentKnown, Known
  <2> QED BY <1>0, <2>1, <2>2, <2>3 DEF ClientInv, ClientsTyped
<1>2. ASSUME NEW d \in Domains, NEW c \in Calls, Discover(c, d)
      PROVE  ClientInv'
  <2>1. /\ ForDomain(d) /\ current' = Surviving \cup {c}
        /\ Hit(c, d) \/ Join(c, d) \/ Fetch(c, d)
    BY <1>2 DEF Discover
  <2>2. /\ clients' \in Seq(Domains) /\ ClientsBounded'
        /\ memo' \in [Domains -> Nat \cup {NoTime}]
        /\ MemoOfUsableClient'
        /\ d \in Elements(clients')
    BY <1>0, <2>1, ForDomainKeeps
  <2>3. calls'[c].domain = d /\ \A q \in Calls : q # c => calls'[q] = calls[q]
    BY <1>0, <2>1 DEF Hit, Join, Fetch, Begin
  <2>4. \A q \in Surviving : q \in Calls /\ calls[q].domain \in Elements(clients')
    BY <1>0 DEF Surviving, ClientsTyped
  <2>5. CurrentKnown'
    BY <2>1, <2>2, <2>3, <2>4 DEF CurrentKnown, Known
  <2> QED BY <2>1, <2>2, <2>4, <2>5 DEF ClientInv, ClientsTyped
<1>3. ASSUME NEW c \in Calls, Remember(c) PROVE ClientInv'
  <2> DEFINE d == calls[c].domain
  <2>1. /\ Finish(c) /\ current' = current \ {c} /\ clients' = clients
        /\ memo' = IF calls[c].pc = "returned" /\ c \in current
                        /\ (useMtls => d \in Aliases)
                   THEN [memo EXCEPT ![d] = calls[c].at] ELSE memo
    BY <1>3 DEF Remember
  <2>2. \A q \in Calls : q # c => calls'[q] = calls[q]
    BY <1>0, <2>1 DEF Finish
  <2>3. calls[c].at \in Nat
    BY <1>0 DEF Call
  <2>4. memo' \in [Domains -> Nat \cup {NoTime}]
    BY <1>0, <2>1, <2>3 DEF ClientsTyped
  <2>5. CurrentKnown'
    BY <1>0, <2>1, <2>2 DEF CurrentKnown, Known, ClientsTyped
  <2>6. MemoOfUsableClient'
    <3> SUFFICES ASSUME NEW e \in Domains, memo'[e] # NoTime
                 PROVE  e \in Elements(clients) /\ (useMtls => e \in Aliases)
      BY <2>1 DEF MemoOfUsableClient, Known
    <3>1. CASE memo'[e] = memo[e]
      BY <1>0, <3>1 DEF MemoOfUsableClient, Known
    <3>2. CASE memo'[e] # memo[e]
      <4>1. c \in current /\ (useMtls => d \in Aliases) /\ e = d
        BY <1>0, <2>1, <3>2 DEF ClientsTyped
      <4> QED BY <1>0, <4>1 DEF CurrentKnown, Known
    <3> QED BY <3>1, <3>2
  <2> QED BY <1>0, <2>1, <2>4, <2>5, <2>6
          DEF ClientInv, ClientsTyped, ClientsBounded
<1>4. CASE /\ UNCHANGED <<clients, memo, current>>
           /\ Tick \/ \E c \in Calls : Resolves(c) \/ Rejects(c)
  <2>1. ASSUME NEW q \in current PROVE calls'[q].domain = calls[q].domain
    <3>1. CASE Tick
      BY <3>1 DEF Tick
    <3>2. ASSUME NEW c \in Calls, Resolves(c) \/ Rejects(c)
          PROVE  calls'[q].domain = calls[q].domain
      <4>1. PICK pc \in {"returned", "failed"} : Settle(c, pc)
        BY <3>2 DEF Resolves, Rejects
      <4>2. q \in Calls
        BY <1>0 DEF ClientsTyped
      <4> QED BY <1>0, <4>1, <4>2 DEF Settle, Call
    <3> QED BY <1>4, <3>1, <3>2
  <2> QED BY <1>0, <1>4, <2>1
          DEF ClientInv, ClientsTyped, ClientsBounded, CurrentKnown, Known,
              MemoOfUsableClient
<1>5. CASE UNCHANGED mdVars
  BY <1>0, <1>5
  DEF mdVars, vars, ClientInv, ClientsTyped, ClientsBounded, CurrentKnown,
      Known, MemoOfUsableClient
<1> QED BY <1>1, <1>2, <1>3, <1>4, <1>5 DEF MDNext

(* The clients use the cache as it is meant to be used: whatever the       *)
(* requests do, the cache sees calls that begin, end and are done with as  *)
(* DiscoveryCache says.                                                    *)
THEOREM ClientsUseTheCache == MDSpec => Spec
<1>1. MDInit => Init
  BY DEF MDInit
<1> QED BY <1>1, ClientStep, PTL DEF MDSpec, Spec

(* So what the cache promises a caller it promises the clients: one fetch  *)
(* for a domain, none joined that is over, nothing stale, never too much.  *)
THEOREM CacheServesClients ==
  MDSpec => [](TypeOK /\ OneFetchPerDomain /\ WaitersHaveFetch /\ Fresh /\ Bounded)
  BY ClientsUseTheCache, TypeCorrect, Deduplicated, FetchesAreLive, NeverStale,
     SizeBounded, PTL

LEMMA ClientInvariant == MDSpec => []ClientInv
<1>1. TypeOK /\ ClientInv /\ [MDNext]_mdVars => ClientInv'
  BY ClientInvStep
<1>2. Spec => []TypeOK
  BY TypeCorrect
<1> QED BY <1>1, <1>2, ClientInvInit, ClientsUseTheCache, PTL DEF MDSpec

(* A client keeps no metadata that its mTLS configuration refuses, and     *)
(* nothing is kept for a domain whose client was evicted: a call that was  *)
(* under way then gives what it learns to no one else.                     *)
THEOREM MemosUsable == MDSpec => []MemoOfUsableClient
  BY ClientInvariant, PTL DEF ClientInv

(* However many domains requests come from, the map of clients holds at    *)
(* most maxClients, and one for a domain.                                  *)
THEOREM ClientMapBounded == MDSpec => []ClientsBounded
  BY ClientInvariant, PTL DEF ClientInv
=============================================================================
