--------------------------- MODULE DiscoveryCache ---------------------------
(***************************************************************************)
(* DiscoveryCache.get: the issuers' metadata, cached for a while, fetched  *)
(* once for all the calls that need it at the same time, the least recently*)
(* used evicted.  Metadata is abstracted to the time its fetch began.      *)
(*                                                                         *)
(* Bounds: Horizon ends a behaviour; FetchLimit is how long a fetch may    *)
(* take (httpTimeout).  clear(), which only tests call, is left out.       *)
(***************************************************************************)
EXTENDS Integers, Sequences

CONSTANTS
    Calls,        \* slots for calls in progress together
    Domains, NoCall, NoDomain,
    ttl, maxEntries, FetchLimit, Horizon

ASSUME CacheAssumption ==
    /\ {ttl, maxEntries} \subseteq Nat \ {0}
    /\ {FetchLimit, Horizon} \subseteq Nat
    /\ NoCall \notin Calls /\ NoDomain \notin Domains

VARIABLES
    now,
    order,       \* the cached domains, in the order of the Map
    expiresAt,   \* when the entry of each expires
    inFlight,    \* the call whose fetch for the domain is under way
    calls        \* the calls in progress

vars == <<now, order, expiresAt, inFlight, calls>>

Idle == [pc |-> "idle", domain |-> NoDomain, on |-> NoCall, calledAt |-> 0,
         at |-> 0]

Elements(s) == {s[i] : i \in DOMAIN s}

\* Delete a key from a Map and insert it again.
MoveToEnd(s, d) ==
    LET i == CHOOSE i \in DOMAIN s : s[i] = d
    IN  [j \in DOMAIN s |-> IF j < i THEN s[j]
                            ELSE IF j < Len(s) THEN s[j + 1] ELSE d]

\* Map.set keeps the place of a key that is there.
Insert(s, d) == IF d \in Elements(s) THEN s ELSE Append(s, d)

\* Mutant: one entry too many stays.
EvictLate(s) ==
    IF Len(s) > maxEntries + 1 THEN SubSeq(s, Len(s) - maxEntries, Len(s)) ELSE s

\* Entries go from the front while there are too many.
Evict(s) ==
    IF Len(s) > maxEntries THEN SubSeq(s, Len(s) - maxEntries + 1, Len(s)) ELSE s

\* Mutant: an expired entry is returned.
CachedEver(d) == d \in Elements(order)

Cached(d) == d \in Elements(order) /\ expiresAt[d] > now

\* The fetch that call c began is under way.
Fetching(c) == calls[c].pc = "waiting" /\ calls[c].on = c

-----------------------------------------------------------------------------
Init ==
    /\ now = 0
    /\ order = <<>>
    /\ expiresAt = [d \in Domains |-> 0]
    /\ inFlight = [d \in Domains |-> NoCall]
    /\ calls = [c \in Calls |-> Idle]

Begin(c, d, pc, on, at) ==
    /\ calls[c].pc = "idle"
    /\ calls' = [calls EXCEPT ![c] = [pc |-> pc, domain |-> d, on |-> on,
                                      calledAt |-> now, at |-> at]]

(* get() finds an entry that has not expired.                              *)
Hit(c, d) ==
    /\ Cached(d)
    /\ Begin(c, d, "returned", NoCall, expiresAt[d] - ttl)
    /\ order' = MoveToEnd(order, d)
    /\ UNCHANGED <<now, expiresAt, inFlight>>

(* get() finds a fetch for the domain under way.                           *)
Join(c, d) ==
    /\ ~Cached(d)
    /\ inFlight[d] # NoCall
    /\ Begin(c, d, "waiting", inFlight[d], 0)
    /\ UNCHANGED <<now, order, expiresAt, inFlight>>

\* Mutant: fetches under way are not looked at.
FetchAlways(c, d) ==
    /\ ~Cached(d)
    /\ Begin(c, d, "waiting", c, now)
    /\ inFlight' = [inFlight EXCEPT ![d] = c]
    /\ UNCHANGED <<now, order, expiresAt>>

(* get() begins a fetch, and stores it before anything else runs.          *)
Fetch(c, d) ==
    /\ ~Cached(d)
    /\ inFlight[d] = NoCall
    /\ Begin(c, d, "waiting", c, now)
    /\ inFlight' = [inFlight EXCEPT ![d] = c]
    /\ UNCHANGED <<now, order, expiresAt>>

\* All calls that wait for the fetch of c go on.
Settle(c, pc) ==
    calls' = [q \in Calls |->
                IF calls[q].pc = "waiting" /\ calls[q].on = c
                THEN [calls[q] EXCEPT !.pc = pc, !.at = calls[c].at]
                ELSE calls[q]]

\* Mutant: the time to live is subtracted.
ResolvesExpired(c) ==
    LET d == calls[c].domain
    IN  /\ Fetching(c)
        /\ Settle(c, "returned")
        /\ order' = Evict(Insert(order, d))
        /\ expiresAt' = [expiresAt EXCEPT ![d] = calls[c].at - ttl]
        /\ inFlight' = [inFlight EXCEPT ![d] = NoCall]
        /\ UNCHANGED now

(* The fetch of c has its metadata: cache it, evict what is too much.  It  *)
(* counts as fetched when it began.                                        *)
Resolves(c) ==
    LET d == calls[c].domain
    IN  /\ Fetching(c)
        /\ Settle(c, "returned")
        /\ order' = Evict(Insert(order, d))
        /\ expiresAt' = [expiresAt EXCEPT ![d] = calls[c].at + ttl]
        /\ inFlight' = [inFlight EXCEPT ![d] = NoCall]
        /\ UNCHANGED now

\* Mutant: a failed fetch is left in flight.
RejectsForGood(c) ==
    /\ Fetching(c)
    /\ Settle(c, "failed")
    /\ UNCHANGED <<now, order, expiresAt, inFlight>>

(* The fetch of c fails, for all that wait for it.                         *)
Rejects(c) ==
    /\ Fetching(c)
    /\ Settle(c, "failed")
    /\ inFlight' = [inFlight EXCEPT ![calls[c].domain] = NoCall]
    /\ UNCHANGED <<now, order, expiresAt>>

(* The caller has what it called for.                                      *)
Finish(c) ==
    /\ calls[c].pc \in {"returned", "failed"}
    /\ calls' = [calls EXCEPT ![c] = Idle]
    /\ UNCHANGED <<now, order, expiresAt, inFlight>>

(* A second passes, unless a fetch has taken all the time it may take.     *)
Tick ==
    /\ now < Horizon
    /\ \A c \in Calls : Fetching(c) => now < calls[c].at + FetchLimit
    /\ now' = now + 1
    /\ UNCHANGED <<order, expiresAt, inFlight, calls>>

Next ==
    \/ \E c \in Calls :
         \/ \E d \in Domains : Hit(c, d) \/ Join(c, d) \/ Fetch(c, d)
         \/ Resolves(c) \/ Rejects(c) \/ Finish(c)
    \/ Tick

Spec == Init /\ [][Next]_vars

-----------------------------------------------------------------------------
TypeOK ==
    /\ now \in Nat
    /\ order \in Seq(Domains)
    /\ expiresAt \in [Domains -> Nat]
    /\ inFlight \in [Domains -> Calls \cup {NoCall}]
    /\ calls \in [Calls -> [pc : {"idle", "waiting", "returned", "failed"},
                            domain : Domains \cup {NoDomain},
                            on : Calls \cup {NoCall},
                            calledAt : Nat, at : Nat]]

(* However many calls need a domain, one fetch for it is under way.        *)
OneFetchPerDomain ==
    \A c, q \in Calls :
        Fetching(c) /\ Fetching(q) /\ calls[c].domain = calls[q].domain => c = q

(* Every call that waits does so on a fetch for its own domain that is     *)
(* under way, and a fetch that is over, even one that failed, is not found *)
(* by later calls ("so retries can proceed", discovery-cache.ts:133).      *)
WaitersHaveFetch ==
    /\ \A c \in Calls : calls[c].pc = "waiting" =>
         /\ calls[c].on \in Calls
         /\ Fetching(calls[c].on)
         /\ calls[calls[c].on].domain = calls[c].domain
    /\ \A d \in Domains : inFlight[d] # NoCall =>
         Fetching(inFlight[d]) /\ calls[inFlight[d]].domain = d

(* No domain is cached twice, and no more are than maxEntries.             *)
Bounded ==
    /\ Len(order) <= maxEntries
    /\ \A i, j \in DOMAIN order : order[i] = order[j] => i = j

(* No call returns metadata fetched longer ago than the time to live, or   *)
(* the time a fetch it joined may take.                                    *)
Fresh ==
    \A c \in Calls : calls[c].pc = "returned" =>
        \/ calls[c].calledAt < calls[c].at + ttl
        \/ calls[c].calledAt <= calls[c].at + FetchLimit

=============================================================================
