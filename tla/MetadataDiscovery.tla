------------------------- MODULE MetadataDiscovery -------------------------
(***************************************************************************)
(* How a request comes to the metadata of its issuer: AuthClientProvider   *)
(* finds the domain's AuthClient in an LruMap or makes one, and the client *)
(* asks the DiscoveryCache the first time, keeping the metadata for itself.*)
(* The key sets of the issuers (getJwksCacheForUri) are cached the way the *)
(* clients are and are not modelled again.                                 *)
(***************************************************************************)
EXTENDS DiscoveryCache

CONSTANTS
    maxClients,       \* MAX_DOMAIN_CLIENTS
    useMtls, Aliases, \* the domains whose metadata has the mTLS endpoints
    NoTime

ASSUME ClientsAssumption ==
    /\ maxClients \in Nat \ {0}
    /\ useMtls \in BOOLEAN /\ Aliases \subseteq Domains
    /\ NoTime \notin Nat

VARIABLES
    clients,   \* the domains with a client, in the order of the LruMap
    memo,      \* per domain, the metadata its client keeps
    current    \* the calls whose client the map still holds

mdVars == <<vars, clients, memo, current>>

\* LruMap.set of a key that is not there.
LruSet(s, d) == Append(IF Len(s) >= maxClients THEN Tail(s) ELSE s, d)

LruGet(s, d) == MoveToEnd(s, d)

Known(d) == d \in Elements(clients)

MDInit == Init /\ clients = <<>> /\ memo = [d \in Domains |-> NoTime]
               /\ current = {}

(* forDomainSync: an evicted client goes with what it keeps, unless a call *)
(* in progress still has hold of it.                                       *)
ForDomain(d) ==
    /\ clients' = IF Known(d) THEN LruGet(clients, d) ELSE LruSet(clients, d)
    /\ memo' = [e \in Domains |-> IF e \in Elements(clients) \ Elements(clients')
                                   THEN NoTime ELSE memo[e]]

Surviving == {q \in current : calls[q].domain \in Elements(clients')}

(* The client has the metadata already.                                    *)
Remembered(d) ==
    /\ Known(d)
    /\ memo[d] # NoTime
    /\ ForDomain(d)
    /\ UNCHANGED <<vars, current>>

(* The client has to ask the cache.                                        *)
Discover(c, d) ==
    /\ ~Known(d) \/ memo[d] = NoTime
    /\ ForDomain(d)
    /\ current' = Surviving \cup {c}
    /\ Hit(c, d) \/ Join(c, d) \/ Fetch(c, d)

\* Mutant: the metadata is kept before it is checked.
RememberUnchecked(c) ==
    LET d == calls[c].domain
    IN  /\ Finish(c)
        /\ memo' = IF calls[c].pc = "returned" /\ c \in current
                   THEN [memo EXCEPT ![d] = calls[c].at] ELSE memo
        /\ current' = current \ {c}
        /\ UNCHANGED <<clients>>

(* The client goes on with what the cache returned; metadata it cannot use *)
(* is an error, and not kept.                                              *)
Remember(c) ==
    LET d == calls[c].domain
    IN  /\ Finish(c)
        /\ memo' = IF calls[c].pc = "returned" /\ c \in current
                        /\ (useMtls => d \in Aliases)
                   THEN [memo EXCEPT ![d] = calls[c].at] ELSE memo
        /\ current' = current \ {c}
        /\ UNCHANGED <<clients>>

MDNext ==
    \/ \E d \in Domains : Remembered(d) \/ \E c \in Calls : Discover(c, d)
    \/ \E c \in Calls :
         \/ Remember(c)
         \/ (Resolves(c) \/ Rejects(c)) /\ UNCHANGED <<clients, memo, current>>
    \/ Tick /\ UNCHANGED <<clients, memo, current>>

MDSpec == MDInit /\ [][MDNext]_mdVars

-----------------------------------------------------------------------------
(* A client keeps no metadata that its mTLS configuration refuses: what it *)
(* keeps is not checked again (auth-client.ts:2679).                       *)
MemoOfUsableClient ==
    \A d \in Domains : memo[d] # NoTime =>
        Known(d) /\ (useMtls => d \in Aliases)
=============================================================================
