-------------------------- MODULE SessionContract --------------------------
(***************************************************************************)
(* What a database-backed session store promises, without cookies, requests*)
(* or a data store: a login has one identifier for as long as it lives, an *)
(* identifier never serves two logins, and a login that is over stays over.*)
(***************************************************************************)

CONSTANTS Ids, Logins, NoId

VARIABLES
    phase,    \* of each login: not begun, live or over
    holder    \* the identifier that stands for each login, once it began

ContractVars == <<phase, holder>>

ContractInit ==
    /\ phase = [l \in Logins |-> "none"]
    /\ holder = [l \in Logins |-> NoId]

Begin(l, i) ==
    /\ phase[l] = "none"
    /\ \A m \in Logins : holder[m] # i
    /\ phase' = [phase EXCEPT ![l] = "live"]
    /\ holder' = [holder EXCEPT ![l] = i]

\* One login, or several of a user at once.
End(L) ==
    /\ \A l \in L : phase[l] = "live"
    /\ phase' = [l \in Logins |-> IF l \in L THEN "over" ELSE phase[l]]
    /\ UNCHANGED holder

ContractNext ==
    \/ \E L \in SUBSET Logins : End(L)
    \/ \E l \in Logins, i \in Ids : Begin(l, i)

ContractSpec == ContractInit /\ [][ContractNext]_ContractVars
=============================================================================
