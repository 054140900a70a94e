----------------------------- MODULE PopupCalls -----------------------------
(***************************************************************************)
(* The popups of mfa.challengeWithPopup() in one page: the guard against a *)
(* second popup (`active`), which is a window and reset by whichever call  *)
(* ends, the popup each call waits on, and the messages the callback page  *)
(* posts to the page that opened it, which settle every call that waits.   *)
(* A window that was never opened is one that is closed.                   *)
(***************************************************************************)
CONSTANTS Calls, Popups, NoPopup

ASSUME PopupCallsAssumption == NoPopup \notin Popups

VARIABLES
    active,   \* activePopup
    window,   \* whether each popup is open
    waits,    \* the popup each call waits on
    mail      \* the messages posted and not yet handled: popup and success

popupVars == <<active, window, waits, mail>>

PopupInit ==
    /\ active = NoPopup
    /\ window = [p \in Popups |-> "closed"]
    /\ waits = [c \in Calls |-> NoPopup]
    /\ mail = {}

PopupTypeOK ==
    /\ active \in Popups \cup {NoPopup}
    /\ window \in [Popups -> {"open", "closed"}]
    /\ waits \in [Calls -> Popups \cup {NoPopup}]
    /\ mail \subseteq Popups \X BOOLEAN

Waiting == {c \in Calls : waits[c] # NoPopup}

(* A call opens a popup unless the one opened last is open still           *)
(* (PopupInProgressError) or the browser blocks it (PopupBlockedError);    *)
(* neither error changes anything.  Its name is that of no other popup     *)
(* that still matters.                                                     *)
OpenPopup(c, p) ==
    /\ \A q \in Popups : q = active => window[q] = "closed"
    /\ window[p] = "closed"
    /\ \A d \in Calls : waits[d] # p
    /\ \A m \in mail : m[1] # p
    /\ window' = [window EXCEPT ![p] = "open"]
    /\ waits' = [waits EXCEPT ![c] = p]
    /\ active' = p
    /\ UNCHANGED mail

(* The callback answered: its page posts the result and closes the window, *)
(* in the model at once.                                                   *)
PostResult(p, ok) ==
    /\ window[p] = "open"
    /\ window' = [window EXCEPT ![p] = "closed"]
    /\ mail' = mail \cup {<<p, ok>>}
    /\ UNCHANGED <<active, waits>>

(* The user closes the window.                                             *)
ClosePopup(p) ==
    /\ window[p] = "open"
    /\ window' = [window EXCEPT ![p] = "closed"]
    /\ UNCHANGED <<active, waits, mail>>

\* Mutant: the guard is reset when the call succeeds only.
EndKeepingGuard(c) ==
    /\ waits' = [waits EXCEPT ![c] = NoPopup]
    /\ UNCHANGED active

\* The `finally` of a call that ends.
EndCall(c) ==
    /\ waits' = [waits EXCEPT ![c] = NoPopup]
    /\ active' = NoPopup

(* Every call that listens takes the message, whichever popup posted it: a *)
(* success has them all ask for their token, a failure ends them all.      *)
TakeMessage(m) ==
    /\ m \in mail
    /\ mail' = mail \ {m}
    /\ waits' = [c \in Calls |-> NoPopup]
    /\ active' = IF m[2] \/ Waiting = {} THEN active ELSE NoPopup
    /\ UNCHANGED window

(* A poll finds the popup closed (PopupCancelledError), or the call has    *)
(* waited for too long (PopupTimeoutError) and leaves its popup open.      *)
PollFindsClosed(c) ==
    /\ waits[c] # NoPopup
    /\ window[waits[c]] = "closed"
    /\ EndCall(c)
    /\ UNCHANGED <<window, mail>>

TimeOut(c) ==
    /\ waits[c] # NoPopup
    /\ EndCall(c)
    /\ UNCHANGED <<window, mail>>
=============================================================================
