------------------------ MODULE MCStatefulSessions ------------------------
(* Instances of StatefulSessions for TLC.                                  *)
EXTENDS StatefulSessions, TLC

RedirectKinds == {"touch", "token", "login", "logout"}
PopupKinds    == AllKinds
LogoutRaces   == AllKinds \ {"token"}
Symmetric     == Permutations(Ids) \cup Permutations(Logins)
                   \cup Permutations(Requests)
=============================================================================
