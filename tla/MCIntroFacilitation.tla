------------------------ MODULE MCIntroFacilitation -------------------------
(* Instances of IntroFacilitation for TLC, in the code's amounts.            *)
EXTENDS IntroFacilitation, TLC

CONSTANTS f1, f2, f3, j1, c1, c2, s1, s2

OneFac == {f1}
TwoFacs == {f1, f2}
ThreeFacs == {f1, f2, f3}
Contact == {c1}
TwoContacts == {c1, c2}
OneSession == {s1}
TwoSessions == {s1, s2}

AnswerOps == {"request", "approve", "decline", "confirm", "webhook"}
AnswerAbortOps == AnswerOps \cup {"abort"}
RaceOps == AnswerAbortOps \cup {"optout"}
SerialOps == AnswerAbortOps \cup {"revoke", "optout", "optin", "upload", "purge"}
EndOps == {"request", "approve", "optout", "optin", "upload", "purge"}
RelayOps == {"request", "approve", "webhook"}

Symmetric == Permutations(Fac) \cup Permutations(Sess)
=============================================================================
