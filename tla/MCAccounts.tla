----------------------------- MODULE MCAccounts -----------------------------
(* Instance of Accounts for TLC: two identities and two addresses that cross,  *)
(* two sessions; the operations that race are taken a few at a time.           *)
EXTENDS Accounts, TLC

CONSTANTS i1, i2, e1, e2, u1, u2, u3, u4, s1, s2

TwoIds == {i1, i2}
TwoEmails == {e1, e2}
FourRows == {u1, u2, u3, u4}
TwoSessions == {s1, s2}
ClosingRaces ==
    {{"jit", "close"}, {"erase", "close"}, {"change", "close"}, {"again", "jit"},
     {"erase", "reconcile"}}
=============================================================================
