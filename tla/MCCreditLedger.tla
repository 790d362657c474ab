-------------------------- MODULE MCCreditLedger ----------------------------
(* Instances of CreditLedger for TLC.  Amounts are the code's, divided by    *)
(* five; the cap and the lifetime are small enough to be reached.            *)
EXTENDS CreditLedger, TLC

CONSTANTS u1, u2, s1, s2

OneUser == {u1}
TwoUsers == {u1, u2}
OneSession == {s1}
TwoSessions == {s1, s2}

Awards == {2, 5}
Prices == {4}
Refunds == {3}
Purchases == {5}
NoAmounts == {}

Symmetric == Permutations(Users) \cup Permutations(Sess)
=============================================================================
