------------------------------ MODULE MCBilling ------------------------------
(* Instances of Billing for TLC: one payer, four accounts, two sessions.      *)
EXTENDS Billing

CONSTANTS u1, u2, u3, u4, k1, r1, r2, r3, s1, s2

FourUsers == {u1, u2, u3, u4}
OnePayer == {u1}
OneCheckout == {k1}
ThreeCodes == {r1, r2, r3}
TwoSessions == {s1, s2}
PayOrRefer == {{"stripe"}, {"create", "redeem", "expire"}}
=============================================================================
