------------------------------- MODULE Wallet -------------------------------
(***************************************************************************)
(* What the credit ledger promises its users, without rows, days, sessions *)
(* or sweeps: what a user ever earned less what the user ever spent moves  *)
(* one user at a time, and a debit is always covered.                      *)
(***************************************************************************)
EXTENDS Integers

CONSTANT Users
VARIABLE equity

Init == equity = [u \in Users |-> 0]

OnlyOf(u) == \A v \in Users \ {u}: equity'[v] = equity[v]

Credit(u) == equity'[u] > equity[u] /\ OnlyOf(u)
Debit(u) == equity'[u] < equity[u] /\ equity'[u] >= 0 /\ OnlyOf(u)

Next == \E u \in Users: Credit(u) \/ Debit(u)

Spec == Init /\ [][Next]_equity
=============================================================================
