---------------------------- MODULE MCFriendship ----------------------------
(* Instance of Friendship for TLC: two users, two sessions.                  *)
EXTENDS Friendship, TLC

CONSTANTS u1, u2, s1, s2

TwoUsers == {u1, u2}
TwoSessions == {s1, s2}
=============================================================================
