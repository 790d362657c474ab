----------------------------- MODULE Friendship -----------------------------
(***************************************************************************)
(* Friend requests and blocks: app/api/friends.py over                     *)
(* app/services/friendship_service.py.                                     *)
(*                                                                         *)
(* A request opens the session of get_db, the service writes and flushes,  *)
(* the endpoint answers, and get_db closes the session.  Neither the       *)
(* endpoint, nor the service, nor get_db commits, so closing rolls back.   *)
(***************************************************************************)
EXTENDS Integers, FiniteSets

CONSTANTS
    Users,
    Sess,             \* database sessions that may be open at the same time
    MaxPending        \* pending requests a user may have out (20 in the code)

Pairs == {p \in Users \X Users: p[1] # p[2]}
Reverse(p) == <<p[2], p[1]>>
NoRow == [status |-> "none", deleted |-> FALSE]
RowType == [status: {"none", "pending", "accepted", "declined"}, deleted: BOOLEAN]

VARIABLES
    friendships,  \* committed rows of user_friendships, by (requester, addressee)
    blocks,       \* committed rows of user_blocks, by (blocker, blocked)
    sess,         \* open sessions: what each one sees, its own writes included
    promised      \* pairs whose last answer said that a request was sent

vars == <<friendships, blocks, sess, promised>>

Closed == [open |-> FALSE]
Opens(s) == ~sess[s].open
\* The session's writes are flushed and the request is answered.
Answers(s, rows, blocked, promises) ==
    /\ sess' = [sess EXCEPT ![s] = [open |-> TRUE, rows |-> rows, blocks |-> blocked]]
    /\ promised' = promises
    /\ UNCHANGED <<friendships, blocks>>

Has(p, statuses) == friendships[p].status \in statuses /\ ~friendships[p].deleted
IsBlocked(p) == {p, Reverse(p)} \cap blocks # {}
PendingFrom(u) == {p \in Pairs: p[1] = u /\ Has(p, {"pending"})}

Init ==
    /\ friendships = [p \in Pairs |-> NoRow] /\ blocks = {}
    /\ sess = [s \in Sess |-> Closed] /\ promised = {}

\* send_friend_request; the unique pair refuses a row where one is left (500).
SendFriendRequest(s, p) ==
    /\ Opens(s)
    /\ ~IsBlocked(p)
    /\ ~Has(p, {"pending", "accepted"}) /\ ~Has(Reverse(p), {"pending", "accepted"})
    /\ Cardinality(PendingFrom(p[1])) < MaxPending
    /\ friendships[p] = NoRow
    /\ Answers(s, [friendships EXCEPT ![p] = [NoRow EXCEPT !.status = "pending"]], blocks,
               promised \cup {p})

\* respond_to_request: the addressee accepts or declines what is pending.
RespondToRequest(s, p) ==
    /\ Opens(s)
    /\ Has(p, {"pending"})
    /\ \E answer \in {"accepted", "declined"}:
        Answers(s, [friendships EXCEPT ![p].status = answer], blocks, promised \ {p})

RemoveFriend(s, p) ==
    /\ Opens(s)
    /\ Has(p, {"accepted"})
    /\ Answers(s, [friendships EXCEPT ![p].deleted = TRUE], blocks, promised \ {p})

\* block_user ends whatever is between the two.
Ended(r) == [status |-> IF r.status = "pending" THEN "declined" ELSE r.status, deleted |-> TRUE]
BlockUser(s, p) ==
    /\ Opens(s)
    /\ p \notin blocks
    /\ Answers(s, [q \in Pairs |-> IF q \in {p, Reverse(p)} /\ Has(q, {"pending", "accepted"})
                                   THEN Ended(friendships[q]) ELSE friendships[q]],
               blocks \cup {p}, promised \ {p, Reverse(p)})

UnblockUser(s, p) ==
    /\ Opens(s)
    /\ p \in blocks
    /\ Answers(s, friendships, blocks \ {p}, promised)

\* get_db: "async with session: yield session".
Close(s) ==
    /\ sess[s].open
    /\ sess' = [sess EXCEPT ![s] = Closed]
    /\ UNCHANGED <<friendships, blocks, promised>>

Next ==
    \E s \in Sess:
        \/ Close(s)
        \/ \E p \in Pairs: \/ SendFriendRequest(s, p) \/ RespondToRequest(s, p)
                           \/ RemoveFriend(s, p)
                           \/ BlockUser(s, p) \/ UnblockUser(s, p)

Spec == Init /\ [][Next]_vars
-----------------------------------------------------------------------------
TypeOK ==
    /\ friendships \in [Pairs -> RowType] /\ blocks \subseteq Pairs
    /\ promised \subseteq Pairs
    /\ \A s \in Sess: \/ sess[s] = Closed
                      \/ sess[s] \in [open: {TRUE}, rows: [Pairs -> RowType],
                                      blocks: SUBSET Pairs]

\* A request that was answered "sent" is among the addressee's incoming requests once
\* the sessions are closed, until it is answered, removed or blocked.
SentRequestIsListed ==
    (\A s \in Sess: ~sess[s].open) => \A p \in promised: Has(p, {"pending"})
=============================================================================
