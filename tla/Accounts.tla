------------------------------ MODULE Accounts ------------------------------
(***************************************************************************)
(* How an account comes and goes: the Clerk webhook of                     *)
(* app/api/clerk_webhooks.py, just-in-time provisioning in                 *)
(* app/utils/security.py, and the two ways to close an account, in         *)
(* app/api/auth.py and in app/services/account_deletion.py.                *)
(*                                                                         *)
(* Clerk owns identities; the users table mirrors them.  Clerk reports a   *)
(* change by a webhook that is repeated until it is answered 2xx, in any   *)
(* order, and the first request of an identity may arrive before its       *)
(* user.created.  clerk_user_id and email are unique over all rows.  An    *)
(* audit row that refers to a user locks the user's row FOR KEY SHARE      *)
(* until the session ends, so a DELETE waits for the other sessions that   *)
(* logged; when two of them wait for each other PostgreSQL aborts one.     *)
(***************************************************************************)
EXTENDS Integers, FiniteSets, Functions

CONSTANTS
    Ids,              \* Clerk user ids
    Emails,
    Rows,             \* ids of users rows
    Sess,             \* database sessions that may be open at the same time
    None,             \* NULL
    Scenes,           \* bound: sets of operations explored together
    MaxChanges,       \* bound: changes of address that Clerk reports
    MaxDups           \* bound: webhook deliveries repeated after their answer

ASSUME AccountsAssumption ==
    /\ IsFiniteSet(Sess) /\ IsFiniteSet(Emails) /\ IsFiniteSet(Rows)
    /\ Scenes \subseteq SUBSET {"jit", "change", "again", "close", "erase", "reconcile"}
    /\ None \notin Ids \cup Emails \cup Rows
    /\ MaxDups \in Nat /\ MaxChanges \in Nat

Kinds == {"created", "updated", "deleted"}
Event == [kind: Kinds, id: Ids, email: Emails \cup {None}]

VARIABLES
    scene,       \* the operations of this behaviour
    clerk,       \* identities: [life, email]
    issued,      \* webhook events Clerk has issued
    acked,       \* events answered 2xx
    dups,        \* answered events delivered again
    users,       \* rows: [state, clerk, email]
    wallet,      \* credit rows of each account: its welcome bonus
    archived,    \* rows of archived_credit_transactions, by original account
    erasures,    \* erasure requests committed for each account
    suppressed,  \* emails on the suppression list as account_deleted
    bonus,       \* welcome bonuses granted to accounts of an email
    moved,       \* times an account was moved away from an email by user.updated
    share,       \* share[r]: sessions that hold row r FOR KEY SHARE
    sess         \* what each open session is doing and has read

clerkVars == <<scene, clerk, issued>>
creditVars == <<wallet, archived, erasures, bonus>>
vars == <<scene, clerk, issued, acked, dups, users, wallet, archived, erasures, suppressed,
          bonus, moved, share, sess>>

NoRow == [state |-> "none", clerk |-> None, email |-> None]
Idle == [op |-> "idle", at |-> "read", id |-> None, email |-> None, row |-> None,
         ev |-> None, credits |-> 0]
\* Sessions are alike: the one that opens is the first of those that are free.
Starts(s) ==
    sess[s].op = "idle" /\ s = CHOOSE t \in Sess: sess[t].op = "idle"
Doing(s, op, at) == sess[s].op = op /\ sess[s].at = at
Becomes(s, rec) == sess' = [sess EXCEPT ![s] = rec]

Present(r) == users[r].state # "none"
Live(r) == users[r].state = "live"
\* An anonymized row keeps its clerk_user_id; its email becomes a placeholder.
RowsWithClerk(i) == {r \in Rows: Present(r) /\ users[r].clerk = i}
RowsWithEmail(e) == {r \in Rows: Present(r) /\ users[r].email = e}
\* A new row gets an id that no row, archive or session has.
Unused ==
    {r \in Rows: users[r] = NoRow /\ archived[r] = 0 /\ \A s \in Sess: sess[s].row # r}
Fresh == CHOOSE r \in Unused: TRUE
Answer(ev) == acked' = IF ev = None THEN acked ELSE acked \cup {ev}
-----------------------------------------------------------------------------
Init ==
    /\ scene \in Scenes
    /\ clerk = [i \in Ids |-> [life |-> "unborn", email |-> None]]
    /\ issued = {} /\ acked = {} /\ dups = 0
    /\ users = [r \in Rows |-> NoRow]
    /\ wallet = [r \in Rows |-> 0] /\ archived = [r \in Rows |-> 0]
    /\ erasures = [r \in Rows |-> 0]
    /\ suppressed = {}
    /\ bonus = [e \in Emails |-> 0] /\ moved = [e \in Emails |-> 0]
    /\ share = [r \in Rows |-> {}]
    /\ sess = [s \in Sess |-> Idle]

-------------------------------------------------------------- (* Clerk itself *)
Becoming(i, life, email, kind) ==
    /\ clerk' = [clerk EXCEPT ![i] = [life |-> life, email |-> email]]
    /\ issued' = issued \cup {[kind |-> kind, id |-> i, email |-> email]}
    /\ UNCHANGED scene
ClerkSays(i, life, email, kind) ==
    /\ Becoming(i, life, email, kind)
    /\ UNCHANGED <<acked, dups, users, creditVars, suppressed, moved, share, sess>>
\* A person may sign up again, with the same email and a new id.  Bound: where no
\* address changes, everyone has the same one.
SignUp(i, e) ==
    /\ clerk[i].life = "unborn" /\ i = CHOOSE j \in Ids: clerk[j].life = "unborn"
    /\ "change" \in scene \/ e = CHOOSE any \in Emails: TRUE
    /\ ClerkSays(i, "alive", e, "created")
ChangeEmail(i, e) ==
    /\ "change" \in scene
    /\ clerk[i].life = "alive" /\ clerk[i].email # e
    /\ Cardinality({ev \in issued: ev.kind = "updated"}) < MaxChanges
    /\ ClerkSays(i, "alive", e, "updated")
Leave(i) == clerk[i].life = "alive" /\ ClerkSays(i, "dead", clerk[i].email, "deleted")

------------------------------------------------ (* inserting an account's row *)
\* The row, and the welcome bonus unless the email was suppressed by a deletion.
InsertAlwaysPaid(r, i, e) ==
    /\ users' = [users EXCEPT ![r] = [state |-> "live", clerk |-> i, email |-> e]]
    /\ wallet' = [wallet EXCEPT ![r] = 1]
    /\ bonus' = [bonus EXCEPT ![e] = @ + 1]
Insert(r, i, e) ==
    /\ users' = [users EXCEPT ![r] = [state |-> "live", clerk |-> i, email |-> e]]
    /\ IF e \in suppressed THEN UNCHANGED <<wallet, bonus>>
       ELSE /\ wallet' = [wallet EXCEPT ![r] = 1]
            /\ bonus' = [bonus EXCEPT ![e] = @ + 1]
ConflictsOfIdentity(i, e) == RowsWithClerk(i)
Conflicts(i, e) == RowsWithClerk(i) \cup RowsWithEmail(e)

\* _jit_provision_user: no live row has the token's id, Clerk answers 200, and the
\* email is not suppressed.
JitRead(s, i) ==
    /\ "jit" \in scene /\ Starts(s)
    /\ ~\E r \in RowsWithClerk(i): Live(r)
    /\ clerk[i].life = "alive" /\ clerk[i].email \notin suppressed
    /\ Becomes(s, [Idle EXCEPT !.op = "jit", !.id = i, !.email = clerk[i].email])
    /\ UNCHANGED <<clerkVars, acked, dups, users, creditVars, suppressed, moved, share>>

JitInsert(s) ==
    /\ Doing(s, "jit", "read")
    /\ Conflicts(sess[s].id, sess[s].email) = {} /\ Unused # {}
    /\ Insert(Fresh, sess[s].id, sess[s].email)
    /\ Becomes(s, Idle)
    /\ UNCHANGED <<clerkVars, acked, dups, archived, erasures, suppressed, moved, share>>

\* IntegrityError: the row of the same id wins, else the one of the same email is
\* linked to this id, else the request is refused.
Relinkable(i, e) ==
    {r \in RowsWithEmail(e): Live(r) /\ RowsWithClerk(i) = {} /\ share[r] = {}}
JitConflict(s) ==
    /\ Doing(s, "jit", "read")
    /\ LET i == sess[s].id  e == sess[s].email IN
        /\ Conflicts(i, e) # {}
        /\ \/ /\ \E r \in Relinkable(i, e): users' = [users EXCEPT ![r].clerk = i]
           \/ /\ Relinkable(i, e) = {}
              /\ UNCHANGED users
    /\ Becomes(s, Idle)
    /\ UNCHANGED <<clerkVars, acked, dups, creditVars, suppressed, moved, share>>

----------------------------------------------------------- (* clerk_webhook *)
InHand(ev) == \E t \in Sess: sess[t].ev = ev
Delivered(ev) ==
    /\ ev \in issued /\ ~InHand(ev)
    /\ IF ev \in acked THEN "again" \in scene /\ dups < MaxDups /\ dups' = dups + 1 ELSE UNCHANGED dups

\* _handle_user_created: known id, known email, or a new account.
CreatedKnown(ev) ==
    /\ ev.kind = "created" /\ Delivered(ev)
    /\ RowsWithClerk(ev.id) # {}
    /\ Answer(ev)
    /\ UNCHANGED <<clerkVars, users, creditVars, suppressed, moved, share, sess>>
CreatedRead(s, ev) ==
    /\ Starts(s)
    /\ ev.kind = "created" /\ Delivered(ev)
    /\ RowsWithClerk(ev.id) = {}
    /\ \E r \in IF RowsWithEmail(ev.email) = {} THEN {None} ELSE RowsWithEmail(ev.email):
        Becomes(s, [Idle EXCEPT !.op = IF r = None THEN "create" ELSE "relink",
                       !.id = ev.id, !.email = ev.email, !.row = r, !.ev = ev])
    /\ UNCHANGED <<clerkVars, acked, users, creditVars, suppressed, moved, share>>
CreatedInsert(s) ==
    /\ Doing(s, "create", "read")
    /\ Conflicts(sess[s].id, sess[s].email) = {} /\ Unused # {}
    /\ Insert(Fresh, sess[s].id, sess[s].email)
    /\ Answer(sess[s].ev)
    /\ Becomes(s, Idle)
    /\ UNCHANGED <<clerkVars, dups, archived, erasures, suppressed, moved, share>>
RelinkCommit(s) ==
    /\ Doing(s, "relink", "read")
    /\ LET r == sess[s].row IN
        /\ Present(r) /\ RowsWithClerk(sess[s].id) \subseteq {r}
        /\ share[r] = {}
        /\ users' = [users EXCEPT ![r].clerk = sess[s].id]
    /\ Answer(sess[s].ev)
    /\ Becomes(s, Idle)
    /\ UNCHANGED <<clerkVars, dups, creditVars, suppressed, moved, share>>
\* A unique key taken since the read, a row deleted since: 500, and Clerk tries again.
CreatedFails(s) ==
    /\ \/ Doing(s, "create", "read") /\ Conflicts(sess[s].id, sess[s].email) # {}
       \/ Doing(s, "relink", "read") /\ ~(/\ Present(sess[s].row)
                                          /\ RowsWithClerk(sess[s].id) \subseteq {sess[s].row})
    /\ Becomes(s, Idle)
    /\ UNCHANGED <<clerkVars, acked, dups, users, creditVars, suppressed, moved, share>>

\* _handle_user_updated: the email follows, unless another row has it (500).
UpdatedKnown(ev) ==
    /\ ev.kind = "updated" /\ Delivered(ev)
    /\ \E r \in RowsWithClerk(ev.id):
        /\ Live(r) /\ share[r] = {}
        /\ RowsWithEmail(ev.email) \subseteq {r}
        /\ users' = [users EXCEPT ![r].email = ev.email]
        /\ moved' = IF users[r].email = ev.email THEN moved
                    ELSE [moved EXCEPT ![users[r].email] = @ + 1]
    /\ Answer(ev)
    /\ UNCHANGED <<clerkVars, creditVars, suppressed, share, sess>>
UpdatedUnknown(ev) ==
    /\ ev.kind = "updated" /\ Delivered(ev)
    /\ ~\E r \in RowsWithClerk(ev.id): Live(r)
    /\ Answer(ev)
    /\ UNCHANGED <<clerkVars, users, creditVars, suppressed, moved, share, sess>>

------------------------------------------------------- (* closing an account *)
Opens(s, op, i, r, ev) ==
    Becomes(s, [Idle EXCEPT !.op = op, !.id = i, !.row = r, !.email = users[r].email,
                            !.ev = ev])
\* user.deleted, and the reconciliation that finds an identity gone (404).
DeletedRead(s, ev) ==
    /\ Starts(s)
    /\ ev.kind = "deleted" /\ Delivered(ev)
    /\ \E r \in RowsWithClerk(ev.id): Opens(s, "delete", ev.id, r, ev)
    /\ UNCHANGED <<clerkVars, acked, users, creditVars, suppressed, moved, share>>
DeletedUnknownUnlessLive(ev) ==
    /\ ev.kind = "deleted" /\ Delivered(ev)
    /\ ~\E r \in RowsWithClerk(ev.id): Live(r)
    /\ Answer(ev)
    /\ UNCHANGED <<clerkVars, users, creditVars, suppressed, moved, share, sess>>
DeletedUnknown(ev) ==
    /\ ev.kind = "deleted" /\ Delivered(ev)
    /\ RowsWithClerk(ev.id) = {}
    /\ Answer(ev)
    /\ UNCHANGED <<clerkVars, users, creditVars, suppressed, moved, share, sess>>
ReconcileRead(s, i) ==
    /\ "reconcile" \in scene /\ Starts(s)
    /\ clerk[i].life = "dead"
    /\ \E r \in RowsWithClerk(i): Live(r) /\ Opens(s, "delete", i, r, None)
    /\ UNCHANGED <<clerkVars, acked, dups, users, creditVars, suppressed, moved, share>>

\* POST /auth/delete-account ("close") and POST /privacy/delete-account ("erase").
AskedRead(s, op, i) ==
    /\ op \in scene /\ Starts(s)
    /\ \E r \in RowsWithClerk(i): Live(r) /\ Opens(s, op, i, r, None)
    /\ UNCHANGED <<clerkVars, acked, dups, users, creditVars, suppressed, moved, share>>

\* The audit row (its foreign key needs the user), then the archive of the credits.
DeleteLogUnlocked(s) ==
    /\ sess[s].op \in {"delete", "close"} /\ sess[s].at = "read"
    /\ Becomes(s, [sess[s] EXCEPT !.at = "logged", !.credits = wallet[sess[s].row]])
    /\ UNCHANGED <<clerkVars, acked, dups, users, creditVars, suppressed, moved, share>>
DeleteLog(s) ==
    /\ sess[s].op \in {"delete", "close"} /\ sess[s].at = "read"
    /\ Present(sess[s].row)
    /\ share' = [share EXCEPT ![sess[s].row] = @ \cup {s}]
    /\ Becomes(s, [sess[s] EXCEPT !.at = "logged", !.credits = wallet[sess[s].row]])
    /\ UNCHANGED <<clerkVars, acked, dups, users, creditVars, suppressed, moved>>

\* The row goes and its credits with it; the archive and the suppression stay.
\* auth.py then asks Clerk to delete the identity, best effort.
DeleteCommit(s) ==
    /\ sess[s].op \in {"delete", "close"} /\ sess[s].at = "logged"
    /\ LET r == sess[s].row  i == sess[s].id IN
        /\ share[r] \subseteq {s}
        /\ users' = [users EXCEPT ![r] = NoRow]
        /\ wallet' = [wallet EXCEPT ![r] = 0]
        /\ archived' = [archived EXCEPT ![r] = @ + sess[s].credits]
        /\ suppressed' = suppressed \cup ({sess[s].email} \ {None})
        /\ share' = [share EXCEPT ![r] = {}]
        /\ Answer(sess[s].ev)
        /\ \/ UNCHANGED clerkVars
           \/ /\ sess[s].op = "close" /\ clerk[i].life = "alive"
              /\ Becoming(i, "dead", clerk[i].email, "deleted")
    /\ Becomes(s, Idle)
    /\ UNCHANGED <<dups, erasures, bonus, moved>>

\* The row is gone when the audit row is inserted (foreign key), or another session
\* that logged waits for this one (deadlock): rolled back, 500; Clerk tries again.
DeleteFails(s) ==
    /\ sess[s].op \in {"delete", "close"}
    /\ \/ sess[s].at = "read" /\ ~Present(sess[s].row)
       \/ sess[s].at = "logged" /\ share[sess[s].row] \ {s} # {}
    /\ share' = [share EXCEPT ![sess[s].row] = @ \ {s}]
    /\ Becomes(s, Idle)
    /\ UNCHANGED <<clerkVars, acked, dups, users, creditVars, suppressed, moved>>

\* delete_user_data reads the credits to archive, suppresses the email, deletes what
\* the user owned and anonymizes the row; the identity at Clerk is not touched.
EraseArchive(s) ==
    /\ Doing(s, "erase", "read")
    /\ Becomes(s, [sess[s] EXCEPT !.at = "logged", !.credits = wallet[sess[s].row]])
    /\ UNCHANGED <<clerkVars, acked, dups, users, creditVars, suppressed, moved, share>>

Erases(s, copies) ==
    /\ Doing(s, "erase", "logged")
    /\ LET r == sess[s].row IN
        /\ Present(r) /\ share[r] = {}
        /\ users' = [users EXCEPT ![r].state = "anon", ![r].email = None]
        /\ wallet' = [wallet EXCEPT ![r] = 0]
        /\ archived' = [archived EXCEPT ![r] = @ + copies]
        /\ erasures' = [erasures EXCEPT ![r] = @ + 1]
        /\ suppressed' = suppressed \cup ({sess[s].email} \ {None})
    /\ Becomes(s, Idle)
    /\ UNCHANGED <<clerkVars, acked, dups, bonus, moved, share>>
EraseCommitUnarchived(s) == Erases(s, 0)
EraseCommit(s) == Erases(s, sess[s].credits)

\* The row is gone when it is updated, or the session that deletes it waits for the
\* credits this one has deleted: rolled back, 500.
EraseFails(s) ==
    /\ sess[s].op = "erase"
    /\ \/ ~Present(sess[s].row)
       \/ sess[s].at = "logged" /\ share[sess[s].row] # {}
    /\ Becomes(s, Idle)
    /\ UNCHANGED <<clerkVars, acked, dups, users, creditVars, suppressed, moved, share>>
-----------------------------------------------------------------------------
ClerkActs == \E i \in Ids: Leave(i) \/ \E e \in Emails: SignUp(i, e) \/ ChangeEmail(i, e)

Ends(s) ==
    \/ JitInsert(s) \/ CreatedInsert(s)
    \/ JitConflict(s) \/ RelinkCommit(s) \/ CreatedFails(s)
    \/ DeleteLog(s) \/ DeleteCommit(s) \/ DeleteFails(s)
    \/ EraseArchive(s) \/ EraseCommit(s) \/ EraseFails(s)

Requests(s, i) ==
    \/ JitRead(s, i) \/ ReconcileRead(s, i)
    \/ \E op \in {"close", "erase"}: AskedRead(s, op, i)

Delivers(ev) ==
    \/ CreatedKnown(ev) \/ UpdatedKnown(ev) \/ UpdatedUnknown(ev) \/ DeletedUnknown(ev)
    \/ \E s \in Sess: CreatedRead(s, ev) \/ DeletedRead(s, ev)

Next ==
    \/ ClerkActs
    \/ \E ev \in issued: Delivers(ev)
    \/ \E s \in Sess: Ends(s) \/ \E i \in Ids: Requests(s, i)

Spec == Init /\ [][Next]_vars

\* A session that runs comes to its end, and one that waits for row locks is woken and
\* commits when their last holder goes.  Clerk repeats an unanswered event until it is
\* answered, and the pool has a free session for it again and again.
Gone(i) == \E ev \in issued \ acked: ev.kind = "deleted" /\ ev.id = i
TellsGone(i) == \E ev \in issued \ acked: ev.kind = "deleted" /\ ev.id = i /\ Delivers(ev)
Fairness ==
    /\ \A s \in Sess: WF_vars(Ends(s)) /\ SF_vars(DeleteCommit(s))
    /\ \A i \in Ids: SF_vars(TellsGone(i))
FairSpec == Spec /\ Fairness
-----------------------------------------------------------------------------
\* Types.  The two unique keys of the users table hold in every state, with the email
\* of a live account never NULL.
TypeOK ==
    /\ clerk \in [Ids -> [life: {"unborn", "alive", "dead"}, email: Emails \cup {None}]]
    /\ issued \subseteq Event /\ acked \subseteq issued
    /\ dups \in 0 .. MaxDups
    /\ users \in [Rows -> [state: {"none", "live", "anon"}, clerk: Ids \cup {None},
                           email: Emails \cup {None}]]
    /\ wallet \in [Rows -> 0 .. 1] /\ archived \in [Rows -> Nat]
    /\ erasures \in [Rows -> Nat]
    /\ suppressed \subseteq Emails
    /\ bonus \in [Emails -> Nat] /\ moved \in [Emails -> Nat]
    /\ share \in [Rows -> SUBSET Sess]
    /\ \A i \in Ids: Cardinality(RowsWithClerk(i)) <= 1
    /\ \A e \in Emails: Cardinality(RowsWithEmail(e)) <= 1
    /\ \A r \in Rows: Live(r) => users[r].email # None

\* The welcome bonus is not a faucet: however sign-ups, provisioning on the first
\* request, closures and webhooks interleave, accounts of one email address get one
\* bonus, and one more for each account that user.updated moved off the address.
BonusOncePerEmail == \A e \in Emails: bonus[e] <= 1 + moved[e]

\* The credit history outlives the account (24 months, for audits): every bonus paid is
\* in a wallet or in the archive, whichever of the three ways closed the account and
\* whatever they raced with.
HistoryKept ==
    SumFunction(bonus) <= SumFunction(wallet) + SumFunction(archived)

\* No history is archived twice, a hard delete repeated or raced by another included;
\* only erasure requests that overlap each add a copy, for nothing orders them.
ArchivedOnce == \A r \in Rows: archived[r] <= 1 \/ archived[r] <= erasures[r]

\* An identity that left Clerk does not keep its account: while its user.deleted is not
\* answered there will be a state where no row, live or anonymized, is linked to it,
\* though deliveries fail on deadlocks and race with requests of the same account.
\* (A row inserted after that answer stays until an administrator reconciles.)
DeadIdentityLeaves == \A i \in Ids: Gone(i) ~> RowsWithClerk(i) = {}
=============================================================================
