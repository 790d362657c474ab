------------------------------- MODULE Billing ------------------------------
(***************************************************************************)
(* What money buys: the Stripe webhook of app/api/webhooks.py and the      *)
(* referral codes of app/services/referral_service.py.                     *)
(*                                                                         *)
(* Stripe delivers an event until it is answered 2xx, perhaps twice and    *)
(* perhaps two events of one subscription at once; the dispatcher keeps no *)
(* event id.  A handler reads the user row, decides, and commits; its      *)
(* UPDATE writes only the columns it changed (SQLAlchemy's unit of work),  *)
(* so a handler that assigns the value it read writes nothing.  An         *)
(* exception rolls everything back and answers 500.                        *)
(***************************************************************************)
EXTENDS Integers, FiniteSets

CONSTANTS
    Users, Payers,    \* accounts; those that pay through Stripe
    Owners,           \* accounts that ask for a referral code
    Checkouts,        \* completed checkouts, all of Payers
    Codes,            \* ids of referral_codes rows
    Sess,             \* database sessions that may be open at the same time
    None,             \* NULL
    MaxUses,          \* max_uses of a code (1 for a targeted invite)
    Scenes,           \* sets of operations that happen together (a bound)
    MaxDups           \* bound: deliveries of an event beyond the needed ones

AllOps == {"stripe", "create", "redeem", "expire"}
UserRow == [tier: {"free", "pro"}, cust: BOOLEAN]

ASSUME BillingAssumption ==
    /\ Payers \cup Owners \subseteq Users /\ IsFiniteSet(Sess) /\ Sess # {}
    /\ None \notin Users \cup Checkouts \cup Codes /\ None \notin UserRow
    /\ MaxUses \in Nat \ {0} /\ MaxDups \in Nat
    /\ Scenes \subseteq SUBSET AllOps

Kinds == {"checkout", "created", "updated", "deleted"}
\* meta: the object carries metadata.user_id; without it only the customer id helps.
Event == [kind: Kinds, user: Payers, co: Checkouts \cup {None}, meta: BOOLEAN]
Subscription == {"none", "active", "ended"}

VARIABLES
    users,      \* [tier, cust]: plan_tier, and whether stripe_customer_id is set
    grants,     \* credit rows of reason "purchase" written for each checkout
    subs,       \* what Stripe knows of a payer's subscription
    issued,     \* events Stripe has issued
    acked,      \* events answered 2xx
    dups,       \* deliveries of an event beyond its first unanswered one
    tangled,    \* payers whose subscription events met, were repeated or lost
    codes,      \* [owner, live, expired, uses] of each referral code row
    joined,     \* signup conversions: <<code, user>>
    sess,       \* what each open session is doing and has read
    ops         \* the operations of this behaviour: payments and codes share no row

stripeVars == <<users, grants, subs, issued, acked, dups, tangled>>
codeVars == <<codes, joined>>
vars == <<stripeVars, codeVars, sess, ops>>

CodeRow == [owner: Users \cup {None}, live: BOOLEAN, expired: BOOLEAN, uses: Nat]
NoCode == [owner |-> None, live |-> FALSE, expired |-> FALSE, uses |-> 0]
Idle == [op |-> "idle", ev |-> None, seen |-> None, user |-> None, code |-> None,
         uses |-> 0]

Becomes(s, rec) == sess' = [sess EXCEPT ![s] = rec]
Doing(s, op) == sess[s].op = op
Starts(s, op) == op \in ops /\ sess[s].op = "idle"
-----------------------------------------------------------------------------
Init ==
    /\ users = [u \in Payers |-> [tier |-> "free", cust |-> FALSE]]
    /\ grants = [c \in Checkouts |-> 0]
    /\ subs = [u \in Payers |-> "none"]
    /\ issued = {} /\ acked = {} /\ dups = [u \in Payers |-> 0] /\ tangled = {}
    /\ codes = [c \in Codes |-> NoCode]
    /\ joined = {}
    /\ sess = [s \in Sess |-> Idle]
    /\ ops \in Scenes

------------------------------------------------- (* Stripe, and its webhook *)
\* A payer completes a checkout; the checkout is created with the user's id.
Pay(u, c) ==
    /\ "stripe" \in ops
    /\ ~\E e \in issued: e.co = c
    /\ issued' = issued \cup {[kind |-> "checkout", user |-> u, co |-> c, meta |-> TRUE]}
    /\ UNCHANGED <<users, grants, subs, acked, dups, tangled, codeVars, sess, ops>>

Subscribes(u, kind, from, to) ==
    /\ "stripe" \in ops
    /\ subs[u] = from
    /\ subs' = [subs EXCEPT ![u] = to]
    /\ \E m \in BOOLEAN:
        issued' = issued \cup {[kind |-> kind, user |-> u, co |-> None, meta |-> m]}
    /\ UNCHANGED <<users, grants, acked, dups, tangled, codeVars, sess, ops>>
Subscribe(u) == Subscribes(u, "created", "none", "active")
EndSubscription(u) == Subscribes(u, "deleted", "active", "ended")
ChangeSubscription(u) ==
    /\ ~\E e \in issued: e.user = u /\ e.kind = "updated"
    /\ Subscribes(u, "updated", "active", "active")

AboutPlan(e) == e.kind \in {"created", "deleted"}
InHand(e) == \E t \in Sess: sess[t].ev = e
\* e is handed over while another change of the same plan is open, repeated, or late.
Tangles(e) ==
    AboutPlan(e) /\ \/ e \in acked \/ InHand(e)
                    \/ \E f \in issued: /\ AboutPlan(f) /\ f.user = e.user /\ f # e
                                        /\ \/ InHand(f)
                                           \/ e.kind = "deleted" /\ f \notin acked

\* _resolve_user: by metadata.user_id, else by the customer id an earlier event stored.
Resolves(e) == e.meta \/ users[e.user].cust

Deliver(s, e) ==
    /\ Starts(s, "stripe")
    /\ e \in issued
    /\ IF e \in acked \/ InHand(e)
       THEN dups[e.user] < MaxDups /\ dups' = [dups EXCEPT ![e.user] = @ + 1]
       ELSE UNCHANGED dups
    /\ tangled' = IF Tangles(e) \/ (AboutPlan(e) /\ ~Resolves(e))
                  THEN tangled \cup {e.user} ELSE tangled
    /\ Becomes(s, [Idle EXCEPT !.op = "stripe", !.ev = e,
                       !.seen = IF Resolves(e) THEN users[e.user] ELSE None])
    /\ UNCHANGED <<users, grants, subs, issued, acked, codeVars, ops>>

\* The row a handler leaves in its session.  invoice.* and updated events only log.
AfterWithoutDowngrade(e, row) ==
    CASE e.kind = "checkout" -> [row EXCEPT !.cust = TRUE]
      [] e.kind = "created" -> [tier |-> "pro", cust |-> TRUE]
      [] OTHER -> row
After(e, row) ==
    CASE e.kind = "checkout" -> [row EXCEPT !.cust = TRUE]
      [] e.kind = "created" -> [tier |-> "pro", cust |-> TRUE]
      [] e.kind = "deleted" -> [row EXCEPT !.tier = "free"]
      [] OTHER -> row
Merge(db, seen, new) == [tier |-> IF new.tier = seen.tier THEN db.tier ELSE new.tier,
                         cust |-> IF new.cust = seen.cust THEN db.cust ELSE new.cust]
GrantedToNewCustomers(e, seen) ==
    IF e.kind = "checkout" /\ seen # None /\ ~seen.cust THEN 1 ELSE 0
GrantedTwice(e, seen) == IF e.kind = "checkout" /\ seen # None THEN 2 ELSE 0
Granted(e, seen) == IF e.kind = "checkout" /\ seen # None THEN 1 ELSE 0
\* An event nobody resolves is logged, answered 200, and gone.
HandlerCommit(s) ==
    /\ Doing(s, "stripe")
    /\ LET e == sess[s].ev  seen == sess[s].seen IN
        /\ users' = IF seen = None THEN users
                    ELSE [users EXCEPT ![e.user] = Merge(@, seen, After(e, seen))]
        /\ grants' = IF e.kind = "checkout"
                     THEN [grants EXCEPT ![e.co] = @ + Granted(e, seen)] ELSE grants
        /\ acked' = acked \cup {e}
    /\ Becomes(s, Idle)
    /\ UNCHANGED <<subs, issued, dups, tangled, codeVars, ops>>

HandlerFail(s) ==
    /\ Doing(s, "stripe")
    /\ Becomes(s, Idle)
    /\ UNCHANGED <<stripeVars, codeVars, ops>>

---------------------------------------------------------- (* referral codes *)
ActiveCodes(u) == {c \in Codes: codes[c].owner = u /\ codes[c].live}

\* With one active code the request returns it; with two, scalar_one_or_none raises.
CreateReadAgain(s, u) ==
    /\ Starts(s, "create")
    /\ Becomes(s, [Idle EXCEPT !.op = "create", !.user = u])
    /\ UNCHANGED <<stripeVars, codeVars, ops>>
CreateRead(s, u) ==
    /\ Starts(s, "create")
    /\ ActiveCodes(u) = {}
    /\ Becomes(s, [Idle EXCEPT !.op = "create", !.user = u])
    /\ UNCHANGED <<stripeVars, codeVars, ops>>
CreateCommit(s, c) ==
    /\ Doing(s, "create")
    /\ codes[c] = NoCode
    /\ codes' = [codes EXCEPT ![c] = [NoCode EXCEPT !.owner = sess[s].user,
                                                    !.live = TRUE]]
    /\ Becomes(s, Idle)
    /\ UNCHANGED <<stripeVars, joined, ops>>

RedeemReadUnlimited(s, u, c) ==
    /\ Starts(s, "redeem")
    /\ codes[c].live /\ ~codes[c].expired
    /\ codes[c].owner # u
    /\ <<c, u>> \notin joined
    /\ Becomes(s, [Idle EXCEPT !.op = "redeem", !.user = u, !.code = c,
                               !.uses = codes[c].uses])
    /\ UNCHANGED <<stripeVars, codeVars, ops>>
RedeemRead(s, u, c) ==
    /\ Starts(s, "redeem")
    /\ codes[c].live /\ ~codes[c].expired
    /\ codes[c].owner # u
    /\ codes[c].uses < MaxUses
    /\ <<c, u>> \notin joined
    /\ Becomes(s, [Idle EXCEPT !.op = "redeem", !.user = u, !.code = c,
                               !.uses = codes[c].uses])
    /\ UNCHANGED <<stripeVars, codeVars, ops>>
\* uses_count += 1 is computed from the value read; the pair (code, user) is unique.
RedeemCommit(s) ==
    /\ Doing(s, "redeem")
    /\ <<sess[s].code, sess[s].user>> \notin joined
    /\ joined' = joined \cup {<<sess[s].code, sess[s].user>>}
    /\ codes' = [codes EXCEPT ![sess[s].code].uses = sess[s].uses + 1]
    /\ Becomes(s, Idle)
    /\ UNCHANGED <<stripeVars, ops>>

\* The unique constraint, a crash, or a lost connection: nothing is written.
ReferralAbort(s) ==
    /\ sess[s].op \in {"create", "redeem"}
    /\ Becomes(s, Idle)
    /\ UNCHANGED <<stripeVars, codeVars, ops>>

\* Ninety days go by.  is_active stays true: only redeem looks at expires_at.
CodeExpiresInactive(c) ==
    /\ "expire" \in ops
    /\ codes[c].live /\ ~codes[c].expired
    /\ codes' = [codes EXCEPT ![c].expired = TRUE, ![c].live = FALSE]
    /\ UNCHANGED <<stripeVars, joined, sess, ops>>
CodeExpires(c) ==
    /\ "expire" \in ops
    /\ codes[c].live /\ ~codes[c].expired
    /\ codes' = [codes EXCEPT ![c].expired = TRUE]
    /\ UNCHANGED <<stripeVars, joined, sess, ops>>

-----------------------------------------------------------------------------
StripeActs ==
    \E u \in Payers:
        \/ \E c \in Checkouts: Pay(u, c)
        \/ Subscribe(u)
        \/ EndSubscription(u)
        \/ ChangeSubscription(u)

Next ==
    \/ StripeActs
    \/ \E c \in Codes: CodeExpires(c)
    \/ \E s \in Sess:
        \/ \E e \in issued: Deliver(s, e)
        \/ HandlerCommit(s)
        \/ HandlerFail(s)
        \/ \E u \in Owners: CreateRead(s, u)
        \/ \E u \in Users, c \in Codes: RedeemRead(s, u, c)
        \/ \E c \in Codes: CreateCommit(s, c)
        \/ RedeemCommit(s)
        \/ ReferralAbort(s)

Spec == Init /\ [][Next]_vars

\* Stripe redelivers an unanswered event, and a handler does not fail every time.
Redelivers(c) ==
    \E s \in Sess, e \in issued: e.co = c /\ e \notin acked /\ ~InHand(e) /\ Deliver(s, e)
Fairness ==
    /\ \A s \in Sess: SF_vars(HandlerCommit(s))
    /\ \A c \in Checkouts: SF_vars(Redelivers(c))
FairSpec == Spec /\ Fairness
-----------------------------------------------------------------------------
\* The rows are users, codes and conversions; a session works on rows that exist.
TypeOK ==
    /\ users \in [Payers -> UserRow] /\ grants \in [Checkouts -> Nat]
    /\ subs \in [Payers -> Subscription]
    /\ issued \subseteq Event /\ acked \subseteq issued
    /\ dups \in [Payers -> 0..MaxDups] /\ tangled \subseteq Payers
    /\ codes \in [Codes -> CodeRow] /\ joined \subseteq Codes \X Users
    /\ \A s \in Sess:
        /\ sess[s].op = "stripe" => sess[s].ev \in issued
        /\ sess[s].op = "redeem" => codes[sess[s].code].live

\* stripe_webhook: a checkout is granted at most once per delivery, so a repeated
\* delivery is the only way credits are granted twice; no unpaid checkout is granted.
GrantsFollowDeliveries ==
    /\ \A e \in issued: e.kind = "checkout" => grants[e.co] <= 1 + dups[e.user]
    /\ \A c \in Checkouts: grants[c] > 0 => \E e \in acked: e.co = c

Quiet(u) == \A e \in issued: e.user = u /\ AboutPlan(e) => e \in acked
\* _handle_subscription_created and _deleted keep no order and no event id: once all
\* events of a payer are answered the tier is right, unless two of them met in two
\* sessions, came in the wrong order, came twice, or found nobody.
TierMatchesStripe ==
    \A u \in Payers \ tangled:
        Quiet(u) => (users[u].tier = "pro" <=> subs[u] = "active")

\* create_referral_code promises one active code per owner; concurrent requests that
\* saw none each insert one, so an owner has at most one per open session.
ActiveCodesBounded == \A u \in Users: Cardinality(ActiveCodes(u)) <= Cardinality(Sess)

Redeemers(c) == {u \in Users: <<c, u>> \in joined}
\* redeem_referral_code reads, compares and writes back uses_count: the count never
\* passes max_uses nor the conversions, but a session that wrote a stale count lets
\* others in; a single-use code is redeemed at most once per open session.
RedemptionsBounded ==
    \A c \in Codes:
        /\ codes[c].uses <= MaxUses
        /\ codes[c].uses <= Cardinality(Redeemers(c))
        /\ MaxUses = 1 => Cardinality(Redeemers(c)) <= Cardinality(Sess)
        /\ codes[c].owner \notin Redeemers(c)

\* Every completed checkout is granted: Stripe repeats it until a handler commits.
PaidIsGranted ==
    \A c \in Checkouts:
        (\E e \in issued: e.co = c) ~> grants[c] > 0
=============================================================================
