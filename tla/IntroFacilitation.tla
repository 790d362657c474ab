------------------------- MODULE IntroFacilitation --------------------------
(***************************************************************************)
(* The intro lifecycle of the marketplace, seen from one network holder:   *)
(* app/api/marketplace.py (request, approve, decline, confirm, sharing     *)
(* preferences), the Resend webhook of app/api/webhooks.py, the review     *)
(* tokens of app/api/intro_review.py, the purge of                         *)
(* app/services/suppression.py and the listing regeneration of             *)
(* app/services/marketplace_indexer.py.                                    *)
(*                                                                         *)
(* A handler runs in a database session at READ COMMITTED.  What it read   *)
(* is kept in sess[s].seen until it commits; nothing re-reads it.  A row   *)
(* is locked from the first UPDATE a session flushes to its commit or      *)
(* rollback, never from the read.  An UPDATE writes only the columns whose *)
(* value differs from the one the session loaded (SQLAlchemy's unit of     *)
(* work), so two sessions merge column by column: see Merge.               *)
(***************************************************************************)
EXTENDS Integers, FiniteSets

CONSTANTS
    Fac,             \* ids of intro_facilitations rows
    Seekers,         \* job seekers
    Contacts,        \* contacts in the holder's vault, all marketplace-eligible
    EmailContacts,   \* those with an email address: the relay path of an approval
    Sess,            \* database sessions that may be open at the same time
    None,            \* NULL
    IntroPrice, DeclineRefund, DeliveryAward, BounceAward,  \* 20, 15, 50, 25
    MaxEarnPerDay,   \* MAX_EARN_PER_DAY
    RequestLimit, ApproveLimit, ConfirmLimit,  \* the daily rate limits
    ManualAward,     \* settings.manual_intro_credit_award_enabled
    SystemUser,      \* does users hold the nil-UUID row the relay log refers to?
    StartCredits,    \* balance of a seeker at the start
    Ops,             \* the operations clients, mail and crashes bring about
    LastDay, MaxAttempts, MaxGens, MaxDups  \* bounds: days, approvals started,
                     \* listings per contact, webhook redeliveries

AllOps == {"request", "approve", "decline", "confirm", "webhook", "optout", "optin",
           "upload", "purge", "revoke", "abort"}
Events == {"delivered", "bounced", "opened"}
Statuses == {"none", "requested", "approved", "declined", "expired"}
Methods == {"none", "email_relay", "linkedin_manual"}
Deliveries == {"none", "sent", "failed", "delivered", "bounced", "opened"}

ASSUME IntroAssumption ==
    /\ EmailContacts \subseteq Contacts
    /\ Ops \subseteq AllOps
    /\ None \notin Fac \cup Seekers \cup Sess
    /\ {IntroPrice, DeclineRefund, DeliveryAward, BounceAward, MaxEarnPerDay,
        RequestLimit, ApproveLimit, ConfirmLimit, LastDay, MaxAttempts, MaxDups}
         \subseteq Nat
    /\ MaxGens \in Nat \ {0}
    /\ StartCredits \in Int
    /\ {ManualAward, SystemUser} \subseteq BOOLEAN

\* What the bounds on races assume besides: sessions can be counted, and no daily
\* limit is zero.
ASSUME BoundsAssumption ==
    /\ IsFiniteSet(Sess) /\ Sess # {}
    /\ {RequestLimit, ApproveLimit, ConfirmLimit} \subseteq Nat \ {0}

VARIABLES
    fac,       \* committed rows of intro_facilitations; "none": not yet inserted
    lock,      \* lock[f]: session holding the row lock, or None
    sess,      \* what each open session is doing and has read
    books,     \* credit rows that refer to a facilitation, counted by purpose
    credits,   \* balances of the seekers
    usage,     \* usage_logs: today's rows per action, and approvals in all
    earned,    \* what the holder earned today under the cap
    intros,    \* connector_reputation.intros_facilitated of the holder
    listings,  \* live listings, as <<contact, generation>>
    gens,      \* generations of listings created for each contact
    optedIn,   \* network_sharing_preferences.opt_in_marketplace
    purged,    \* contacts suppressed and soft-deleted
    relayLog,  \* email_campaign_logs rows of type intro_relay: <<f, day>>
    mails,     \* relay mails handed to Resend: <<attempt, f>>
    attempts,  \* approvals started: the source of tokens and message ids
    posted,    \* delivery events Resend has issued: <<attempt, event>>
    queue,     \* of those, the ones it still tries to hand over
    unpaid,    \* history: mails whose delivery was answered 2xx without a credit
    dups,      \* redeliveries so far
    day

rowVars == <<fac, lock, books, credits, usage, earned, intros>>
listVars == <<listings, gens, optedIn, purged>>
mailVars == <<relayLog, mails, attempts>>
eventVars == <<posted, queue, unpaid, dups>>
vars == <<rowVars, listVars, mailVars, eventVars, sess, day>>

Listing == Contacts \X (1..MaxGens)
FacRow == [status: Statuses, seeker: Seekers \cup {None},
           listing: Listing \cup {None}, method: Methods, delivery: Deliveries,
           relay: Nat, token: Nat, awarded: BOOLEAN]
Unborn == [status |-> "none", seeker |-> None, listing |-> None, method |-> "none",
           delivery |-> "none", relay |-> 0, token |-> 0, awarded |-> FALSE]

\* op and stage of a session, the row it works on and what it read of it, the
\* request it serves, the approval attempt and the message it sent (0: none), the
\* reputation it read, the event it handles, the day of its relay record, and the
\* rows, listings and contacts a bulk operation read.
SessRec == [op: AllOps \cup {"idle"}, at: {"read", "locked", "sent", "ready"},
            f: Fac \cup {None}, seen: FacRow, seeker: Seekers \cup {None},
            listing: Listing \cup {None}, attempt: Nat, msg: Nat,
            logs: BOOLEAN, rep: Nat, ev: Events \cup {None}, on: 0..LastDay,
            rows: SUBSET Fac, live: SUBSET Listing, who: SUBSET Contacts]
Idle == [op |-> "idle", at |-> "read", f |-> None, seen |-> Unborn, seeker |-> None,
         listing |-> None, attempt |-> 0, msg |-> 0, logs |-> FALSE, rep |-> 0,
         ev |-> None, on |-> 0, rows |-> {}, live |-> {}, who |-> {}]

\* The UPDATE a session flushes: columns it changed since it loaded the row.
Written(db, seen, new) == IF new = seen THEN db ELSE new
MergeWholeRow(db, seen, new) == new
Merge(db, seen, new) ==
    [db EXCEPT !.status = Written(@, seen.status, new.status),
               !.method = Written(@, seen.method, new.method),
               !.delivery = Written(@, seen.delivery, new.delivery),
               !.relay = Written(@, seen.relay, new.relay),
               !.token = Written(@, seen.token, new.token),
               !.awarded = Written(@, seen.awarded, new.awarded)]
-----------------------------------------------------------------------------
Init ==
    /\ fac = [f \in Fac |-> Unborn]
    /\ lock = [f \in Fac |-> None]
    /\ sess = [s \in Sess |-> Idle]
    /\ books = [f \in Fac |-> [charged |-> 0, refunded |-> 0, awarded |-> 0]]
    /\ credits = [j \in Seekers |-> StartCredits]
    /\ usage = [request |-> [j \in Seekers |-> 0], approve |-> 0, confirm |-> 0,
                approvals |-> 0]
    /\ earned = 0 /\ intros = 0
    /\ listings = Contacts \X {1} /\ gens = [c \in Contacts |-> 1]
    /\ optedIn = TRUE /\ purged = {}
    /\ relayLog = {} /\ mails = {} /\ attempts = 0
    /\ posted = {} /\ queue = {} /\ unpaid = {} /\ dups = 0
    /\ day = 0

Starts(s, op) == op \in Ops /\ sess[s].op = "idle"
Doing(s, op, at) == sess[s].op = op /\ sess[s].at = at
Becomes(s, rec) == sess' = [sess EXCEPT ![s] = rec]
Free(f) == lock[f] = None
InProgress(ops) == Cardinality({t \in Sess: sess[t].op \in ops /\ sess[t].at = "read"})
ContactOf(row) == row.listing[1]

----------------------------------------------------------- (* request_intro *)
RequestReadUnlimited(s, j, l) ==
    /\ Starts(s, "request")
    /\ l \in listings
    /\ \A f \in Fac: ~(/\ fac[f].status = "requested"
                       /\ fac[f].seeker = j /\ fac[f].listing = l)
    /\ credits[j] >= IntroPrice
    /\ Cardinality({f \in Fac: fac[f].status = "none"}) > InProgress({"request"})
    /\ Becomes(s, [Idle EXCEPT !.op = "request", !.seeker = j, !.listing = l])
    /\ UNCHANGED <<rowVars, listVars, mailVars, eventVars, day>>
RequestRead(s, j, l) ==
    /\ Starts(s, "request")
    /\ l \in listings
    /\ \A f \in Fac: ~(/\ fac[f].status = "requested"
                       /\ fac[f].seeker = j /\ fac[f].listing = l)
    /\ usage.request[j] < RequestLimit
    /\ credits[j] >= IntroPrice
    /\ Cardinality({f \in Fac: fac[f].status = "none"}) > InProgress({"request"})
    /\ Becomes(s, [Idle EXCEPT !.op = "request", !.seeker = j, !.listing = l])
    /\ UNCHANGED <<rowVars, listVars, mailVars, eventVars, day>>

RequestCommit(s, f) ==
    /\ Doing(s, "request", "read")
    /\ fac[f].status = "none"
    /\ LET j == sess[s].seeker IN
        /\ fac' = [fac EXCEPT ![f] = [Unborn EXCEPT !.status = "requested",
                                         !.seeker = j, !.listing = sess[s].listing]]
        /\ books' = [books EXCEPT ![f].charged = @ + 1]
        /\ credits' = [credits EXCEPT ![j] = @ - IntroPrice]
        /\ usage' = [usage EXCEPT !.request[j] = @ + 1]
    /\ Becomes(s, Idle)
    /\ UNCHANGED <<lock, earned, intros, listVars, mailVars, eventVars, day>>

--------------------------------------------- (* update_facilitation: approve *)
ApproveRead(s, f) ==
    /\ Starts(s, "approve")
    /\ fac[f].status = "requested"
    /\ usage.approve < ApproveLimit
    /\ attempts + InProgress({"approve"}) < MaxAttempts
    /\ Becomes(s, [Idle EXCEPT !.op = "approve", !.f = f, !.seen = fac[f]])
    /\ UNCHANGED <<rowVars, listVars, mailVars, eventVars, day>>

\* status = approved is flushed by the next query's autoflush: the row is locked.
\* The contact is loaded through the listing, live or not, suppressed or not.
ApproveLock(s) ==
    /\ Doing(s, "approve", "read")
    /\ Free(sess[s].f)
    /\ lock' = [lock EXCEPT ![sess[s].f] = s]
    /\ attempts' = attempts + 1
    /\ Becomes(s, [sess[s] EXCEPT !.attempt = attempts + 1,
                       !.at = IF ContactOf(sess[s].seen) \in EmailContacts
                              THEN "locked" ELSE "ready",
                       !.rep = intros])
    /\ UNCHANGED <<fac, books, credits, usage, earned, intros, listVars, relayLog,
                   mails, eventVars, day>>

\* send_intro_relay_email: skipped when a relay record of f is committed; Resend may
\* refuse the mail, which is recorded all the same.
RelaySkip(s) ==
    /\ Doing(s, "approve", "locked")
    /\ \E d \in 0..LastDay: <<sess[s].f, d>> \in relayLog
    /\ Becomes(s, [sess[s] EXCEPT !.at = "ready", !.rep = intros])
    /\ UNCHANGED <<rowVars, listVars, mailVars, eventVars, day>>

RelaySendAgain(s) ==
    /\ Doing(s, "approve", "locked")
    /\ mails' = mails \cup {<<sess[s].attempt, sess[s].f>>}
    /\ Becomes(s, [sess[s] EXCEPT !.at = "sent", !.msg = sess[s].attempt])
    /\ UNCHANGED <<rowVars, listVars, relayLog, attempts, eventVars, day>>
RelaySend(s) ==
    /\ Doing(s, "approve", "locked")
    /\ \A d \in 0..LastDay: <<sess[s].f, d>> \notin relayLog
    /\ \/ /\ mails' = mails \cup {<<sess[s].attempt, sess[s].f>>}
          /\ Becomes(s, [sess[s] EXCEPT !.at = "sent", !.msg = sess[s].attempt])
       \/ /\ Becomes(s, [sess[s] EXCEPT !.at = "sent"])
          /\ UNCHANGED mails
    /\ UNCHANGED <<rowVars, listVars, relayLog, attempts, eventVars, day>>

\* The relay record's user_id is the nil UUID: a foreign key to users, and unique
\* with the mail type and the date.
InFlight(t, d) == sess[t].op = "approve" /\ sess[t].logs /\ sess[t].on = d
RelayConflicts == ~SystemUser \/ \E f \in Fac: <<f, day>> \in relayLog

RelayRecordTomorrow(s) ==
    /\ Doing(s, "approve", "sent")
    /\ ~RelayConflicts
    /\ \A t \in Sess: ~InFlight(t, day)
    /\ Becomes(s, [sess[s] EXCEPT !.at = "ready", !.logs = TRUE, !.on = day + 1,
                                  !.rep = intros])
    /\ UNCHANGED <<rowVars, listVars, mailVars, eventVars, day>>
RelayRecord(s) ==
    /\ Doing(s, "approve", "sent")
    /\ ~RelayConflicts
    /\ \A t \in Sess: ~InFlight(t, day)
    /\ Becomes(s, [sess[s] EXCEPT !.at = "ready", !.logs = TRUE, !.on = day,
                                  !.rep = intros])
    /\ UNCHANGED <<rowVars, listVars, mailVars, eventVars, day>>

RelayRecordFailsLocked(s) ==
    /\ Doing(s, "approve", "sent")
    /\ RelayConflicts
    /\ Becomes(s, Idle)
    /\ UNCHANGED <<rowVars, listVars, mailVars, eventVars, day>>
RelayRecordFails(s) ==
    /\ Doing(s, "approve", "sent")
    /\ RelayConflicts
    /\ lock' = [lock EXCEPT ![sess[s].f] = None]
    /\ Becomes(s, Idle)
    /\ UNCHANGED <<fac, books, credits, usage, earned, intros, listVars, mailVars,
                   eventVars, day>>

ApprovedUnderOwnId(r) ==
    IF ContactOf(r.seen) \in EmailContacts
    THEN [r.seen EXCEPT !.status = "approved", !.method = "email_relay",
                        !.delivery = "sent", !.relay = r.attempt, !.token = r.attempt]
    ELSE [r.seen EXCEPT !.status = "approved"]
ApprovedWithNewToken(r) ==
    [r.seen EXCEPT !.status = "approved", !.method = "email_relay",
                   !.delivery = IF r.msg # 0 THEN "sent" ELSE "failed",
                   !.relay = r.msg, !.token = r.attempt + 1]
Approved(r) ==
    IF ContactOf(r.seen) \in EmailContacts
    THEN [r.seen EXCEPT !.status = "approved", !.method = "email_relay",
                        !.delivery = IF r.msg # 0 THEN "sent" ELSE "failed",
                        !.relay = r.msg, !.token = r.attempt]
    ELSE [r.seen EXCEPT !.status = "approved"]

ApproveCommit(s) ==
    /\ Doing(s, "approve", "ready")
    /\ LET r == sess[s] IN
        /\ fac' = [fac EXCEPT ![r.f] = Merge(@, r.seen, Approved(r))]
        /\ lock' = [lock EXCEPT ![r.f] = None]
        /\ relayLog' = IF r.logs THEN relayLog \cup {<<r.f, r.on>>} ELSE relayLog
        /\ intros' = r.rep + 1
    /\ usage' = [usage EXCEPT !.approve = @ + 1, !.approvals = @ + 1]
    /\ Becomes(s, Idle)
    /\ UNCHANGED <<books, credits, earned, listVars, mails, attempts, eventVars, day>>

--------------------------------------------- (* update_facilitation: decline *)
DeclineReadAnyStatus(s, f) ==
    /\ Starts(s, "decline")
    /\ fac[f].status # "none"
    /\ Becomes(s, [Idle EXCEPT !.op = "decline", !.f = f, !.seen = fac[f]])
    /\ UNCHANGED <<rowVars, listVars, mailVars, eventVars, day>>
DeclineRead(s, f) ==
    /\ Starts(s, "decline")
    /\ fac[f].status = "requested"
    /\ Becomes(s, [Idle EXCEPT !.op = "decline", !.f = f, !.seen = fac[f]])
    /\ UNCHANGED <<rowVars, listVars, mailVars, eventVars, day>>

DeclineCommitKeepsStatus(s) ==
    /\ Doing(s, "decline", "read")
    /\ Free(sess[s].f)
    /\ books' = [books EXCEPT ![sess[s].f].refunded = @ + 1]
    /\ credits' = [credits EXCEPT ![sess[s].seen.seeker] = @ + DeclineRefund]
    /\ Becomes(s, Idle)
    /\ UNCHANGED <<fac, lock, usage, earned, intros, listVars, mailVars, eventVars, day>>
DeclineCommit(s) ==
    /\ Doing(s, "decline", "read")
    /\ LET r == sess[s] IN
        /\ Free(r.f)
        /\ fac' = [fac EXCEPT ![r.f] =
                       Merge(@, r.seen, [r.seen EXCEPT !.status = "declined"])]
        /\ books' = [books EXCEPT ![r.f].refunded = @ + 1]
        /\ credits' = [credits EXCEPT ![r.seen.seeker] = @ + DeclineRefund]
    /\ Becomes(s, Idle)
    /\ UNCHANGED <<lock, usage, earned, intros, listVars, mailVars, eventVars, day>>

------------------------------------------------------ (* confirm_manual_send *)
ConfirmRead(s, f) ==
    /\ Starts(s, "confirm")
    /\ fac[f].status = "approved"
    /\ ~(fac[f].method = "linkedin_manual" /\ fac[f].delivery = "delivered")
    /\ ~fac[f].awarded
    /\ usage.confirm < ConfirmLimit
    /\ Becomes(s, [Idle EXCEPT !.op = "confirm", !.f = f, !.seen = fac[f]])
    /\ UNCHANGED <<rowVars, listVars, mailVars, eventVars, day>>

\* earn_credits under the daily cap; a refused award is swallowed by the caller.
Award(f, amount) ==
    IF earned + amount <= MaxEarnPerDay
    THEN /\ books' = [books EXCEPT ![f].awarded = @ + 1]
         /\ earned' = earned + amount
    ELSE UNCHANGED <<books, earned>>
AwardFits(amount) == earned + amount <= MaxEarnPerDay

ConfirmCommit(s) ==
    /\ Doing(s, "confirm", "read")
    /\ LET r == sess[s]
           new == [r.seen EXCEPT !.method = "linkedin_manual", !.delivery = "delivered",
                                 !.awarded = ManualAward /\ AwardFits(DeliveryAward)]
       IN /\ Free(r.f)
          /\ fac' = [fac EXCEPT ![r.f] = Merge(@, r.seen, new)]
          /\ IF ManualAward THEN Award(r.f, DeliveryAward)
                            ELSE UNCHANGED <<books, earned>>
    /\ usage' = [usage EXCEPT !.confirm = @ + 1]
    /\ Becomes(s, Idle)
    /\ UNCHANGED <<lock, credits, intros, listVars, mailVars, eventVars, day>>

----------------------------------------------------------- (* Resend events *)
\* Resend: a mail is delivered or bounces, a delivered mail may be opened; events go
\* out in any order, and again until the endpoint answers 2xx.
ResendIssues(n, e) ==
    /\ "webhook" \in Ops
    /\ \E f \in Fac: <<n, f>> \in mails
    /\ <<n, e>> \notin posted
    /\ CASE e = "delivered" -> <<n, "bounced">> \notin posted
         [] e = "bounced"   -> <<n, "delivered">> \notin posted
         [] e = "opened"    -> <<n, "delivered">> \in posted
    /\ posted' = posted \cup {<<n, e>>}
    /\ queue' = queue \cup {<<n, e>>}
    /\ UNCHANGED <<rowVars, listVars, mailVars, unpaid, dups, sess, day>>

ResendRepeats(n, e) ==
    /\ <<n, e>> \in posted \ queue
    /\ dups < MaxDups
    /\ dups' = dups + 1
    /\ queue' = queue \cup {<<n, e>>}
    /\ UNCHANGED <<rowVars, listVars, mailVars, posted, unpaid, sess, day>>

\* No committed row carries the message id: matched is False and the answer is 200.
WebhookUnmatched(s, n, e) ==
    /\ Starts(s, "webhook")
    /\ <<n, e>> \in queue
    /\ \A f \in Fac: fac[f].relay # n
    /\ queue' = queue \ {<<n, e>>}
    /\ unpaid' = unpaid \cup (IF e = "delivered" THEN {n} ELSE {})
    /\ UNCHANGED <<rowVars, listVars, mailVars, posted, dups, sess, day>>

WebhookRead(s, f, e) ==
    /\ Starts(s, "webhook")
    /\ <<fac[f].relay, e>> \in queue
    /\ Becomes(s, [Idle EXCEPT !.op = "webhook", !.f = f, !.seen = fac[f], !.ev = e])
    /\ UNCHANGED <<rowVars, listVars, mailVars, eventVars, day>>

AwardOf(e) == IF e = "delivered" THEN DeliveryAward ELSE BounceAward
PaysWhenSent(r) == r.ev \in {"delivered", "bounced"} /\ r.seen.delivery = "sent"
Pays(r) == r.ev \in {"delivered", "bounced"} /\ ~r.seen.awarded

WebhookCommit(s) ==
    /\ Doing(s, "webhook", "read")
    /\ LET r == sess[s]
           new == [r.seen EXCEPT !.delivery = r.ev,
                       !.awarded = @ \/ (Pays(r) /\ AwardFits(AwardOf(r.ev)))]
       IN /\ Free(r.f)
          /\ fac' = [fac EXCEPT ![r.f] = Merge(@, r.seen, new)]
          /\ IF Pays(r) THEN Award(r.f, AwardOf(r.ev)) ELSE UNCHANGED <<books, earned>>
          /\ queue' = queue \ {<<r.seen.relay, r.ev>>}
          /\ unpaid' = unpaid \cup (IF /\ r.ev = "delivered"
                                       /\ Pays(r) /\ ~AwardFits(AwardOf(r.ev))
                                    THEN {r.seen.relay} ELSE {})
    /\ Becomes(s, Idle)
    /\ UNCHANGED <<lock, credits, usage, intros, listVars, mailVars, posted, dups, day>>

--------------------------- (* sharing preferences, listings and suppression *)
OptOutRead(s) ==
    /\ Starts(s, "optout")
    /\ optedIn
    /\ Becomes(s, [Idle EXCEPT !.op = "optout", !.live = listings,
                       !.rows = {f \in Fac: fac[f].status = "requested"}])
    /\ UNCHANGED <<rowVars, listVars, mailVars, eventVars, day>>

OptOutCommit(s) ==
    /\ Doing(s, "optout", "read")
    /\ \A f \in sess[s].rows: Free(f)
    /\ fac' = [f \in Fac |-> IF f \in sess[s].rows
                             THEN [fac[f] EXCEPT !.status = "expired"] ELSE fac[f]]
    /\ listings' = listings \ sess[s].live
    /\ optedIn' = FALSE
    /\ Becomes(s, Idle)
    /\ UNCHANGED <<lock, books, credits, usage, earned, intros, gens, purged, mailVars,
                   eventVars, day>>

RegenerateReadAlways(s, op) ==
    /\ Starts(s, op)
    /\ \A c \in Contacts: gens[c] + InProgress({"upload", "optin"}) < MaxGens
    /\ Becomes(s, [Idle EXCEPT !.op = op, !.live = listings, !.who = Contacts \ purged])
    /\ UNCHANGED <<rowVars, listVars, mailVars, eventVars, day>>
RegenerateReadSuppressed(s, op) ==
    /\ Starts(s, op)
    /\ op = (IF optedIn THEN "upload" ELSE "optin")
    /\ \A c \in Contacts: gens[c] + InProgress({"upload", "optin"}) < MaxGens
    /\ Becomes(s, [Idle EXCEPT !.op = op, !.live = listings, !.who = Contacts])
    /\ UNCHANGED <<rowVars, listVars, mailVars, eventVars, day>>
\* generate_marketplace_listings, on an opt-in and after each upload: every live
\* listing is replaced by a fresh one per contact that is neither deleted nor
\* suppressed when the contacts are read.
RegenerateRead(s, op) ==
    /\ Starts(s, op)
    /\ op = (IF optedIn THEN "upload" ELSE "optin")
    /\ \A c \in Contacts: gens[c] + InProgress({"upload", "optin"}) < MaxGens
    /\ Becomes(s, [Idle EXCEPT !.op = op, !.live = listings, !.who = Contacts \ purged])
    /\ UNCHANGED <<rowVars, listVars, mailVars, eventVars, day>>

RegenerateCommit(s) ==
    /\ sess[s].op \in {"upload", "optin"}
    /\ \A c \in sess[s].who: gens[c] < MaxGens
    /\ gens' = [c \in Contacts |-> IF c \in sess[s].who THEN gens[c] + 1 ELSE gens[c]]
    /\ listings' = (listings \ sess[s].live)
                     \cup {<<c, gens[c] + 1>>: c \in sess[s].who}
    /\ optedIn' = (optedIn \/ sess[s].op = "optin")
    /\ Becomes(s, Idle)
    /\ UNCHANGED <<rowVars, purged, mailVars, eventVars, day>>

PurgedRowsAnyStatus(c) == {f \in Fac: fac[f].listing \in listings
                                      /\ ContactOf(fac[f]) = c}
\* purge_suppressed_person: one UPDATE, which waits for locked rows and re-evaluates
\* its condition, expires what is requested through the contact's live listings.
PurgedRows(c) == {f \in Fac: /\ fac[f].status = "requested"
                             /\ fac[f].listing \in listings
                             /\ ContactOf(fac[f]) = c}

Purge(s, c) ==
    /\ Starts(s, "purge")
    /\ c \notin purged
    /\ \A f \in PurgedRows(c): Free(f)
    /\ fac' = [f \in Fac |-> IF f \in PurgedRows(c)
                             THEN [fac[f] EXCEPT !.status = "expired"] ELSE fac[f]]
    /\ listings' = {l \in listings: l[1] # c}
    /\ purged' = purged \cup {c}
    /\ UNCHANGED <<lock, books, credits, usage, earned, intros, gens, optedIn, mailVars,
                   eventVars, sess, day>>

RevokeToken(s, f) ==
    /\ Starts(s, "revoke")
    /\ fac[f].token # 0 /\ Free(f)
    /\ fac' = [fac EXCEPT ![f].token = 0]
    /\ UNCHANGED <<lock, books, credits, usage, earned, intros, listVars, mailVars,
                   eventVars, sess, day>>

--------------------------------------------- (* failures and the calendar *)
\* An exception, a lost connection or a crash before the commit: the transaction is
\* rolled back; a mail already handed to Resend is not.
Abort(s) ==
    /\ "abort" \in Ops
    /\ sess[s].op # "idle"
    /\ lock' = [f \in Fac |-> IF lock[f] = s THEN None ELSE lock[f]]
    /\ Becomes(s, Idle)
    /\ UNCHANGED <<fac, books, credits, usage, earned, intros, listVars, mailVars,
                   eventVars, day>>

NextDay ==
    /\ day < LastDay
    /\ day' = day + 1
    /\ usage' = [usage EXCEPT !.request = [j \in Seekers |-> 0],
                              !.approve = 0, !.confirm = 0]
    /\ earned' = 0
    /\ UNCHANGED <<fac, lock, books, credits, intros, listVars, mailVars, eventVars, sess>>

Progress(s) ==
    \/ \E f \in Fac: RequestCommit(s, f)
    \/ ApproveLock(s) \/ RelaySkip(s) \/ RelaySend(s)
    \/ RelayRecord(s) \/ RelayRecordFails(s) \/ ApproveCommit(s)
    \/ DeclineCommit(s) \/ ConfirmCommit(s) \/ WebhookCommit(s)
    \/ OptOutCommit(s) \/ RegenerateCommit(s)

Arrive(s) ==
    \/ \E j \in Seekers, l \in listings: RequestRead(s, j, l)
    \/ \E f \in Fac: ApproveRead(s, f) \/ DeclineRead(s, f) \/ ConfirmRead(s, f)
                        \/ RevokeToken(s, f)
    \/ \E f \in Fac, e \in Events: WebhookRead(s, f, e)
    \/ OptOutRead(s)
    \/ \E op \in {"upload", "optin"}: RegenerateRead(s, op)
    \/ \E c \in Contacts: Purge(s, c)

Next ==
    \/ \E s \in Sess: Arrive(s) \/ Progress(s) \/ Abort(s)
    \/ \E n \in 1..attempts, e \in Events:
          \/ ResendIssues(n, e) \/ ResendRepeats(n, e)
          \/ \E s \in Sess: WebhookUnmatched(s, n, e)
    \/ NextDay

Spec == Init /\ [][Next]_vars

\* A session works on until it commits or fails; a row lock is granted in the order
\* it was asked for, so a session that keeps asking is served.
FairSpec == Spec /\ \A s \in Sess: SF_vars(Progress(s))
-----------------------------------------------------------------------------
TypeOK ==
    /\ fac \in [Fac -> FacRow]
    /\ lock \in [Fac -> Sess \cup {None}]
    /\ sess \in [Sess -> SessRec]
    /\ books \in [Fac -> [charged: Nat, refunded: Nat, awarded: Nat]]
    /\ credits \in [Seekers -> Int]
    /\ usage \in [request: [Seekers -> Nat], approve: Nat, confirm: Nat, approvals: Nat]
    /\ earned \in Nat /\ intros \in Nat /\ attempts \in Nat /\ dups \in Nat
    /\ listings \subseteq Listing /\ gens \in [Contacts -> 1..MaxGens]
    /\ optedIn \in BOOLEAN /\ purged \subseteq Contacts
    /\ relayLog \subseteq Fac \X (0..LastDay)
    /\ mails \subseteq Nat \X Fac
    /\ posted \subseteq Nat \X Events /\ queue \subseteq posted /\ unpaid \subseteq Nat
    /\ day \in 0..LastDay

Settled(f) == fac[f].status \in {"approved", "declined", "expired"}
LogOf(f) == {e \in relayLog: e[1] = f}
Rivals == Cardinality(Sess) - 1   \* sessions that may act on what one has read

\* Money moves on an intro only once it has left "requested", and once it has moved
\* the request is never pending again, whichever handlers race on the row.
MoneyOnlyWhenSettled ==
    \A f \in Fac: books[f].refunded + books[f].awarded > 0 => Settled(f)

\* credits_awarded_at is set exactly when an award row refers to the intro: no award
\* is lost or forgotten when sessions merge their columns.
AwardFlagMatchesBooks ==
    \A f \in Fac: fac[f].awarded <=> books[f].awarded > 0

\* An intro that carries a message id was really mailed under that id, is recorded in
\* the relay log, and no other intro carries it: a webhook finds one row or none.
RelayIsTraceable ==
    \A f \in Fac: fac[f].relay # 0 =>
        /\ <<fac[f].relay, f>> \in mails
        /\ LogOf(f) # {}
        /\ \A g \in Fac \ {f}: fac[g].relay # fac[f].relay

\* The relay log never holds two records of one intro: the dedup query of
\* _already_sent_relay, run under the row lock, meets one row at most.
OneRelayRecord ==
    \A f \in Fac: \A e1, e2 \in LogOf(f): e1 = e2

\* Sessions that read a row before it was settled may settle it again, each its own way,
\* but only they: refunds, an approval that stands or left its mark, and an expiry of one
\* intro are together at most one per session, and so are its awards.  With no rival, an
\* intro is refunded or approved or expired, once.
Honoured(f) == fac[f].status = "approved" \/ fac[f].relay # 0 \/ fac[f].awarded
SettlementsBounded ==
    \A f \in Fac:
        /\ books[f].refunded + (IF Honoured(f) THEN 1 ELSE 0)
             + (IF fac[f].status = "expired" THEN 1 ELSE 0) <= 1 + Rivals
        /\ books[f].awarded <= 1 + Rivals

\* A daily limit, and the check for a pending request of the same seeker on the same
\* listing, are overrun by at most the other sessions that read the same rows.
LimitsBounded ==
    /\ usage.approve <= ApproveLimit + Rivals
    /\ usage.confirm <= ConfirmLimit + Rivals
    /\ \A j \in Seekers: usage.request[j] <= RequestLimit + Rivals
    /\ \A f \in Fac: Cardinality({g \in Fac: /\ fac[g].status = "requested"
                                            /\ fac[g].seeker = fac[f].seeker
                                            /\ fac[g].listing = fac[f].listing}) <= 1 + Rivals

\* An intro never becomes pending again, nor loses its award or its message id.
NeverReopened ==
    [][\A f \in Fac:
        /\ Settled(f) => fac'[f].status \in {"approved", "declined", "expired"}
        /\ fac[f].awarded => fac'[f].awarded
        /\ fac[f].relay # 0 => fac'[f].relay = fac[f].relay]_vars

\* With one session at a time, the first answer to a request is final.
FirstAnswerIsFinal ==
    [][\A f \in Fac: Settled(f) => fac'[f].status = fac[f].status]_vars

\* With one session at a time, the books agree: a refund answers a decline, an award an
\* approval, and the holder's reputation counts the approvals of the usage log.
AnswerMatchesBooks ==
    /\ intros = usage.approvals
    /\ \A f \in Fac:
        /\ books[f].refunded = (IF fac[f].status = "declined" THEN 1 ELSE 0)
        /\ books[f].awarded > 0 => fac[f].status = "approved"
        /\ books[f].charged = (IF fac[f].status = "none" THEN 0 ELSE 1)

\* With one session at a time, the link in a recorded relay mail opens the intro
\* unless it was revoked.
MailedLinkIsLive ==
    \A f \in Fac: fac[f].relay # 0 => fac[f].token \in {0, fac[f].relay}

\* A regeneration that read the old listings before a rival replaced them adds its own
\* beside: a contact is listed at most once per session.  After an opt-out, and for a
\* suppressed contact, only rivals that had read the consent, or the contact, before can
\* list it again; with no rival nothing is listed without consent or despite suppression.
Live(c) == {l \in listings: l[1] = c}
ListingsFollowConsent ==
    \A c \in Contacts: Cardinality(Live(c)) <= IF optedIn THEN 1 + Rivals ELSE Rivals
ListingsFollowSuppression ==
    \A c \in purged: Cardinality(Live(c)) <= Rivals

\* Claim of _already_sent_relay: one relay per facilitation, ever.
OneRelayEver == \A m1, m2 \in mails: m1[2] = m2[2] => m1 = m2

\* Credit on delivery: once the delivery of a mail is answered, the intro that carries its
\* id is credited, whatever came in between, repeated or first; unless no row carried the
\* id yet when the event was handled, or the daily cap refused the award.
CreditOnDelivery ==
    \A n \in 1..attempts:
        <<n, "delivered">> \in posted \ queue =>
            n \in unpaid \/ \E f \in Fac: fac[f].relay = n /\ fac[f].awarded

\* Every session ends: no handler waits for ever on the rows another holds.
SessionsEnd == \A s \in Sess: sess[s].op # "idle" ~> sess[s].op = "idle"
=============================================================================
