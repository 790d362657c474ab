----------------------------- MODULE Campaigns ------------------------------
(***************************************************************************)
(* The engagement mails of app/services/email_engagement.py, as the tasks  *)
(* of app/tasks/email_tasks.py, app/tasks/feed_tasks.py and                *)
(* app/tasks/infra_tasks.py run them, and the mails other code sends one   *)
(* at a time.                                                              *)
(*                                                                         *)
(* A campaign runs in one session: it reads whom to write to, then for     *)
(* each of them checks the budget, hands the mail to Resend and flushes a  *)
(* row of email_campaign_logs, and commits once, at the end.  Whatever     *)
(* ends the run earlier (an exception, Celery's time limit, a crash) rolls *)
(* all its rows back; the mails are out.  The date of a row is the date it *)
(* is written on; (user, type, date) is unique.  Runs overlap when a       *)
(* backlog or a shared minute of the schedule hands two of them to the     *)
(* worker's processes.                                                     *)
(*                                                                         *)
(* Who is eligible (age, uploads, contacts, searches, usage) is data: a    *)
(* run may find any set of the users the rest of its query lets through.   *)
(***************************************************************************)
EXTENDS Integers, FiniteSets, FiniteSetsExt

CONSTANTS
    Users, Uploads,
    Owner,           \* Owner[x]: the user who uploaded x
    Sess,            \* database sessions that may be open at the same time
    None,            \* NULL
    MaxPerWeek,      \* MAX_MARKETING_EMAILS_PER_WEEK
    Week,            \* the 7 days the budget and the expiry nudge look back
    Scenes,          \* bound: sets of mails explored together
    LastDay,         \* bound: days
    MaxFailures,     \* bound: runs that fail before the last one starts
    MaxChanges       \* bound: changes of marketing_opt_out

OneTime == {"csv_reminder_d1", "csv_reminder_d3", "nh_sharing_d2", "first_search_d2"}
Daily == {"weekly_digest", "reengagement_d30", "reengagement_d90", "intro_pending_24h"}
Single == {"welcome_js", "welcome_nh", "csv_completion", "intro_request_notify"}
Kinds == OneTime \cup Daily \cup Single
            \cup {"credit_expiry_14d", "smart_digest", "upload_failed"}

ASSUME CampaignsAssumption ==
    /\ Owner \in [Uploads -> Users] /\ IsFiniteSet(Sess) /\ Sess # {}
    /\ Users \cap Uploads = {} /\ None \notin Users \cup Uploads
    /\ Scenes \subseteq SUBSET Kinds
    /\ {MaxPerWeek, Week, LastDay, MaxFailures, MaxChanges} \subseteq Nat

VARIABLES
    scene,       \* the mails of this behaviour
    logs,        \* committed rows of email_campaign_logs
    optedOut,    \* users with marketing_opt_out
    uploads,     \* state of each CSV upload, as far as the watchdog tells it apart
    sess,        \* what each open session is doing and has read
    mails,       \* one-time mails handed to Resend
    late,        \* marketing mails a user was sent since the last opt-out
    failed,      \* runs rolled back, by kind
    met,         \* kinds of which two runs were open at once
    changes,     \* changes of marketing_opt_out so far
    day

vars == <<scene, logs, optedOut, uploads, sess, mails, late, failed, met, changes, day>>

Targets == Users \cup Uploads
UserOf(t) == IF t \in Uploads THEN Owner[t] ELSE t
Row == [user: Users, kind: Kinds, day: 0..LastDay, ref: Targets]
Key(r) == <<r.user, r.kind, r.day>>

\* kind and stage of a run, whom it still has to look at, the uploads it skips
\* because it loaded their owner as opted out, those it has marked failed, the
\* target whose mail is out but not recorded, and the rows it has flushed.
Run == [kind: Kinds \cup {"idle"}, todo: SUBSET Targets, muted: SUBSET Uploads,
        done: SUBSET Uploads, on: Targets \cup {None}, rows: SUBSET Row]
Idle == [kind |-> "idle", todo |-> {}, muted |-> {}, done |-> {}, on |-> None, rows |-> {}]

\* The mails that are to go out once: a nudge per user, a notice per upload.
OnceMails == (OneTime \X Users) \cup ({"upload_failed"} \X Uploads)
-----------------------------------------------------------------------------
Init ==
    /\ scene \in Scenes
    /\ logs = {} /\ optedOut = {}
    /\ uploads = [x \in Uploads |-> "running"]
    /\ sess = [s \in Sess |-> Idle]
    /\ mails = [m \in OnceMails |-> 0]
    /\ late = [u \in Users |-> 0]
    /\ failed = [k \in Kinds |-> 0] /\ met = {} /\ changes = 0
    /\ day = 0

Visible(s) == logs \cup sess[s].rows
Failures == MapThenSumSet(LAMBDA k: failed[k], Kinds)

\* _already_sent: a row of today that the session can see.
AlreadySent(s, u, k) == \E r \in Visible(s): Key(r) = <<u, k, day>>

Transactional == {"upload_failed", "intro_request_notification", "intro_pending_24h",
                  "intro_relay"}
BudgetExhaustedByMore(s, u) ==
    Cardinality({r \in Visible(s): /\ r.user = u /\ r.day >= day - Week
                                   /\ r.kind \notin Transactional}) > MaxPerWeek
BudgetExhausted(s, u) ==
    Cardinality({r \in Visible(s): /\ r.user = u /\ r.day >= day - Week
                                   /\ r.kind \notin Transactional}) >= MaxPerWeek
Capped == (OneTime \cup Daily \cup {"credit_expiry_14d"}) \ Transactional

----------------------------------------------------- (* a run finds its users *)
\* Runs of a campaign begin in any idle session; todo is what its queries leave.
Starts(s, k, todo) ==
    /\ sess[s].kind = "idle" /\ k \in scene /\ todo # {}
    /\ Failures <= MaxFailures
    /\ sess' = [sess EXCEPT ![s] = [Idle EXCEPT !.kind = k, !.todo = todo]]
    /\ met' = IF \E o \in Sess: sess[o].kind = k THEN met \cup {k} ELSE met
    /\ UNCHANGED <<scene, logs, optedOut, uploads, mails, late, failed, changes, day>>

\* The users of a campaign's rows that its already-sent query returns.
EverSent(k) == {r.user: r \in {l \in logs: l.kind = k}}
SentSince(k, d) == {r.user: r \in {l \in logs: l.kind = k /\ l.day >= d}}
SentToday(k) == SentSince(k, day)

CsvReminderD1Daily(s) ==
    \E who \in SUBSET (Users \ optedOut):
        Starts(s, "csv_reminder_d1", who \ SentToday("csv_reminder_d1"))
CsvReminderD1(s) ==
    \E who \in SUBSET (Users \ optedOut):
        Starts(s, "csv_reminder_d1", who \ EverSent("csv_reminder_d1"))

CsvReminderD3(s) ==
    \E who \in SUBSET (EverSent("csv_reminder_d1") \ optedOut):
        Starts(s, "csv_reminder_d3", who \ EverSent("csv_reminder_d3"))

NhSharingReminderD2(s) ==
    \E who \in SUBSET (Users \ optedOut):
        Starts(s, "nh_sharing_d2", who \ EverSent("nh_sharing_d2"))

FirstSearchNudgeD2(s) ==
    \E who \in SUBSET (Users \ optedOut):
        Starts(s, "first_search_d2", who \ EverSent("first_search_d2"))

IntroPendingReminderToAll(s) ==
    \E who \in SUBSET Users:
        Starts(s, "intro_pending_24h", who \ SentToday("intro_pending_24h"))
IntroPendingReminder(s) ==
    \E who \in SUBSET (Users \ optedOut):
        Starts(s, "intro_pending_24h", who \ SentToday("intro_pending_24h"))

WeeklyDigest(s) ==
    \E who \in SUBSET (Users \ optedOut):
        Starts(s, "weekly_digest", who \ SentToday("weekly_digest"))

Reengagement(s, k) ==
    \E who \in SUBSET (Users \ optedOut): Starts(s, k, who \ SentToday(k))

CreditExpiryNudge(s) ==
    \E who \in SUBSET (Users \ optedOut):
        Starts(s, "credit_expiry_14d", who \ SentSince("credit_expiry_14d", day - Week))

\* Active users; the opt-out and today's digest are looked up user by user.
SmartDigest(s) == \E who \in SUBSET Users: Starts(s, "smart_digest", who)

\* Uploads past their threshold, with the owners as they are loaded with them.
StuckUploadWatchdog(s) ==
    LET stuck == {x \in Uploads: uploads[x] = "stuck"}
    IN  /\ sess[s].kind = "idle" /\ "upload_failed" \in scene /\ stuck # {}
        /\ Failures <= MaxFailures
        /\ sess' = [sess EXCEPT ![s] = [Idle EXCEPT !.kind = "upload_failed", !.todo = stuck,
                        !.muted = {x \in stuck: Owner[x] \in optedOut}]]
        /\ UNCHANGED <<scene, logs, optedOut, uploads, mails, late, failed, met, changes, day>>

-------------------------------------------------- (* and takes them one by one *)
\* Marking an upload flushes an UPDATE, which waits for a session that marked it.
Held(s, t) == \E o \in Sess \ {s}: t \in sess[o].done
Takes(s, t) == sess[s].kind # "idle" /\ sess[s].on = None /\ t \in sess[s].todo /\ ~Held(s, t)
Noticed(s, x) == \E r \in Visible(s): r.kind = "upload_failed" /\ r.ref = x

\* What makes a run pass a target over for sure; _user_has_contacts and the
\* digest's feed items may make it do so at any time.
Skips(s, t) ==
    LET k == sess[s].kind
    IN  \/ k \in Capped /\ BudgetExhausted(s, t)
        \/ k = "smart_digest" /\ (t \in optedOut \/ AlreadySent(s, t, k))
        \/ k = "upload_failed" /\ (t \in sess[s].muted \/ Noticed(s, t))
MaySkip == {"nh_sharing_d2", "first_search_d2", "weekly_digest", "smart_digest"}

PassOver(s, t) ==
    /\ Takes(s, t)
    /\ Skips(s, t) \/ sess[s].kind \in MaySkip
    /\ sess' = [sess EXCEPT ![s].todo = @ \ {t}, ![s].done = @ \cup ({t} \cap Uploads)]
    /\ UNCHANGED <<scene, logs, optedOut, uploads, mails, late, failed, met, changes, day>>

Mail(s, t) ==
    LET k == sess[s].kind
        u == UserOf(t)
    IN  /\ Takes(s, t)
        /\ ~Skips(s, t)
        /\ sess' = [sess EXCEPT ![s].todo = @ \ {t}, ![s].on = t,
                                ![s].done = @ \cup ({t} \cap Uploads)]
        /\ mails' = IF <<k, t>> \in OnceMails THEN [mails EXCEPT ![<<k, t>>] = @ + 1] ELSE mails
        /\ late' = IF k # "upload_failed" /\ u \in optedOut
                   THEN [late EXCEPT ![u] = @ + 1] ELSE late
        /\ UNCHANGED <<scene, logs, optedOut, uploads, failed, met, changes, day>>

\* _record_send: the row of the mail that just went out.  An uncommitted row of
\* the same key makes the INSERT wait; a committed one, or one of the session's
\* own, makes it fail.
NewRow(s) == [user |-> UserOf(sess[s].on), kind |-> sess[s].kind, day |-> day,
              ref |-> sess[s].on]
Taken(rows, r) == \E q \in rows: Key(q) = Key(r)
Awaits(s, r) == \E o \in Sess \ {s}: Taken(sess[o].rows, r)

RecordSendUnchecked(s) ==
    /\ sess[s].on # None
    /\ sess' = [sess EXCEPT ![s].on = None, ![s].rows = @ \cup {NewRow(s)}]
    /\ UNCHANGED <<scene, logs, optedOut, uploads, mails, late, failed, met, changes, day>>
RecordSend(s) ==
    /\ sess[s].on # None
    /\ ~Awaits(s, NewRow(s)) /\ ~Taken(Visible(s), NewRow(s))
    /\ sess' = [sess EXCEPT ![s].on = None, ![s].rows = @ \cup {NewRow(s)}]
    /\ UNCHANGED <<scene, logs, optedOut, uploads, mails, late, failed, met, changes, day>>

RollBack(s) ==
    /\ sess' = [sess EXCEPT ![s] = Idle]
    /\ failed' = [failed EXCEPT ![sess[s].kind] = @ + 1]
    /\ UNCHANGED <<scene, logs, optedOut, uploads, mails, late, met, changes, day>>

RecordClashes(s) ==
    /\ sess[s].on # None
    /\ Taken(Visible(s), NewRow(s))
    /\ RollBack(s)

\* The time limit, a lost connection, a deadlock, a worker that dies.
RunFails(s) == sess[s].kind # "idle" /\ Failures < MaxFailures /\ RollBack(s)

Commit(s) ==
    /\ sess[s].kind # "idle" /\ sess[s].on = None /\ sess[s].todo = {}
    /\ logs' = logs \cup sess[s].rows
    /\ uploads' = [x \in Uploads |-> IF x \in sess[s].done THEN "failed" ELSE uploads[x]]
    /\ sess' = [sess EXCEPT ![s] = Idle]
    /\ UNCHANGED <<scene, optedOut, mails, late, failed, met, changes, day>>

----------------------------------------------------- (* mails sent on their own *)
\* In a session of one mail.  The welcome and completion mails look for a row of
\* today first; the notice of an intro request does not: a second one of the day
\* is mailed, its row refused, and logs is what it was.
SendOne(u, k) ==
    /\ k \in Single \cap scene /\ u \notin optedOut
    /\ ~\E r \in logs: Key(r) = <<u, k, day>>
    /\ logs' = logs \cup {[user |-> u, kind |-> k, day |-> day, ref |-> u]}
    /\ UNCHANGED <<scene, optedOut, uploads, sess, mails, late, failed, met, changes, day>>

OptOut(u) ==
    /\ u \notin optedOut /\ changes < MaxChanges
    /\ optedOut' = optedOut \cup {u} /\ changes' = changes + 1
    /\ late' = [late EXCEPT ![u] = 0]
    /\ UNCHANGED <<scene, logs, uploads, sess, mails, failed, met, day>>

OptIn(u) ==
    /\ u \in optedOut /\ changes < MaxChanges
    /\ optedOut' = optedOut \ {u} /\ changes' = changes + 1
    /\ UNCHANGED <<scene, logs, uploads, sess, mails, late, failed, met, day>>

UploadSticks(x) ==
    /\ "upload_failed" \in scene /\ uploads[x] = "running"
    /\ uploads' = [uploads EXCEPT ![x] = "stuck"]
    /\ UNCHANGED <<scene, logs, optedOut, sess, mails, late, failed, met, changes, day>>

Midnight ==
    /\ day < LastDay
    /\ day' = day + 1
    /\ UNCHANGED <<scene, logs, optedOut, uploads, sess, mails, late, failed, met, changes>>

Campaign(s) ==
    \/ CsvReminderD1(s) \/ CsvReminderD3(s) \/ NhSharingReminderD2(s) \/ FirstSearchNudgeD2(s)
    \/ IntroPendingReminder(s) \/ WeeklyDigest(s) \/ CreditExpiryNudge(s) \/ SmartDigest(s)
    \/ \E k \in {"reengagement_d30", "reengagement_d90"}: Reengagement(s, k)
    \/ StuckUploadWatchdog(s)
Step(s) ==
    \/ \E t \in Targets: PassOver(s, t) \/ Mail(s, t)
    \/ RecordSend(s) \/ RecordClashes(s) \/ Commit(s)
Environment ==
    \/ \E u \in Users: OptOut(u) \/ OptIn(u) \/ \E k \in Single: SendOne(u, k)
    \/ \E x \in Uploads: UploadSticks(x)
    \/ Midnight
Next == (\E s \in Sess: Campaign(s) \/ Step(s) \/ RunFails(s)) \/ Environment

Spec == Init /\ [][Next]_vars
-----------------------------------------------------------------------------
\* Every variable holds what its description says, and no two rows that are
\* committed or flushed have the same user, type and date
\* (uq_campaign_user_type_date of app/models/email_campaign.py).
TypeOK ==
    /\ scene \in Scenes /\ logs \subseteq Row /\ optedOut \subseteq Users
    /\ uploads \in [Uploads -> {"running", "stuck", "failed"}]
    /\ sess \in [Sess -> Run]
    /\ mails \in [OnceMails -> Nat] /\ late \in [Users -> Nat]
    /\ failed \in [Kinds -> Nat] /\ met \subseteq Kinds
    /\ changes \in 0..MaxChanges /\ day \in 0..LastDay
    /\ \A q, r \in logs \cup UNION {sess[s].rows: s \in Sess}: Key(q) = Key(r) => q = r

\* A one-time nudge goes out once per user and a failure notice once per upload,
\* plus once for every run of its kind that was rolled back after mailing; only
\* when two runs of a nudge were open at once may each of them count (they read
\* before the other committed, and midnight gave their rows different dates).
\* The watchdog needs no such exception: the row lock of an upload keeps a rival
\* from looking it up before the first pass has committed.
MailedOnce ==
    \A m \in OnceMails:
        mails[m] <= failed[m[1]]
                      + IF m[1] \in OneTime \cap met THEN Cardinality(Sess) ELSE 1

\* The weekly budget is read before the mail and other runs' rows are invisible
\* until they commit: of the mails that respect the budget, any stretch of
\* Week + 1 dates holds at most MaxPerWeek and one more for each rival session.
WeeklyBudgetBounded ==
    \A u \in Users, d \in 0..LastDay:
        Cardinality({r \in logs \cup UNION {sess[s].rows: s \in Sess}:
                        r.user = u /\ r.kind \in Capped /\ r.day \in (d - Week)..d})
          <= MaxPerWeek + Cardinality(Sess) - 1

\* An opt-out commits while runs hold users they loaded before: each of those runs
\* may still write to the user once, and no run that starts later does.
OptOutTakesEffect == \A u \in Users: late[u] <= Cardinality(Sess)
=============================================================================
