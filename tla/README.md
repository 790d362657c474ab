# Warmpath in TLA+

Warmpath is a FastAPI service over PostgreSQL (async SQLAlchemy), with Celery tasks,
Redis, payments through Stripe, identities at Clerk and mail through Resend. A *network
holder* uploads contacts and may list them anonymously on a marketplace; a *job seeker*
spends credits to ask for an introduction; the holder approves or declines; an approval
mails the contact through a relay, and the holder earns credits when the mail is
delivered. This directory holds TLA+ models of the parts of that program whose
correctness depends on the order of things, the TLC configurations that check them, and
proofs checked by TLAPS.

Contents: 1 inventory, 2 the modules, 3 the runs, 4 the proofs, 5 what the models show
about the code, 6 what is left out.

## 1. Inventory

Three facts about the program decide most of what follows.

* `get_db` (app/database.py) gives each request one session and never commits. A handler
  that does not call `commit` writes nothing; an exception or a crash rolls back.
* PostgreSQL runs at READ COMMITTED. No statement in the application says FOR UPDATE and
  no table has a version column, so what a handler read may be out of date when it
  writes. A row is locked from the first UPDATE a session flushes, not from the read.
* SQLAlchemy's unit of work writes only the columns whose value differs from the one the
  session loaded. Two sessions that change one row therefore merge column by column.

| Component | State | Operations | Talks to | What is hard | What makes it correct | Module |
|---|---|---|---|---|---|---|
| Credit ledger (`services/credits.py`, `api/credits.py`) | append-only `credit_transactions` | check_and_spend, earn_credits, refund_credits, purchase, expire_stale_credits | every money path | sums read before rows are inserted; expiry against later debits; overlapping sweeps | no overdraft, daily cap, each lapsed credit offset once | `CreditLedger` |
| Marketplace intros (`api/marketplace.py`, relay part of `services/email_engagement.py`) | `intro_facilitations`, relay log, usage log, reputation | request, approve with relay mail, decline, confirm, opt-in, opt-out | ledger, Resend, indexer, suppression | two answers to one request; a mail sent inside a transaction; retries | one answer, one mail, one award, flag and books agree | `IntroFacilitation` |
| Resend webhook (`api/webhooks.py` from 422) | delivery columns of the same rows | delivered, bounced, opened | Resend, ledger | early, late, repeated, reordered events | a delivered mail is paid for, once | `IntroFacilitation` |
| Listing regeneration (`services/marketplace_indexer.py`) | `marketplace_listings` | replace all live listings | uploads, opt-in | reads consent and suppression long before it writes | only consenting, unsuppressed contacts listed | `IntroFacilitation` |
| Suppression (`services/suppression.py`) | suppression list, contacts, listings | purge a person | intros, listings | reaches intros through listings that may have been replaced | nobody suppressed is listed or mailed | `IntroFacilitation` |
| Intro review tokens (`api/intro_review.py`) | token columns of the intro | issue, read, revoke | relay mail | token in a mail whose transaction failed | a recorded mail's link works until revoked | `IntroFacilitation` |
| Daily limits (`middleware/rate_limit.py`, `usage.py`) | `usage_logs` | check, track | all handlers | check and count are far apart | limit overrun by open rivals at most | `IntroFacilitation` |
| Stripe webhook (`api/webhooks.py` 107-419) | user tier, customer id, credits | checkout, subscription, invoice | Stripe, ledger | at-least-once and reordered events; no event id kept | every payment granted, tier follows the subscription | `Billing` |
| Referrals (`services/referral_service.py`) | codes, conversions | create, redeem | - | check then insert, counters read and written back | one active code, bounded uses | `Billing` |
| Clerk webhook, provisioning, account deletion (`api/clerk_webhooks.py`, `utils/security.py`, `api/auth.py`, `services/account_deletion.py`) | users, credit archive, suppression | created, updated, deleted, reconcile, first request, close, erase | Clerk, ledger | reordered and repeated events; three places insert accounts, four close them; row locks and deadlocks | unique identities and addresses, one welcome bonus, history kept once, nobody's row outlives the identity | `Accounts` |
| CSV import (`tasks/csv_processing.py`, `tasks/csv_pipeline.py`, `utils/redis_streams.py`) | `csv_uploads`, streams, contacts | route, parse, clean, poll, import, watchdog, status poll | Redis, Celery, Gemini batches | a progress session against the import's own row lock; lost and redelivered tasks; handed-out stream entries; watchdog against import | complete when it says so, nobody twice, paid once, every upload ends | `CsvPipeline` |
| Engagement mails (`services/email_engagement.py`, `tasks/email_tasks.py`) | `email_campaign_logs` | campaigns, digest, failure notices, single mails | Resend, Celery beat | mails leave inside a transaction that may be rolled back; overlapping runs; midnight | a nudge once, a weekly budget, opt-out | `Campaigns` |
| Friendships (`services/friendship_service.py`, `api/friends.py`) | friendships, blocks | send, respond, remove, block, unblock | feed | nobody commits | a request that was answered is stored | `Friendship` |
| Token limiter (`utils/rate_limiter.py`, `tasks/infra_tasks.py`) | Redis list of tokens | init, acquire, release, top up | AI calls, watchdog | an empty list means "all taken" or "never filled" | never more slots than the limit | - |
| Approval tasks (`tasks/approval_tasks.py`) | a JSON file of decisions | read, dispatch to git, mark as executed | Telegram, Celery | nothing claims a decision; crash between dispatch and mark | a decision acts once | - |
| Retention purges, data export | all tables | purge by age, export | - | none beyond age comparisons | nothing old is left | - |
| Matching, scoring, feed; job ingestion; applications; token verification; agent teams; MCP server; frontend | per-user rows or none | CRUD, scoring, HTTP | - | no shared state that changes under them | - | - |

`PROJECT.json` lists the same components with their sources and status, and under
`hazards` every place where the order of steps, a crash, a stale read, a redelivery or a
limit can hurt, at its line, with the properties that watch it.

## 2. The modules

| Module | What it is |
|---|---|
| `CreditLedger` | the ledger, its sessions and the expiry sweep |
| `Wallet` | the abstract specification the ledger implements when sessions do not overlap |
| `IntroFacilitation` | the intro lifecycle of one holder: answers, relay mail, webhook, sharing, listings, purge, tokens, limits |
| `Billing` | the Stripe webhook and the referral codes |
| `Accounts` | how an account comes and goes: Clerk events, provisioning, the ways to close it |
| `CsvPipeline` | one CSV upload from its row to the imported contacts, in all three ways it may be processed |
| `Campaigns` | the engagement mails: runs of campaigns, the digest, failure notices, single mails |
| `Friendship` | friend requests and blocks, as the endpoints run them |
| `IntroFacilitationProofs`, `IntroBoundsProofs`, `CreditLedgerProofs`, `BillingProofs`, `AccountsProofs`, `CsvPipelineProofs`, `CampaignsProofs` | inductive invariants and theorems |
| `SumTheorems` | lemmas about sums over finite sets, for the ledger, the accounts and the pipeline |
| `MC...` | constants and symmetry sets for TLC, one per model |

All models of handlers share one shape. A handler is at least two actions: `...Read`, its
queries and guards, and `...Commit`, its writes. `sess[s]` (in `CsvPipeline`, `work[w]`)
holds what the session read, and nothing re-reads it. Exceptions, disconnections and
crashes before a commit are an action that only frees the session. Where one statement
evaluates its own condition (`UPDATE ... WHERE`), or nothing between read and write
matters to a property, the handler is one action.

### CreditLedger

`ledger` is the bag of committed rows (no query depends on their order), `pending[s]`
the rows session `s` has flushed, `day` the date: the code compares times only with
midnight and with `expires_at`. A row keeps user, kind, amount, reason, day of creation
and day of expiry. Each operation of `services/credits.py` is an action that reads the
committed rows, decides as the code does, and puts its rows into `pending[s]`; `Commit`
and `Abort` end the session. `GetBalance`, `EarnedToday`, `LapsedTotal`, `AlreadyExpired`
and `EffectiveBalance` are the queries, each with exactly the filters of its SELECT (note
that `get_balance` leaves out `expired` rows and `expire_stale_credits` counts them).
The purchase endpoint's daily limit is an ordinary guard in the code, but it counts
`usage_logs` rows with action `credit_purchase`, which nothing writes; so it never
refuses, and the action has no such guard.

`Wallet` has one variable, what each user ever earned less what the user ever spent. The
refinement maps it to that sum over the ledger, so `ImplementsWallet` says that
commits move one user at a time and that a debit is always covered by what was earned and not
spent, whatever sweeps and the calendar did to the balance that was checked. Expiry rows are
not part of that sum: that a sweep offsets no more than has lapsed is `SweepsBounded`.

### IntroFacilitation

An approval has more steps than a read and a commit because it talks to Resend inside
its transaction:

    ApproveRead -> ApproveLock -> RelaySkip ----------------------------> ApproveCommit
                              \-> RelaySend -> RelayRecord ------------/
                              |           \-> RelayRecordFails (rollback, mail is out)
                              \-> (no email address) ------------------> ApproveCommit

`ApproveLock` is the autoflush of `status = approved`, from which `lock[f]` is held until
the end. `RelaySend` hands a mail to Resend, which may refuse it; the code records the
refused mail in the log as well, and so does the model. `RelayRecord` inserts the log row,
which is unique per user, mail type and day and refers to the user with the nil UUID.
`Merge` is the UPDATE of the unit of work. `Purge` and `RevokeToken` are one action each.

| Variable | In the code |
|---|---|
| `fac` | rows of `intro_facilitations`: status, method, delivery status, message id (`relay`), review token, `credits_awarded_at` as a flag |
| `lock` | PostgreSQL's row locks |
| `books`, `credits` | credit rows that refer to the intro; the seekers' balances |
| `usage`, `earned` | today's `usage_logs` counts and the holder's earnings under the cap |
| `intros` | `connector_reputation.intros_facilitated` |
| `listings`, `gens`, `optedIn`, `purged` | live listings by contact and generation, consent, suppression |
| `relayLog` | `email_campaign_logs` of type `intro_relay` |
| `mails`, `posted`, `queue`, `dups` | outside: mails given to Resend, events it issued, those it still tries to hand over, redeliveries |
| `unpaid` | history: mails whose delivery was answered 2xx with no row that carried the message id yet, or with an award that the daily cap refused |
| `attempts` | a counter that makes message ids and tokens fresh |

`ResendIssues` and `ResendRepeats` are the environment, taken from what the webhook
handler expects: a mail is delivered or bounces, a delivered one may be opened, events
come in any order and again until they are answered 2xx. `Abort` is every exception,
disconnection and crash before a commit. A regeneration is a read (of the live listings, the
consent and the contacts not suppressed) and a commit that deletes what it saw and inserts
one listing per contact it saw, whatever an opt-out, a purge or another regeneration has
committed in between.

`SystemUser` says whether `users` holds a row with the nil UUID. No migration, seed or
start-up code inserts it, so FALSE is the program as shipped: with it, no approval that
sends a mail ever commits (run IntroNoSystemUser). The other runs set TRUE, the state in
which an operator has added the row, because otherwise nothing behind an approval would
be reachable. The theorems hold for both values.

What the data abstraction leaves out: names, companies, profile snapshots, token hashes
and their 90-day expiry, the text of mails, notifications and audit rows, the holder's
identity (one holder). The cap check and the award row of `Award` are one step, because
the race between them is the ledger's and is explored in `CreditLedger`; the check here
only decides whether the flag and the row are written. Administrators, whom the limits
do not bind, are left out.

### Billing

`users` is the pair of columns the webhook writes (`plan_tier`, and whether
`stripe_customer_id` is set), `grants` counts the purchase rows of a checkout, `subs` is
what Stripe knows, `issued` and `acked` are the events, `dups` the deliveries beyond the
needed ones. `Deliver` hands an event to a free session, which resolves and reads the user
row (by the metadata's user id, else by the customer id); `HandlerCommit` writes `After`
merged column by column and answers 200, also when nobody was found; `HandlerFail` rolls
back, answers 500 or dies, and the event will come again. `tangled` is a history variable:
the payers two of whose subscription events met, swapped, repeated or found nobody.
`CreateRead`/`CreateCommit` and `RedeemRead`/`RedeemCommit` are the referral endpoints over
`codes` and `joined`; `CodeExpires` is the ninetieth day. Payments and referrals share no
row, so `ops` picks one of them per behaviour.

### Accounts

`clerk` holds the identities as Clerk knows them, `issued` and `acked` its webhook events,
`users` the table with its two unique keys, `wallet` and `archived` the welcome bonus and
its archived copies, `suppressed` the addresses of deleted accounts, `share[r]` the
sessions that hold row `r` FOR KEY SHARE because their audit row refers to it. Inserting:
`JitRead`/`JitInsert`/`JitConflict` is provisioning on the first request, `CreatedKnown`,
`CreatedRead`, `CreatedInsert`, `RelinkCommit` and `CreatedFails` are `user.created`.
Closing: `DeletedRead` (webhook), `ReconcileRead` (an administrator's reconciliation) and
`AskedRead` ("close" is POST /auth/delete-account, "erase" POST /privacy/delete-account)
open a session; `DeleteLog` takes the row lock and reads the credits, `DeleteCommit` waits
for the other holders, `DeleteFails` is the foreign key or the deadlock victim;
`EraseArchive`, `EraseCommit` and `EraseFails` anonymize instead. `erasures`, `bonus` and
`moved` are history variables. `scene` picks which kinds of operations a behaviour has.

### CsvPipeline

`mode` is how the upload is processed: the single task, streams, or a batch job. `row` is
its `csv_uploads` row, `lock` the worker whose open transaction has updated it, `queue`
the Celery messages by task, `work[w]` what a worker runs and has read, `parsed` and
`cleaned` the two Redis streams with the number of entries handed out (readers ask for
`>`, so an entry is handed out once), `contacts` the committed copies of each chunk,
`awarded` the upload award. The steps of a task follow its awaits. `Crash` is a dead
worker: tasks that acknowledge late go back to their queue, the others are lost;
`TimeLimit` ends a task from outside. `WatchdogRead`, `StatusPollRead` and `FailStale` are
the two places that fail an overdue upload.

`faults` counts dead workers, chunk updates that fail, and failures of Redis (`Outage`). The
code answers these in four ways, all modelled: `stream_read_group` turns an error into an
empty read (redis_streams.py:81), so sixty of them end a collection or an import at once, with
messages unread (`CleanDispatch`, `ImportCommit`); an answer may be lost after Redis has handed
the message out (`ReplyLost`); the fallback's own write may be refused, which
`gather(return_exceptions=True)` swallows (csv_pipeline.py:545, 556) before the import is
queued all the same (`CleanOne`, `CleanDone`); any other refused write raises and ends its
task, as `ParseFails`, `ImportFails` or `TimeLimit` do. One `Outage` stands for the sixty failed
reads. `lost` is a history variable: the chunks that did not get through, each with one of six
ways (`Losses`).

`CleanOne` and `Route` may hand something over twice, and `doubled` counts how often they or a
crash of a poll did. `CompletedMeansImported` says that a chunk missing from a completed upload
is one of `lost`, and without faults one the batch job rejected. `ContactsOnce` allows one copy
of a chunk and two more per repeated hand-over. `AwardOnce` says once, unless something was
handed over twice or an import left chunks unread (then a redelivery after its commit finds
them, imports them and is paid as well), and otherwise one award more than there were faults.
The single task is modelled up to its first progress update, which it never survives
(section 5). `CleanRead` and `ReplyLost` take one message where the code asks for up to
fifty: the messages a read returns are collected one after the other before anything else
happens, and an answer that is lost whole is several `ReplyLost`.

### Campaigns

A run of a campaign is a session with a set of targets (`todo`) that its queries left, as
any subset: age, uploads, searches and usage are data. It takes them one by one: `PassOver`
(over budget, opted out, already noticed, nothing to say), or `Mail` and then `RecordSend`,
which flushes a row of `email_campaign_logs`, or `RecordClashes` when the unique key (user,
type, date) is taken. `Commit` is once, at the end; `RunFails` is the 300 s time limit, a
lost connection or a dead worker, and forgets every row. `logs` holds the committed rows,
`optedOut` the users with `marketing_opt_out`, `uploads` what the stuck-upload watchdog sees;
`SendOne` is a mail in a session of its own. `mails`, `late`, `failed` and `met` are history
variables: one-time mails sent, mails sent after an opt-out, runs rolled back, kinds of which
two runs were open at once.

### Friendship

Each endpoint is one action that opens a session, checks, writes into that session and
answers; `Close` is `get_db` closing it. Nothing else happens to a session, because nothing
commits: `friendships` and `blocks` stay empty. `promised` records what the answers said.

## 3. The runs

`CHECK_DEADLOCK FALSE` is set everywhere for one reason: the bounded counters (days,
rows, attempts, generations, faults, redeliveries) and the finite supply of intros,
checkouts, identities or uploads make the models stop, as a program with no more clients
does. That sessions do not block each other for ever is checked by `SessionsEnd`,
`DeadIdentityLeaves` and `UploadEnds`; `SessionsEnd` covers the waiting for rows, not the
deadlock of two bulk updates that each hold some of them (section 6).

Passing runs:

| Run | Instance | What it shows |
|---|---|---|
| LedgerSerial | 2 users, 1 session, 4 rows, 3 days, lifetime 1 | the ledger implements `Wallet`; types |
| LedgerConcurrent | 1 user, 2 sessions, 5 rows, 3 days | overdraft, cap and sweep overshoot by at most one operation per rival session |
| IntroRaces | 1 intro, 2 sessions, 2 days, 2 approvals, 1 redelivery, opt-out, rollback, cap of 60 (one award fits, two do not) | money only on settled intros, flag and books agree, message ids traceable, one relay record, nothing reopened, settlements of an intro bounded by the sessions, an answered delivery credited or lost in one of two ways |
| IntroSerial | 2 intros through 2 contacts (one with an address), 1 session, 2 approvals, rollback, redelivery, revoked links, opt-in, opt-out, upload, purge, 2 generations, cap of 100 | what holds when handlers do not overlap: first answer final, books and reputation match it, live links |
| IntroEnds | 3 intros of 1 contact, 2 sessions, limits of one request and one approval, opt-out, opt-in, upload, purge, 3 generations, fairness | every session ends; a daily limit, the check for a pending duplicate, and what is listed twice, without consent or despite suppression, are overrun by rivals only |
| Billing | 1 payer among 4 accounts, 1 checkout, 3 codes of one owner, 2 sessions, 1 repeated delivery, fairness | at most one grant per delivery and each payment granted in the end; the tier follows the subscription unless its events met, swapped, repeated or found nobody; one active code and one use too many per rival session |
| Accounts | 2 identities, 2 addresses, 4 rows, 2 sessions, 1 change of address, 1 repetition, fairness | unique identities and addresses, one welcome bonus per address, credit history kept and archived once, the row of a dead identity disappears |
| CsvPipeline | 1 upload of 2 chunks in each of 3 modes, 2 workers, 1 fault (a dead worker or a failure of Redis), fairness of the watchdog | what may be missing from a completed upload, nobody twice, paid once (or twice after a partial import), every upload ends |
| Campaigns | 1 user with 2 uploads, 2 sessions, 3 days, budget of 1 mail in 2 dates, 1 failing run, 2 changes of consent | a one-time mail repeats only after a rolled-back run or between overlapping ones; the budget is overrun by rivals only; an opt-out is missed by runs already open only |

Violation runs, each with a statement of the repository (section 5): IntroNoSystemUser,
CsvProgressBlocked, FriendshipsLost.

Why the bounds are enough. Every race is between what one session read and what one
other session committed in between, so two sessions (or workers) exhibit it; the bounds in
the properties are stated per rival or per session so that they mean the same for more.

* *Ledger.* Four rows are the shortest history in which a lapsed credit, the debit it paid
  for, a sweep and another debit all occur. Amounts are the code's divided by five, with a
  cap small enough to be reached by two awards.
* *Intros.* One intro is enough where a property is about one row; two where it relates
  rows (duplicate requests, one relay record a day); three in IntroEnds so that an opt-out
  waits for several locks held at different stages. Two days let the daily limits, the
  cap and the relay log's unique day change once between any two steps. Two approvals allow
  one failed and one repeated. The amounts are the code's. IntroSerial has one day and two
  generations because its properties do not speak of dates or listings. IntroEnds has three
  generations of listings: the first, and one of each session that replaces it. The limits of
  one are reached by the first request or approval of a day. In IntroRaces the parts of
  properties that relate two intros are vacuous, and in IntroEnds nothing is confirmed; the
  theorems cover these for any number.
* *Billing.* A payer's events never touch another payer's row, so one payer shows every
  race of the webhook; a checkout event may come twice beside all subscription events.
  Three codes let two sessions overrun the check and a third row exist; four accounts let
  an owner and three redeemers meet.
* *Accounts.* Two identities that share or exchange an address are what the two unique keys
  can be confused by, one after the other and at once; four rows allow an account to be
  inserted again after each closure. The operations are explored a few kinds at a time
  (`ClosingRaces`): each scene has the webhook's three handlers and joins the pairs that
  write the same columns.
* *CsvPipeline.* Two chunks distinguish "some" from "all", two workers let a task and its
  redelivery, or an import and the next task, overlap. One fault at a time shows each way a
  chunk gets lost; what needs two, such as an import that ends early, commits, and dies before
  it is marked, so that it is paid again, is out of TLC's reach here and covered by the
  theorems, whose bounds count faults and hold for any number.
* *Campaigns.* The real window of eight dates with three mails is scaled to two dates with
  one: what matters is that a row can leave the window and that the budget can be used up.
  One user is enough because users meet only in the run that holds them, and what another
  user's clash does to it, at any point, is `RunFails`. Two uploads of one owner clash on
  the unique key. `Scenes` pairs a kind with one that shares its budget or follows it; the
  budget and the unique key count per user, and kinds do not otherwise read each other's
  rows.

Symmetry is used in safety runs only.

Which properties hold only for one session at a time is itself a result: under two sessions
TLC finds counterexamples to each of the three properties of IntroSerial (section 5 says where
in the code). Nothing in FastAPI serialises requests, so these three are about the handlers
themselves, their rollbacks and their repetition, and not about the code's behaviour under
load. What races can do to the answers is bounded by `SettlementsBounded`, checked with two
sessions; what they do to the counter of the reputation (marketplace.py:114) is not bounded by
anything, because an approval that stalls writes back an arbitrarily old value.

Fairness.

* `IntroFacilitation`: strong fairness of `Progress(s)`. A session that is open keeps
  executing (the event loop runs it, Resend's client has a timeout), and PostgreSQL grants
  a row lock to its waiters in the order they asked, so a session that is repeatedly able
  to proceed does. Nothing is assumed of clients, deliveries or aborts.
* `Billing`: strong fairness of each session's `HandlerCommit` (a handler does not fail
  every time) and of the redelivery of an unanswered checkout event (Stripe retries for
  days; there is a free session again and again).
* `Accounts`: a session that runs comes to its end (weak), one that waits for a row lock
  commits when it is repeatedly free (strong), and Clerk repeats `user.deleted` until it is
  answered (strong, for the same reason as Stripe).
* `CsvPipeline`: `WatchedSpec`, under which `UploadEnds` is checked, assumes of the workers
  nothing but Celery's time limit, and that beat keeps running the watchdog. `FairSpec`
  adds that workers work; the violation run CsvProgressBlocked uses it, so that the
  progress is not missing merely because everybody stopped.
* `Campaigns`, `CreditLedger`, `Friendship` promise nothing in the end and assume nothing.

Every property of a passing run has a mutant in `PROJECT.json`: an operator in the module
(named for the mistake, such as `DeclineReadAnyStatus`, `CleanOneNoFallback` or
`MergeWholeRow`) that alters one definition as a plausible slip would, and under which the
property fails in the same instance.

## 4. The proofs

Each theorem holds for every value of the constants. The assumptions are the ones named in
the modules (`IntroAssumption`, `BillingAssumption`, `AccountsAssumption`,
`CampaignsAssumption`, `LedgerAssumption`, `CsvPipelineAssumption`): the types of the
constants, and that what a property counts or sums over is finite: the sessions, the workers
and chunks of an upload, the users of the ledger, addresses and rows of accounts.
`LedgerAssumption` also has positive amounts, a highest price and a highest award, and at
least one session. `None` differs from what it stands in for.
`IntroBoundsProofs` assumes besides (`BoundsAssumption`) that the sessions are finite and
at least one, and that no daily limit is zero. TLC evaluates each of them in the runs.

| Module | Theorem | Statement |
|---|---|---|
| `IntroFacilitationProofs` | TypeCorrect | `Spec => []TypeOK` |
| | MoneySafe | `Spec => []MoneyOnlyWhenSettled` |
| | AwardFlagSound | `Spec => []AwardFlagMatchesBooks` |
| | RelayRecordedOnce | `Spec => []OneRelayRecord` |
| | RelayTraceable | `Spec => []RelayIsTraceable` |
| | StaysSettled | `Spec => NeverReopened` |
| `IntroBoundsProofs` | SettlementsSound | `Spec => []SettlementsBounded` |
| | LimitsSound | `Spec => []LimitsBounded` |
| | ConsentKept | `Spec => []ListingsFollowConsent` |
| | SuppressionKept | `Spec => []ListingsFollowSuppression` |
| | DeliveriesCredited | `Spec => []CreditOnDelivery` |
| | LinksLive | one session: `Spec => []MailedLinkIsLive` |
| `CreditLedgerProofs` | LedgerTypes | `Spec => []TypeOK` |
| | OverdraftSound | `Spec => []OverdraftBounded` |
| | DailyCapSound | `Spec => []DailyCapBounded` |
| | SweepsSound | `Spec => []SweepsBounded` |
| | SerialLedgerIsWallet | one session: `Spec => ImplementsWallet` |
| `BillingProofs` | BillingTypes | `Spec => []TypeOK` |
| | GrantsSound | `Spec => []GrantsFollowDeliveries` |
| | TierSound | `Spec => []TierMatchesStripe` |
| | ActiveCodesSound | `Spec => []ActiveCodesBounded` |
| | RedemptionsSound | `Spec => []RedemptionsBounded` |
| | GrantedOnce | with `MaxDups = 0` no checkout is granted twice |
| `AccountsProofs` | AccountTypes | `Spec => []TypeOK` |
| | BonusSound | `Spec => []BonusOncePerEmail` |
| | ArchiveSound | `Spec => []ArchivedOnce` |
| | HistorySound | `Spec => []HistoryKept` |
| `CsvPipelineProofs` | UploadTypes | `Spec => []TypeOK` |
| | CompletedIsImported | `Spec => []CompletedMeansImported` |
| | PaidOnce | `Spec => []AwardOnce` |
| | AddedAtMost | `Spec => []ContactsOnce` |
| `CampaignsProofs` | CampaignTypes | `Spec => []TypeOK` |
| | MailedSound | `Spec => []MailedOnce` |
| | BudgetSound | `Spec => []WeeklyBudgetBounded` |
| | OptOutSound | `Spec => []OptOutTakesEffect` |

None of the properties is inductive: whether a commit is harmless depends on what the
session read and how much of it can still be true. Each module therefore has an invariant
`IInv` that says what the open sessions rely on; TLC checked it on the instances of the
runs before it was proved.

**Intros.** `IInv` adds

* `SessionOK`: a session that answers read a pending, unawarded row without message id,
  one that confirms or handles an event read a settled one; since no step reopens a row,
  that part of a stale read stays true;
* `ApprovalOK`: an approval past its first UPDATE holds the row lock, its attempt number
  has been drawn, no mail bears it until it sends one, and while it is about to record
  its mail the relay log has no record of the intro, because only the holder of the row
  lock writes one;
* `MessageOK`: a message id held by a session is its own attempt and was mailed;
* `AttemptsDiffer`, `MailsOK`, `PostedOK`: ids are fresh and name one intro;
* `RelayLogged`: a row with a message id is settled, mailed and recorded.

The proof has one lemma per action. Four carry the common part: `OthersOK` (a step of one
session that touches only its own lock, mails and records leaves what the others rely on),
`EndsOK` (a session that ends relies on nothing), `QuietOK` (a step that moves no money and
no message id keeps the row properties) and `RowOK` (the same for a step that writes one
row). `AwardAgrees` is the heart of AwardFlagSound: the merged flag and the booked award
agree whatever the session read, as long as it pays only when it read no award.
`Inductive` assembles them and also yields `Kept`, from which StaysSettled follows.

The bounds on races (`IntroBoundsProofs`) rest on `IInv` and on `BoundsInv`: what is
counted, plus the sessions about to add to it (`Payers`, `Approvers`, `Confirmers`,
`Requesters`, `Askers`), stays within the bound. The lemma `Shapes` maps every step to one of
four: it is `Quiet`, it turns the day (`DayTurns`), a session begins with a fresh read
(`Begins`), or a session ends and adds what it was about to add (`Settles`). A session only
begins while the count is below its limit, and then there is room for every session
(`StaysBounded`); so one lemma per count suffices.

The settlements of an intro (`Answers`: its refunds, an approval that stands, an expiry) are
counted with the `Settlers`, the sessions that read it as requested and may still answer or
expire it. An approval stands while the row says so and afterwards while a session that saw it
may still leave its mark, which is what lets a late award not count as a second settlement.
`StepAnswers` says what a step may do to the three parts, one lemma per action, and
`AnswersStep` adds up.

`CreditInv` follows each delivered mail: its event is in the queue, its intro is credited, or
it is in `unpaid`; the handler that has read a row relies on the row keeping its message id
(from NeverReopened's invariant) and, if it saw an award, on the award staying.

`ListsInv` bounds listings that sessions replace without seeing each other's. A plain count of
the listings and the sessions about to add one is not inductive, since it may be above the
bound exactly while a session is about to delete what it saw. `Within` therefore asks for it
of every set of sessions: what is left of the listings after those sessions have deleted what
they saw, plus one new listing for each of them, is within the bound. It is `Sess` for all
sessions that list; after an opt-out, and for a suppressed contact, it is one less for the
uploads that had read before, since the opt-out or the purge has ended and it deleted what
it saw.

What is proved for one session only is `LinkInv`: the row an approval read is still stored, so
a recorded mail bears the row's token unless that was revoked. With two, a second approval
overwrites the token of the first (section 5).

**Credit ledger.** The bounds are sums over a bag of rows. `Booked` is the sum of a kind of
rows over the committed ledger, `Part` over what one session has flushed, `Open` over all
sessions. `IInv` says that what is booked plus what is open stays within what the sessions
can add on stale reads (`OverdraftOK`, `DailyOK`, `SweepOK`): a session flushes on the
committed rows it reads, and when it commits its part moves from one sum to the other.
`services/credits.py` deletes no row, so a lapsed credit stays lapsed as days pass. With
one session nothing is open when it reads, and a commit is the `Credit` or the `Debit` of
`Wallet`, or moves no balance. The sums need induction over finite sets, which TLAPS's
library states for an operator; `SumTheorems` takes it from the well-foundedness of strict
inclusion instead, with a set of subsets in place of the operator (`LeastSet`).

**Billing.** The bounds become inductive by counting the sessions that are about to use
them up: a checkout's grants plus the sessions that hold its event are at most its
deliveries (`GrantInv`); an owner's active codes plus the sessions that insert one are at
most the sessions (`CreateInv`), and likewise the conversions of a single-use code
(`RedeemInv`). `PlanInv` says of an untangled payer that the tier follows the answered
events, and that the one session holding an event of the plan read the tier as it is.
Steps of the webhook and of the referral endpoints touch disjoint variables, so each part
has a frame lemma for the other's steps.

**Accounts.** `ClerkInv` (events and identities have addresses), `RowInv` (the unique keys,
and that a wallet with a bonus has no archive), `SessInv` (who holds a row in share mode
has logged on it, and has read its credits as they are) and `BonusInv`: an address nobody
has is either suppressed or has room for a bonus, and so has the new address of an account
that was moved while a session closes it, since that session suppresses the address it
read. The actions are first mapped to ten shapes of steps (a session opens, logs or ends;
a row is inserted, relinked, moved, deleted or anonymized; nothing of the tables moves), and
the invariant is proved once per shape. HistorySound adds `HistInv`: an erasure has read at
least the credits its row still has, because only an insertion pays, and it takes no
row that a session has read.

**CSV pipeline.** The work on an upload is a token that the tasks hand on: a message in the
queue or a busy worker. TLC checked the parts before they were proved; with two faults it
refuted an earlier bound on the awards, `2^doubled`.

* `TokenInv`, `BudgetInv`: there are at most `1 + doubled` tokens; awards, messages and
  workers that may still pay are together at most `1 + faults`.
* `ChainInv`: while `doubled` is 0 there is one token, and its stage tells what is in the
  two streams, what the row says and what is in the books (`Chained`, `BooksOK`): each chunk
  that is not `Missing` is at the place where the token is, and nothing more may be paid
  unless an import left something behind (`MayPay`). The first halves of CompletedIsImported
  and of PaidOnce follow.
* `LossInv`: while nothing has failed only the batch job has lost a chunk. It needs `ChainInv`:
  a cleaner that has counted its chunks leaves none in the stream.
* `CopiesInv`: for each chunk, `Possible` counts the copies that are committed, cleaned,
  held by a worker or still to be made by a queued task, `Raw` those parsed or about to be.
  What bounds them depends on the phase: before there are cleaners, with the first cleaner,
  after it, and later, once something was handed over twice (`Phase`). A reset while a
  cleaner is about needs a token to spare (`MarkTokens`), and that token is a hand-over
  already counted. AddedAtMost follows for every mode and number of chunks, workers and
  faults.

**Campaigns.** Again the bounds become inductive by counting sessions with what is already
on record. Every one-time mail is recorded for good, out in a session that has not committed
(`Out`), or forgotten by a run that failed (`MailsInv`). A user's recorded nudges plus the
sessions that hold the user, to look at, mailed or flushed (`Holders`), are at most one
while no two runs of the kind have met: only a run that begins comes to hold a user, and it
leaves out whoever is on record (`NudgeInv`). For a failure notice the row lock of the
upload does the same (`NoticeInv`). The mails since an opt-out plus the sessions that loaded
the user before it are at most the sessions (`ConsentInv`). The mails on record in a stretch
of dates plus the sessions that have one out are at most the budget and the rivals
(`BudgetInv`): the mail that comes last saw all those on record, and a run that commits
hands its one row from the second count to the first. BudgetSound then maps the flushed rows
one to one to the sessions that flushed them. `KeysOK` splits the unique key of the log into
the pairs a step can disturb.

Only model-checked: liveness (`SessionsEnd`, `PaidIsGranted`, `DeadIdentityLeaves`,
`UploadEnds`), which is out of TLAPS's reach here; and `FirstAnswerIsFinal` and
`AnswerMatchesBooks`, which speak of one session only and are left to their run. Every other
safety property of a passing run is a theorem.

## 5. What the models show about the code

Three statements of the repository are refuted, each by a run and a short behaviour:

| Run | Statement | What happens |
|---|---|---|
| IntroNoSystemUser | "one relay per facilitation, ever" (email_engagement.py:1231) | the log row's foreign key fails after the mail is out; the retry mails again |
| CsvProgressBlocked | "Commit progress fields in a separate transaction so polling sees them." (csv_processing.py:81) | the task has updated the same row and not committed: the second session waits for it, until the time limit |
| FriendshipsLost | the addressee's list has one request (tests/test_friends.py:249) | the request is answered 201 and rolled back; the test engine shares one connection |

Others were met while modelling. No run is spent on them: most are the distance between
what a docstring says and the bound a property of a passing run states, and adding a second
session, or removing the exception from the property, shows them.

*Ledger.* "Check balance and spend atomically" (credits.py:90): two sessions read one
balance and both spend. "never expire into negative" (credits.py:190): the earned row
lapses, the debit it paid for does not. Two concurrent awards exceed the daily cap, two
overlapping sweeps offset a lapsed credit twice (credits.py 121, 251): the `...Bounded`
properties say by how much. The purchase limit counts rows nothing writes (api/credits.py
144-151). `marketplace_search` flushes its charge and never commits (marketplace.py
466-558).

*Intros.* "Prevents double credit award" (models/marketplace.py:180): a delivery event and a
manual confirmation both read "not awarded". "credit-on-delivery" (README.md:22-23): an
event that precedes the commit of the message id matches nothing and is answered 200. The
purge's "Cancel any pending intro_facilitations" (suppression.py:107) misses a request whose
listing an upload has replaced. Two answers both pass the status check (marketplace.py:906),
so an intro can be refunded and mailed, and the last committed status wins; two approvals of
one request leave the link in the recorded mail dead, because the second overwrites its token;
two identical requests pass the duplicate check (marketplace.py:596); concurrent approvals lose
increments of the reputation (marketplace.py:114), as many as fit into the slowest of them. A
regeneration that read consent or suppression before an opt-out or purge committed lists the
contact afterwards, until the next regeneration replaces the listing, and two regenerations list
it twice (marketplace_indexer.py:285, marketplace.py:1131). A second relay mail on one day
breaks the relay log's unique constraint (models/email_campaign.py:16): the second approval of
a day fails after its mail. A mail Resend refuses leaves an approved intro with delivery "failed"
and a log record, so nothing ever mails it again; nothing expires a request after its seven
days (marketplace.py:703); opt-out and purge expire requests without a refund; an award
above the cap is dropped.

*Billing.* A checkout event delivered again is granted again. `subscription.deleted` handled
before or beside `subscription.created` leaves the wrong tier, and an event that finds
nobody is answered 200 and lost. Two requests for a code create two active ones, after
which `scalar_one_or_none` raises on every further request of the owner. `uses_count` loses
updates, so a code is redeemed more often than it allows. `record_conversion` is called by
nothing.

*Accounts.* Credits earned between the archive's read (account_deletion.py:54-69) and the delete
(147-149) are deleted without being archived; the wallet of `Accounts` holds the welcome bonus
only, so `HistoryKept` does not speak of them. A row inserted after `user.deleted` was answered
stays until an administrator
reconciles. A `user.deleted` that read a row before it was relinked deletes the account of
a living identity. `user.created` for a suppressed address makes an account (without
bonus), which provisioning refuses. Overlapping erasures archive the credits twice. A
`user.updated` to an address another row has is answered 500 for ever.

*CSV import.* "completed" does not mean that every chunk was imported, in three ways besides the
batch job's: an import delivered again after a crash before its commit finds the stream read and
completes the upload with no contacts; reads that Redis fails count as empty, so that a
collection or an import may end with messages unread (csv_pipeline.py:464-481, 727-742) and the
upload is completed without them; and a fallback whose write Redis refuses loses its chunk, the
exception being swallowed (csv_pipeline.py:545, 556-568). An import that ended early and dies
after its commit is delivered again, imports the rest, and is paid a second time. A chunk whose
status update fails is written twice; with the same fingerprints the unique index then fails
the whole import, because the import's map of known fingerprints holds no id for rows not yet
flushed, and for the same reason a file that lists one person twice fails. Chunks the batch job
answers with an error are dropped, and the upload is "completed". An upload the watchdog failed
may complete afterwards, and a stale failure may overwrite a completion. A parse that starts
after the watchdog's failure sets "processing" with `completed_at` set, which only a status poll
can end.

*Engagement mails.* The docstring of `send_csv_reminder_d1` says "never re-sent once
delivered": a run commits once, at its end, so one that is cut off after 300 s (about 545
mails at 0.55 s) has mailed and remembers nobody, and repeats from the start at every beat.
`send_csv_reminder_d3` says "at least 48h ago" and its query does not. The budget's list of
transactional mails names `intro_request_notification`; the mails are recorded as
`intro_request_notify` and count. A second request to the same holder on one day sends its
notice, has its row refused, and raises in the except handler as well, after the charge
was committed. "One-time per upload" (email_engagement.py:575): two stuck uploads of one
user on one day need one unique key twice, so the watchdog's pass rolls back, nothing is
failed, and both mails repeat every fifteen minutes (`UploadEnds` is about one upload). The
smart digest respects no budget.

*Outside the models.* The token limiter refills its list when every slot is held
(rate_limiter.py:88), and the watchdog's top-up does the same (155). Nothing claims an
approval before it is dispatched, a crash in between repeats it, two tasks share one git
checkout, and the registry file is locked after it was truncated
(agents/shared/decision_registry.py:55).

## 6. What is left out

* *Token limiter.* Each command is atomic and the slots are advisory; the code states no
  bound it keeps (section 5), and no state of a modelled component depends on it.
* *Approval tasks.* Decisions of internal reporting agents, kept in a JSON file, whose
  effects are git branches and pull requests: outside the product's data.
* *Retention purges and the export.* One pass over one user's or old rows by age, with no
  state read before and used after.
* *`record_conversion`*, the stream janitor, the tests' inline pipeline mode: called by
  nothing, or only by tests, or deleting streams of length 0 (infra_tasks.py:63-66), with
  their consumer groups. Entries are acknowledged and never removed, so such a stream has
  not been written to yet, or holds nothing; and each reader creates its group again, from
  the first entry, before it reads (csv_pipeline.py:458, 686).
* *Matching, scoring, ranking, feed, natural-language search.* Floating-point weights,
  prompts and model output; they read shared rows and write rows of one user.
* *Job ingestion.* HTTP in, upserts by the source's id out.
* *Applications, search requests, profile edits.* Rows of one user that no other actor
  touches.
* *Token and signature verification.* Library calls before any state is read.
* *Agent teams, MCP server, frontend.* They read the repository or the API and keep no
  product state; together they are most of the repository's lines.
* *Of modelled components*: names, hashes, snapshots, texts, audit rows, notifications,
  and arithmetic of dates below the day.

PostgreSQL may also abort one of two transactions that wait for each other, for instance a
purge that locks rows in scan order and an opt-out that locks them by key: the victim is an
`Abort`, `DeleteFails` or `RunFails`. `OptOutCommit` and `Purge` take all their row locks in one
step, so such a deadlock does not arise in the model of the intros; only its outcome does.
