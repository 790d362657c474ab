--------------------------- MODULE CampaignsProofs ---------------------------
(***************************************************************************)
(* Proofs about the engagement mails, for every number of users, uploads,  *)
(* sessions and days, any budget and any bound on failures: the unique key *)
(* of the log, how often a mail that should go out once is sent, how far   *)
(* the weekly budget and an opt-out are overrun.                           *)
(***************************************************************************)
EXTENDS Campaigns, FiniteSetTheorems, TLAPS

TargetsOf(k) == IF k = "upload_failed" THEN Uploads ELSE Users

\* A row names the user its target belongs to.
RowOK(r) == r.ref \in TargetsOf(r.kind) /\ r.user = UserOf(r.ref)

\* A run holds a target once: to look at, mailed, or recorded.
RunOK(r) ==
    /\ r.kind \notin Single
    /\ r.kind = "idle" => r = Idle
    /\ r.todo \subseteq TargetsOf(r.kind) /\ IsFiniteSet(r.rows)
    /\ r.on # None => r.on \in TargetsOf(r.kind) \ r.todo
    /\ r.on # None /\ r.kind = "upload_failed" => r.on \in r.done
    /\ \A q \in r.rows:
        /\ RowOK(q) /\ q.kind = r.kind
        /\ q.ref \notin r.todo /\ q.ref # r.on
        /\ q.kind = "upload_failed" => q.ref \in r.done
    /\ \A p, q \in r.rows: p.ref = q.ref => p = q

\* The unique key, over the committed rows and those each session has flushed.
KeysOK ==
    /\ \A p, q \in logs: Key(p) = Key(q) => p = q
    /\ \A s \in Sess: \A p, q \in sess[s].rows: Key(p) = Key(q) => p = q
    /\ \A s \in Sess: \A q \in sess[s].rows: \A p \in logs: Key(p) # Key(q)
    /\ \A s, o \in Sess: s # o =>
           \A q \in sess[s].rows, p \in sess[o].rows: Key(p) # Key(q)

TypeInv ==
    /\ scene \in Scenes /\ logs \subseteq Row /\ optedOut \subseteq Users
    /\ uploads \in [Uploads -> {"running", "stuck", "failed"}]
    /\ sess \in [Sess -> Run]
    /\ mails \in [OnceMails -> Nat] /\ late \in [Users -> Nat]
    /\ failed \in [Kinds -> Nat] /\ met \subseteq Kinds
    /\ changes \in 0..MaxChanges /\ day \in 0..LastDay
    /\ IsFiniteSet(logs) /\ \A r \in logs: RowOK(r)
    /\ \A s \in Sess: RunOK(sess[s])

\* Mails of one kind to one target: recorded for good, out in a session that has not
\* committed, and still to be decided by a session.
Sent(k, t) == {r \in logs: r.kind = k /\ r.ref = t}
IsOut(s, k, t) ==
    /\ sess[s].kind = k
    /\ sess[s].on = t \/ \E r \in sess[s].rows: r.ref = t
Out(k, t) == {s \in Sess: IsOut(s, k, t)}
Holders(k, t) == {s \in Sess: IsOut(s, k, t) \/ (sess[s].kind = k /\ t \in sess[s].todo)}

\* Every mail is recorded, about to be, or forgotten by a failed run.
MailsInv ==
    \A k \in Kinds, t \in Targets: <<k, t>> \in OnceMails =>
        mails[<<k, t>>] <= failed[k] + Cardinality(Sent(k, t)) + Cardinality(Out(k, t))
MostRuns(k) == IF k \in met THEN Cardinality(Sess) ELSE 1
NudgeInv ==
    \A k \in OneTime:
        /\ k \notin met => \A s, o \in Sess: sess[s].kind = k /\ sess[o].kind = k => s = o
        /\ \A u \in Users:
             Cardinality(Sent(k, u)) + Cardinality(Holders(k, u)) <= MostRuns(k)
NoticeInv ==
    \A x \in Uploads:
        Cardinality(Sent("upload_failed", x)) + Cardinality(Out("upload_failed", x)) <= 1

\* Sessions that loaded a user and have not asked again.
Unaware(u) == {s \in Sess: /\ sess[s].kind \notin {"smart_digest", "upload_failed"}
                           /\ u \in sess[s].todo}
ConsentInv ==
    \A u \in Users: /\ late[u] <= Cardinality(Sess)
                    /\ u \in optedOut => late[u] + Cardinality(Unaware(u)) <= Cardinality(Sess)

\* Mails under the budget of a stretch of dates: recorded for good, and out.
Spent(u, d) == {r \in logs: r.user = u /\ r.kind \in Capped /\ r.day \in (d - Week)..d}
IsSpending(s, u, d) ==
    /\ sess[s].kind \in Capped
    /\ \/ sess[s].on = u /\ day <= d
       \/ \E r \in sess[s].rows: r.user = u /\ r.day \in (d - Week)..d
Spending(u, d) == {s \in Sess: IsSpending(s, u, d)}
BudgetInv ==
    \A u \in Users, d \in 0..LastDay:
        Cardinality(Spent(u, d)) + Cardinality(Spending(u, d))
          <= MaxPerWeek + Cardinality(Sess) - 1

\* The inductive invariant.
IInv == TypeInv /\ KeysOK /\ MailsInv /\ NudgeInv /\ NoticeInv /\ ConsentInv /\ BudgetInv
-----------------------------------------------------------------------------
\* The steps, field by field.

Others(s) == \A o \in Sess \ {s}: sess'[o] = sess[o]

\* A run begins: whom it may have loaded, whatever else its queries leave out.
Opens(s, k, todo) ==
    /\ sess[s].kind = "idle" /\ k \in Kinds \ Single /\ todo \subseteq TargetsOf(k)
    /\ k \in OneTime => todo \cap EverSent(k) = {}
    /\ k \notin {"smart_digest", "upload_failed"} => todo \cap optedOut = {}
    /\ met' = IF k # "upload_failed" /\ \E o \in Sess: sess[o].kind = k
              THEN met \cup {k} ELSE met
    /\ \E run \in Run: /\ sess' = [sess EXCEPT ![s] = run]
                       /\ run.kind = k /\ run.todo = todo
                       /\ run.on = None /\ run.rows = {}
    /\ UNCHANGED <<scene, logs, optedOut, uploads, mails, late, failed, changes, day>>

LEMMA StartsOpens ==
  ASSUME TypeInv, NEW s \in Sess, NEW k \in Kinds \ Single, NEW todo, Starts(s, k, todo),
         k # "upload_failed", todo \subseteq Users,
         k \in OneTime => todo \cap EverSent(k) = {},
         k # "smart_digest" => todo \cap optedOut = {}
  PROVE  Opens(s, k, todo)
  <1> DEFINE run == [Idle EXCEPT !.kind = k, !.todo = todo]
  <1>1. k \in Kinds /\ todo \subseteq Targets BY DEF Targets
  <1>2. /\ run \in Run /\ run.kind = k /\ run.todo = todo
        /\ run.on = None /\ run.rows = {}
    BY <1>1 DEF Run, Idle
  <1>3. sess' = [sess EXCEPT ![s] = run] BY DEF Starts
  <1> HIDE DEF run
  <1> QED BY <1>2, <1>3 DEF Starts, Opens, TargetsOf

LEMMA CampaignOpens ==
  ASSUME TypeInv, NEW s \in Sess, Campaign(s)
  PROVE  \E k, todo: Opens(s, k, todo)
  <1> USE DEF Kinds, OneTime, Daily, Single
  <1>1. CASE CsvReminderD1(s)
    <2>1. PICK who \in SUBSET (Users \ optedOut):
            Starts(s, "csv_reminder_d1", who \ EverSent("csv_reminder_d1"))
      BY <1>1 DEF CsvReminderD1
    <2> QED BY <2>1, StartsOpens
  <1>2. CASE CsvReminderD3(s)
    <2>1. PICK who \in SUBSET (EverSent("csv_reminder_d1") \ optedOut):
            Starts(s, "csv_reminder_d3", who \ EverSent("csv_reminder_d3"))
      BY <1>2 DEF CsvReminderD3
    <2>2. EverSent("csv_reminder_d1") \subseteq Users BY DEF EverSent, TypeInv, Row
    <2> QED BY <2>1, <2>2, StartsOpens
  <1>3. CASE NhSharingReminderD2(s)
    <2>1. PICK who \in SUBSET (Users \ optedOut):
            Starts(s, "nh_sharing_d2", who \ EverSent("nh_sharing_d2"))
      BY <1>3 DEF NhSharingReminderD2
    <2> QED BY <2>1, StartsOpens
  <1>4. CASE FirstSearchNudgeD2(s)
    <2>1. PICK who \in SUBSET (Users \ optedOut):
            Starts(s, "first_search_d2", who \ EverSent("first_search_d2"))
      BY <1>4 DEF FirstSearchNudgeD2
    <2> QED BY <2>1, StartsOpens
  <1>5. CASE IntroPendingReminder(s)
    <2>1. PICK who \in SUBSET (Users \ optedOut):
            Starts(s, "intro_pending_24h", who \ SentToday("intro_pending_24h"))
      BY <1>5 DEF IntroPendingReminder
    <2> QED BY <2>1, StartsOpens
  <1>6. CASE WeeklyDigest(s)
    <2>1. PICK who \in SUBSET (Users \ optedOut):
            Starts(s, "weekly_digest", who \ SentToday("weekly_digest"))
      BY <1>6 DEF WeeklyDigest
    <2> QED BY <2>1, StartsOpens
  <1>7. CASE CreditExpiryNudge(s)
    <2>1. PICK who \in SUBSET (Users \ optedOut):
            Starts(s, "credit_expiry_14d", who \ SentSince("credit_expiry_14d", day - Week))
      BY <1>7 DEF CreditExpiryNudge
    <2> QED BY <2>1, StartsOpens
  <1>8. CASE SmartDigest(s)
    <2>1. PICK who \in SUBSET Users: Starts(s, "smart_digest", who)
      BY <1>8 DEF SmartDigest
    <2> QED BY <2>1, StartsOpens
  <1>9. ASSUME NEW k \in {"reengagement_d30", "reengagement_d90"}, Reengagement(s, k)
        PROVE  \E todo: Opens(s, k, todo)
    <2>1. PICK who \in SUBSET (Users \ optedOut): Starts(s, k, who \ SentToday(k))
      BY <1>9 DEF Reengagement
    <2> QED BY <2>1, StartsOpens
  <1>10. CASE StuckUploadWatchdog(s)
    <2> DEFINE stuck == {x \in Uploads: uploads[x] = "stuck"}
               muted == {x \in stuck: Owner[x] \in optedOut}
               run == [Idle EXCEPT !.kind = "upload_failed", !.todo = stuck, !.muted = muted]
    <2>1. /\ sess[s].kind = "idle" /\ sess' = [sess EXCEPT ![s] = run]
          /\ UNCHANGED <<scene, logs, optedOut, uploads, mails, late, failed, met, changes, day>>
      BY <1>10 DEF StuckUploadWatchdog
    <2>2. stuck \subseteq Uploads /\ muted \subseteq Uploads OBVIOUS
    <2>3. /\ run \in Run /\ run.kind = "upload_failed" /\ run.todo = stuck
          /\ run.on = None /\ run.rows = {}
      BY <2>2 DEF Run, Idle, Targets
    <2> HIDE DEF run
    <2>4. Opens(s, "upload_failed", stuck) BY <2>1, <2>2, <2>3 DEF Opens, TargetsOf
    <2> QED BY <2>4
  <1> QED BY <1>1, <1>2, <1>3, <1>4, <1>5, <1>6, <1>7, <1>8, <1>9, <1>10 DEF Campaign

LEMMA OpensFields ==
  ASSUME TypeInv, NEW s \in Sess, NEW k, NEW todo, Opens(s, k, todo)
  PROVE  /\ sess' \in [Sess -> Run] /\ Others(s)
         /\ sess[s] = Idle
         /\ sess'[s].kind = k /\ sess'[s].todo = todo
         /\ sess'[s].on = None /\ sess'[s].rows = {}
  <1>1. PICK run \in Run: /\ sess' = [sess EXCEPT ![s] = run]
                          /\ run.kind = k /\ run.todo = todo
                          /\ run.on = None /\ run.rows = {}
    BY DEF Opens
  <1>2. sess[s] = Idle BY DEF Opens, TypeInv, RunOK
  <1> QED BY <1>1, <1>2 DEF TypeInv, Others

LEMMA PassFields ==
  ASSUME TypeInv, NEW s \in Sess, NEW t \in Targets, PassOver(s, t)
  PROVE  /\ sess' \in [Sess -> Run] /\ Others(s)
         /\ sess'[s].kind = sess[s].kind /\ sess'[s].todo = sess[s].todo \ {t}
         /\ sess'[s].on = sess[s].on /\ sess'[s].rows = sess[s].rows
         /\ sess[s].kind # "idle" /\ sess[s].done \subseteq sess'[s].done
  BY DEF PassOver, Takes, TypeInv, Run, Others

LEMMA MailFields ==
  ASSUME TypeInv, NEW s \in Sess, NEW t \in Targets, Mail(s, t)
  PROVE  /\ sess' \in [Sess -> Run] /\ Others(s)
         /\ sess'[s].kind = sess[s].kind /\ sess'[s].todo = sess[s].todo \ {t}
         /\ sess'[s].on = t /\ sess'[s].rows = sess[s].rows
         /\ sess[s].done \subseteq sess'[s].done /\ (t \in Uploads => t \in sess'[s].done)
         /\ sess[s].kind # "idle" /\ sess[s].on = None /\ t \in sess[s].todo
         /\ t \in TargetsOf(sess[s].kind) /\ t # None
  <1>1. t # None BY CampaignsAssumption DEF Targets
  <1>2. t \in TargetsOf(sess[s].kind) BY DEF Mail, Takes, TypeInv, RunOK
  <1> QED BY <1>1, <1>2 DEF Mail, Takes, TypeInv, Run, Others

LEMMA RecordFields ==
  ASSUME TypeInv, NEW s \in Sess, RecordSend(s)
  PROVE  /\ sess' \in [Sess -> Run] /\ Others(s)
         /\ sess'[s].kind = sess[s].kind /\ sess'[s].todo = sess[s].todo
         /\ sess'[s].on = None /\ sess'[s].rows = sess[s].rows \cup {NewRow(s)}
         /\ sess'[s].done = sess[s].done
         /\ sess[s].kind \in Kinds /\ sess[s].on \in TargetsOf(sess[s].kind)
         /\ NewRow(s) \in Row /\ RowOK(NewRow(s))
         /\ NewRow(s).kind = sess[s].kind /\ NewRow(s).ref = sess[s].on
         /\ NewRow(s).user = UserOf(sess[s].on) /\ NewRow(s).day = day
  <1>1. sess[s].on # None BY DEF RecordSend
  <1>2. sess[s].on \in TargetsOf(sess[s].kind) /\ sess[s].kind # "idle"
    BY <1>1 DEF TypeInv, RunOK, Idle
  <1>3. sess[s] \in Run BY DEF TypeInv
  <1>4. sess[s].kind \in Kinds BY <1>2, <1>3 DEF Run
  <1>5. UserOf(sess[s].on) \in Users /\ sess[s].on \in Targets
    BY <1>2, CampaignsAssumption DEF UserOf, TargetsOf, Targets
  <1>6. NewRow(s) \in Row /\ RowOK(NewRow(s))
    BY <1>2, <1>4, <1>5 DEF NewRow, Row, RowOK, TypeInv
  <1>7. /\ NewRow(s).kind = sess[s].kind /\ NewRow(s).ref = sess[s].on
        /\ NewRow(s).user = UserOf(sess[s].on) /\ NewRow(s).day = day
    BY DEF NewRow
  <1>8. sess' = [sess EXCEPT ![s].on = None, ![s].rows = @ \cup {NewRow(s)}]
    BY DEF RecordSend
  <1> HIDE DEF NewRow
  <1>9. /\ sess' \in [Sess -> Run] /\ Others(s)
        /\ sess'[s].kind = sess[s].kind /\ sess'[s].todo = sess[s].todo
        /\ sess'[s].on = None /\ sess'[s].rows = sess[s].rows \cup {NewRow(s)}
        /\ sess'[s].done = sess[s].done
    BY <1>8, <1>6 DEF TypeInv, Run, Others
  <1> QED BY <1>2, <1>4, <1>6, <1>7, <1>9

LEMMA IdleFields ==
  ASSUME TypeInv, NEW s \in Sess, sess' = [sess EXCEPT ![s] = Idle]
  PROVE  /\ sess' \in [Sess -> Run] /\ Others(s) /\ sess'[s] = Idle
         /\ Idle.kind = "idle" /\ Idle.todo = {} /\ Idle.on = None /\ Idle.rows = {}
  <1>1. Idle \in Run BY DEF Idle, Run
  <1> QED BY <1>1 DEF TypeInv, Others, Idle

Fails(s) == sess[s].kind # "idle" /\ RollBack(s)
SessionStep(s) ==
    \/ \E k, todo: Opens(s, k, todo)
    \/ \E t \in Targets: PassOver(s, t) \/ Mail(s, t)
    \/ RecordSend(s) \/ Fails(s) \/ Commit(s)

LEMMA StepCases ==
  ASSUME TypeInv, [Next]_vars
  PROVE  (\E s \in Sess: SessionStep(s)) \/ Environment \/ UNCHANGED vars
  <1>1. ASSUME NEW s \in Sess, Campaign(s) PROVE SessionStep(s)
    BY <1>1, CampaignOpens DEF SessionStep
  <1>2. ASSUME NEW s \in Sess, Step(s) PROVE SessionStep(s)
    <2>1. CASE RecordClashes(s)
      <3>1. sess[s].kind # "idle" BY <2>1 DEF RecordClashes, TypeInv, RunOK, Idle
      <3> QED BY <2>1, <3>1 DEF RecordClashes, Fails, SessionStep
    <2> QED BY <1>2, <2>1 DEF Step, SessionStep
  <1>3. ASSUME NEW s \in Sess, RunFails(s) PROVE SessionStep(s)
    BY <1>3 DEF RunFails, Fails, SessionStep
  <1> QED BY <1>1, <1>2, <1>3 DEF Next
-----------------------------------------------------------------------------
\* Types, and what a run holds.

LEMMA TypeInit == Init => TypeInv
  <1> SUFFICES ASSUME Init PROVE TypeInv OBVIOUS
  <1>1. Idle \in Run BY DEF Idle, Run
  <1>2. RunOK(Idle) BY FS_EmptySet DEF RunOK, Idle, Single
  <1>3. IsFiniteSet({}) BY FS_EmptySet
  <1>4. day \in 0..LastDay /\ changes \in 0..MaxChanges
    BY CampaignsAssumption DEF Init
  <1> QED BY <1>1, <1>2, <1>3, <1>4 DEF Init, TypeInv

LEMMA TypeStep == TypeInv /\ [Next]_vars => TypeInv'
  <1> SUFFICES ASSUME TypeInv, [Next]_vars PROVE TypeInv' OBVIOUS
  <1>1. ASSUME NEW s \in Sess, sess' \in [Sess -> Run], Others(s), RunOK(sess'[s]),
               UNCHANGED <<scene, logs, optedOut, changes, day>>,
               uploads' = uploads,
               mails' \in [OnceMails -> Nat], late' \in [Users -> Nat],
               failed' \in [Kinds -> Nat], met' \subseteq Kinds
        PROVE  TypeInv'
    BY <1>1 DEF TypeInv, Others
  <1>2. ASSUME NEW s \in Sess, NEW k, NEW todo, Opens(s, k, todo) PROVE TypeInv'
    <2>1. k # "idle" /\ k \notin Single /\ todo \subseteq TargetsOf(k)
      BY <1>2 DEF Opens, Kinds, OneTime, Daily, Single
    <2>3. RunOK(sess'[s]) BY <1>2, <2>1, OpensFields, FS_EmptySet DEF RunOK
    <2>2. met' \subseteq Kinds BY <1>2 DEF Opens, TypeInv
    <2> QED BY <1>1, <1>2, <2>2, <2>3, OpensFields DEF Opens, TypeInv
  <1>3. ASSUME NEW s \in Sess, NEW t \in Targets, PassOver(s, t) PROVE TypeInv'
    <2>1. RunOK(sess'[s])
      <3>1. RunOK(sess[s]) BY DEF TypeInv
      <3> QED BY <1>3, <3>1, PassFields DEF RunOK
    <2> QED BY <1>1, <1>3, <2>1, PassFields DEF PassOver, TypeInv
  <1>4. ASSUME NEW s \in Sess, NEW t \in Targets, Mail(s, t) PROVE TypeInv'
    <2>1. RunOK(sess'[s])
      <3>1. RunOK(sess[s]) BY DEF TypeInv
      <3>2. sess[s].kind = "upload_failed" => t \in Uploads
        BY <1>4, MailFields DEF TargetsOf
      <3> QED BY <1>4, <3>1, <3>2, MailFields DEF RunOK
    <2>2. mails' \in [OnceMails -> Nat] BY <1>4 DEF Mail, TypeInv
    <2>3. late' \in [Users -> Nat]  BY <1>4 DEF Mail, TypeInv
    <2> QED BY <1>1, <1>4, <2>1, <2>2, <2>3, MailFields DEF Mail, TypeInv
  <1>5. ASSUME NEW s \in Sess, RecordSend(s) PROVE TypeInv'
    <2>1. RunOK(sess'[s])
      <3>1. RunOK(sess[s]) BY DEF TypeInv
      <3>2. sess[s].on # None BY <1>5 DEF RecordSend
      <3>3. sess[s].on \notin sess[s].todo /\ None \notin Targets
        BY <3>1, <3>2, CampaignsAssumption DEF RunOK, Targets
      <3>4. IsFiniteSet(sess'[s].rows) BY <1>5, <3>1, RecordFields, FS_AddElement DEF RunOK
      <3>5. \A q \in sess[s].rows: q.ref # None BY <3>3 DEF TypeInv, Run, Row
      <3>6. sess[s].on # None /\ (sess[s].kind = "upload_failed" => sess[s].on \in sess[s].done)
        BY <3>1, <3>2 DEF RunOK
      <3>7. sess'[s].kind # "idle" BY <3>1, <3>2, <1>5, RecordFields DEF RunOK, Idle
      <3> QED BY <1>5, <3>1, <3>3, <3>4, <3>5, <3>6, <3>7, RecordFields DEF RunOK
    <2> QED BY <1>1, <1>5, <2>1, RecordFields DEF RecordSend, TypeInv
  <1>6. RunOK(Idle) BY FS_EmptySet DEF RunOK, Idle, Single
  <1>7. ASSUME NEW s \in Sess, Fails(s) PROVE TypeInv'
    <2>1. sess' = [sess EXCEPT ![s] = Idle] BY <1>7 DEF Fails, RollBack
    <2>2. failed' \in [Kinds -> Nat] BY <1>7 DEF Fails, RollBack, TypeInv, Run
    <2>3. UNCHANGED <<scene, logs, optedOut, uploads, mails, late, met, changes, day>>
      BY <1>7 DEF Fails, RollBack
    <2> QED BY <1>1, <1>6, <2>1, <2>2, <2>3, IdleFields DEF TypeInv
  <1>8. ASSUME NEW s \in Sess, Commit(s) PROVE TypeInv'
    <2>1. sess' = [sess EXCEPT ![s] = Idle] BY <1>8 DEF Commit
    <2>2. sess[s].rows \subseteq Row /\ \A r \in sess[s].rows: RowOK(r)
      BY DEF TypeInv, Run, RunOK
    <2>3. IsFiniteSet(sess[s].rows) BY DEF TypeInv, RunOK
    <2>4. IsFiniteSet(logs') BY <1>8, <2>3, FS_Union DEF Commit, TypeInv
    <2>5. uploads' \in [Uploads -> {"running", "stuck", "failed"}]
      BY <1>8 DEF Commit, TypeInv
    <2> QED BY <1>6, <1>8, <2>1, <2>2, <2>4, <2>5, IdleFields DEF Commit, TypeInv, Others
  <1>9. CASE Environment
    <2>1. ASSUME NEW u \in Users, OptOut(u) \/ OptIn(u) PROVE TypeInv'
      <3>1. changes' \in 0..MaxChanges
        BY <2>1, CampaignsAssumption DEF OptOut, OptIn, TypeInv
      <3> QED BY <2>1, <3>1 DEF OptOut, OptIn, TypeInv
    <2>2. ASSUME NEW u \in Users, NEW k \in Single, SendOne(u, k) PROVE TypeInv'
      <3> DEFINE row == [user |-> u, kind |-> k, day |-> day, ref |-> u]
      <3>1. row \in Row /\ RowOK(row)
        BY CampaignsAssumption DEF Row, RowOK, Kinds, Targets, TargetsOf, UserOf, TypeInv, Single
      <3>2. logs' = logs \cup {row} BY <2>2 DEF SendOne
      <3> HIDE DEF row
      <3>3. IsFiniteSet(logs') BY <3>2, FS_AddElement DEF TypeInv
      <3> QED BY <2>2, <3>1, <3>2, <3>3 DEF SendOne, TypeInv
    <2>3. ASSUME NEW x \in Uploads, UploadSticks(x) PROVE TypeInv'
      BY <2>3 DEF UploadSticks, TypeInv
    <2>4. CASE Midnight
      <3>1. day' \in 0..LastDay BY <2>4, CampaignsAssumption DEF Midnight, TypeInv
      <3> QED BY <2>4, <3>1 DEF Midnight, TypeInv
    <2> QED BY <1>9, <2>1, <2>2, <2>3, <2>4 DEF Environment
  <1>10. CASE UNCHANGED vars BY <1>10 DEF vars, TypeInv
  <1> QED BY <1>2, <1>3, <1>4, <1>5, <1>7, <1>8, <1>9, <1>10, StepCases DEF SessionStep
-----------------------------------------------------------------------------
\* The unique key of email_campaign_logs.

\* Steps that flush no row.
NoNewRows == /\ logs' = logs
             /\ \A s \in Sess: sess'[s].rows \subseteq sess[s].rows

LEMMA QuietSteps ==
  ASSUME TypeInv, [Next]_vars
  PROVE  \/ NoNewRows
         \/ \E s \in Sess: RecordSend(s) \/ Commit(s)
         \/ \E u \in Users, k \in Single: SendOne(u, k)
  <1>1. ASSUME NEW s \in Sess, \A r \in sess'[s].rows: r \in sess[s].rows,
               Others(s), logs' = logs
        PROVE  NoNewRows
    BY <1>1 DEF NoNewRows, Others
  <1>2. ASSUME NEW s \in Sess, NEW k, NEW todo, Opens(s, k, todo) PROVE NoNewRows
    <2>1. logs' = logs BY <1>2 DEF Opens
    <2>2. sess'[s].rows = {} /\ Others(s) BY <1>2, OpensFields
    <2> QED BY <1>1, <2>1, <2>2
  <1>3. ASSUME NEW s \in Sess, NEW t \in Targets, PassOver(s, t) PROVE NoNewRows
    BY <1>1, <1>3, PassFields DEF PassOver
  <1>4. ASSUME NEW s \in Sess, NEW t \in Targets, Mail(s, t) PROVE NoNewRows
    BY <1>1, <1>4, MailFields DEF Mail
  <1>5. ASSUME NEW s \in Sess, Fails(s) PROVE NoNewRows
    <2>1. sess' = [sess EXCEPT ![s] = Idle] /\ logs' = logs BY <1>5 DEF Fails, RollBack
    <2>2. sess'[s].rows = {} /\ Others(s) BY <2>1, IdleFields
    <2> QED BY <1>1, <2>1, <2>2
  <1>6. CASE Environment
    BY <1>6 DEF Environment, NoNewRows, OptOut, OptIn, UploadSticks, Midnight
  <1>7. CASE UNCHANGED vars BY <1>7 DEF vars, NoNewRows
  <1> QED BY <1>2, <1>3, <1>4, <1>5, <1>6, <1>7, StepCases DEF SessionStep

LEMMA KeysStep == TypeInv /\ KeysOK /\ [Next]_vars => KeysOK'
  <1> SUFFICES ASSUME TypeInv, KeysOK, [Next]_vars PROVE KeysOK' OBVIOUS
  <1>1. CASE NoNewRows BY <1>1 DEF NoNewRows, KeysOK, Key
  <1>2. ASSUME NEW s \in Sess, RecordSend(s) PROVE KeysOK'
    <2> DEFINE new == NewRow(s)
    <2>1. /\ \A q \in logs \cup sess[s].rows: Key(q) # Key(new)
          /\ \A o \in Sess \ {s}: \A q \in sess[o].rows: Key(q) # Key(new)
          /\ logs' = logs
      BY <1>2 DEF RecordSend, Awaits, Taken, Visible
    <2>2. sess'[s].rows = sess[s].rows \cup {new} /\ Others(s)
      BY <1>2, RecordFields
    <2> HIDE DEF new
    <2> QED BY <2>1, <2>2 DEF KeysOK, Key, Others
  <1>3. ASSUME NEW s \in Sess, Commit(s) PROVE KeysOK'
    <2>1. sess' = [sess EXCEPT ![s] = Idle] /\ logs' = logs \cup sess[s].rows
      BY <1>3 DEF Commit
    <2>2. sess'[s].rows = {} /\ Others(s) BY <2>1, IdleFields
    <2> QED BY <2>1, <2>2 DEF KeysOK, Key, Others
  <1>4. ASSUME NEW u \in Users, NEW k \in Single, SendOne(u, k) PROVE KeysOK'
    <2> DEFINE new == [user |-> u, kind |-> k, day |-> day, ref |-> u]
    <2>1. logs' = logs \cup {new} /\ sess' = sess /\ \A r \in logs: Key(r) # Key(new)
      BY <1>4 DEF SendOne, Key
    <2>2. \A s \in Sess: \A q \in sess[s].rows: q.kind # new.kind
      BY DEF TypeInv, RunOK
    <2>3. \A s \in Sess: \A q \in sess[s].rows: Key(q) # Key(new)
      BY <2>2 DEF Key
    <2> HIDE DEF new
    <2> QED BY <2>1, <2>3 DEF KeysOK, Key
  <1> QED BY <1>1, <1>2, <1>3, <1>4, QuietSteps
-----------------------------------------------------------------------------
\* Counting sessions.

LEMMA SessSet ==
  ASSUME NEW X \in SUBSET Sess
  PROVE  /\ IsFiniteSet(X) /\ Cardinality(X) \in Nat /\ Cardinality(X) <= Cardinality(Sess)
         /\ Cardinality(Sess) \in Nat /\ Cardinality(Sess) >= 1
  <1>1. IsFiniteSet(Sess) /\ Sess # {} BY CampaignsAssumption
  <1>2. Cardinality(Sess) \in Nat /\ Cardinality(Sess) # 0
    BY <1>1, FS_CardinalityType, FS_EmptySet
  <1>3. IsFiniteSet(X) /\ Cardinality(X) <= Cardinality(Sess) BY <1>1, FS_Subset
  <1> QED BY <1>2, <1>3, FS_CardinalityType

LEMMA Shrinks ==
  ASSUME NEW X \in SUBSET Sess, NEW Y \in SUBSET X
  PROVE  Cardinality(Y) <= Cardinality(X)
  BY SessSet, FS_Subset

LEMMA Leaves ==
  ASSUME NEW X \in SUBSET Sess, NEW s \in X, NEW Y \in SUBSET (X \ {s})
  PROVE  Cardinality(Y) <= Cardinality(X) - 1
  <1>1. IsFiniteSet(X \ {s}) /\ Cardinality(X \ {s}) = Cardinality(X) - 1
    BY SessSet, FS_RemoveElement
  <1>2. Cardinality(Y) <= Cardinality(X \ {s}) BY <1>1, FS_Subset
  <1> QED BY <1>1, <1>2
-----------------------------------------------------------------------------
\* The opt-out.

ConsentOK(u) == /\ late[u] <= Cardinality(Sess)
                /\ u \in optedOut => late[u] + Cardinality(Unaware(u)) <= Cardinality(Sess)

LEMMA UnawareSet == ASSUME NEW u PROVE Unaware(u) \in SUBSET Sess /\ Unaware(u)' \in SUBSET Sess
  BY DEF Unaware

\* Steps in which nobody is mailed after an opt-out, and no such user is loaded.
LEMMA ConsentQuiet ==
  ASSUME TypeInv, ConsentInv, NEW u \in Users, late' = late, u \in optedOut' => u \in optedOut,
         u \in optedOut => Unaware(u)' \subseteq Unaware(u)
  PROVE  ConsentOK(u)'
  <1>1. ConsentOK(u) BY DEF ConsentInv, ConsentOK
  <1>2. late[u] \in Nat /\ late'[u] = late[u] BY DEF TypeInv
  <1>3. CASE u \in optedOut
    <2>1. Cardinality(Unaware(u)') <= Cardinality(Unaware(u)) BY <1>3, UnawareSet, Shrinks
    <2>2. Cardinality(Unaware(u)') \in Nat /\ Cardinality(Unaware(u)) \in Nat
      BY UnawareSet, SessSet
    <2>3. Cardinality(Sess) \in Nat BY SessSet
    <2> QED BY <1>1, <1>2, <1>3, <2>1, <2>2, <2>3 DEF ConsentOK
  <1>4. CASE u \notin optedOut BY <1>1, <1>2, <1>4 DEF ConsentOK
  <1> QED BY <1>3, <1>4

LEMMA ConsentStep == TypeInv /\ ConsentInv /\ [Next]_vars => ConsentInv'
  <1> SUFFICES ASSUME TypeInv, ConsentInv, [Next]_vars, NEW u \in Users PROVE ConsentOK(u)'
    BY DEF ConsentInv, ConsentOK
  <1>t. \A s \in Sess: sess[s].todo \subseteq TargetsOf(sess[s].kind)
    BY DEF TypeInv, RunOK
  <1>1. ASSUME NEW s \in Sess, NEW k, NEW todo, Opens(s, k, todo) PROVE ConsentOK(u)'
    <2>1. /\ late' = late /\ optedOut' = optedOut
          /\ k \notin {"smart_digest", "upload_failed"} => todo \cap optedOut = {}
      BY <1>1 DEF Opens
    <2>2. Others(s) /\ sess'[s].kind = k /\ sess'[s].todo = todo BY <1>1, OpensFields
    <2>3. u \in optedOut => Unaware(u)' \subseteq Unaware(u)
      BY <2>1, <2>2 DEF Unaware, Others
    <2> QED BY <2>1, <2>3, ConsentQuiet
  <1>2. ASSUME NEW s \in Sess, NEW t \in Targets, PassOver(s, t) PROVE ConsentOK(u)'
    <2>1. late' = late /\ optedOut' = optedOut BY <1>2 DEF PassOver
    <2>2. /\ Others(s) /\ sess'[s].kind = sess[s].kind
          /\ sess'[s].todo = sess[s].todo \ {t}
      BY <1>2, PassFields
    <2>3. Unaware(u)' \subseteq Unaware(u) BY <2>2 DEF Unaware, Others
    <2> QED BY <2>1, <2>3, ConsentQuiet
  <1>3. ASSUME NEW s \in Sess, NEW t \in Targets, Mail(s, t) PROVE ConsentOK(u)'
    <2>1. optedOut' = optedOut BY <1>3 DEF Mail
    <2>2. /\ Others(s) /\ sess'[s].kind = sess[s].kind
          /\ sess'[s].todo = sess[s].todo \ {t} /\ t \in sess[s].todo
          /\ t \in TargetsOf(sess[s].kind)
      BY <1>3, MailFields
    <2>3. Unaware(u)' \subseteq Unaware(u) BY <2>2 DEF Unaware, Others
    <2>4. late \in [Users -> Nat] BY DEF TypeInv
    <2>5. CASE late'[u] = late[u]
      <3>1. ConsentOK(u) BY DEF ConsentInv, ConsentOK
      <3>2. Cardinality(Unaware(u)') <= Cardinality(Unaware(u)) BY <2>3, UnawareSet, Shrinks
      <3>3. /\ Cardinality(Unaware(u)') \in Nat /\ Cardinality(Unaware(u)) \in Nat
            /\ Cardinality(Sess) \in Nat
        BY UnawareSet, SessSet
      <3> QED BY <2>1, <2>4, <2>5, <3>1, <3>2, <3>3 DEF ConsentOK
    <2>6. CASE late'[u] # late[u]
      <3>1. /\ sess[s].kind # "upload_failed" /\ UserOf(t) = u /\ u \in optedOut
            /\ late'[u] = late[u] + 1
        BY <1>3, <2>4, <2>6 DEF Mail
      <3>2. t = u
        BY <2>2, <3>1, CampaignsAssumption DEF TargetsOf, UserOf
      <3>3. sess[s].kind # "smart_digest" BY <1>3, <3>1, <3>2 DEF Mail, Skips
      <3>4. s \in Unaware(u) BY <2>2, <3>1, <3>2, <3>3 DEF Unaware
      <3>5. Unaware(u)' \subseteq Unaware(u) \ {s}
        BY <2>2, <2>3, <3>2 DEF Unaware
      <3>6. Cardinality(Unaware(u)') <= Cardinality(Unaware(u)) - 1
        BY <3>4, <3>5, UnawareSet, Leaves
      <3>7. /\ Cardinality(Unaware(u)') \in Nat /\ Cardinality(Unaware(u)) \in Nat
            /\ Cardinality(Sess) \in Nat
        BY UnawareSet, SessSet
      <3>8. late[u] + Cardinality(Unaware(u)) <= Cardinality(Sess)
        BY <3>1 DEF ConsentInv
      <3> QED BY <2>4, <3>1, <3>6, <3>7, <3>8 DEF ConsentOK
    <2> QED BY <2>5, <2>6
  <1>4. ASSUME NEW s \in Sess, RecordSend(s) PROVE ConsentOK(u)'
    <2>1. late' = late /\ optedOut' = optedOut BY <1>4 DEF RecordSend
    <2>2. Others(s) /\ sess'[s].kind = sess[s].kind /\ sess'[s].todo = sess[s].todo
      BY <1>4, RecordFields
    <2>3. Unaware(u)' \subseteq Unaware(u) BY <2>2 DEF Unaware, Others
    <2> QED BY <2>1, <2>3, ConsentQuiet
  <1>5. ASSUME NEW s \in Sess, Fails(s) \/ Commit(s) PROVE ConsentOK(u)'
    <2>1. late' = late /\ optedOut' = optedOut /\ sess' = [sess EXCEPT ![s] = Idle]
      BY <1>5 DEF Fails, RollBack, Commit
    <2>2. Others(s) /\ sess'[s].todo = {} BY <2>1, IdleFields
    <2>3. Unaware(u)' \subseteq Unaware(u) BY <2>2 DEF Unaware, Others
    <2> QED BY <2>1, <2>3, ConsentQuiet
  <1>6. CASE Environment
    <2>1. sess' = sess
      BY <1>6 DEF Environment, OptOut, OptIn, SendOne, UploadSticks, Midnight
    <2>2. Unaware(u)' = Unaware(u) BY <2>1 DEF Unaware
    <2>3. ASSUME NEW v \in Users, OptOut(v) PROVE ConsentOK(u)'
      <3>1. /\ late' = [late EXCEPT ![v] = 0] /\ optedOut' = optedOut \cup {v}
            /\ late \in [Users -> Nat]
        BY <2>3 DEF OptOut, TypeInv
      <3>2. ConsentOK(u) BY DEF ConsentInv, ConsentOK
      <3>3. /\ Cardinality(Unaware(u)) \in Nat /\ Cardinality(Sess) \in Nat
            /\ Cardinality(Unaware(u)) <= Cardinality(Sess)
        BY UnawareSet, SessSet
      <3>4. CASE u = v
        <4>1. late'[u] = 0 BY <3>1, <3>4
        <4> QED BY <2>2, <3>3, <4>1 DEF ConsentOK
      <3>5. CASE u # v
        <4>1. late'[u] = late[u] BY <3>1, <3>5
        <4> QED BY <2>2, <3>1, <3>2, <3>5, <4>1 DEF ConsentOK
      <3> QED BY <3>4, <3>5
    <2>4. ASSUME ~\E v \in Users: OptOut(v) PROVE ConsentOK(u)'
      <3>1. late' = late /\ (u \in optedOut' => u \in optedOut)
        BY <1>6, <2>4 DEF Environment, OptIn, SendOne, UploadSticks, Midnight
      <3> QED BY <2>2, <3>1, ConsentQuiet
    <2> QED BY <2>3, <2>4
  <1>7. CASE UNCHANGED vars
    <2>1. Unaware(u)' = Unaware(u) BY <1>7 DEF vars, Unaware
    <2> QED BY <1>7, <2>1, ConsentQuiet DEF vars
  <1> QED BY <1>1, <1>2, <1>3, <1>4, <1>5, <1>6, <1>7, StepCases DEF SessionStep
-----------------------------------------------------------------------------
\* Mails of one kind to one target: what each step does to Sent and Out.

LEMMA SentSet ==
  ASSUME TypeInv, NEW k, NEW t
  PROVE  IsFiniteSet(Sent(k, t)) /\ Cardinality(Sent(k, t)) \in Nat
  <1>1. Sent(k, t) \in SUBSET logs /\ IsFiniteSet(logs) BY DEF Sent, TypeInv
  <1> QED BY <1>1, FS_Subset, FS_CardinalityType

LEMMA OutSet ==
  ASSUME NEW k, NEW t
  PROVE  /\ Out(k, t) \in SUBSET Sess /\ Out(k, t)' \in SUBSET Sess
         /\ Cardinality(Out(k, t)) \in Nat /\ Cardinality(Out(k, t)') \in Nat
  <1>1. Out(k, t) \in SUBSET Sess /\ Out(k, t)' \in SUBSET Sess BY DEF Out
  <1> QED BY <1>1, SessSet

\* A run that commits hands what it has out over to the log, row by row.
LEMMA CommitHandsOver ==
  ASSUME TypeInv, KeysOK, NEW s \in Sess, Commit(s), NEW k \in Kinds, NEW t \in Targets
  PROVE  \/ /\ s \in Out(k, t) /\ Out(k, t)' = Out(k, t) \ {s}
            /\ Cardinality(Sent(k, t)') = Cardinality(Sent(k, t)) + 1
         \/ /\ s \notin Out(k, t) /\ Out(k, t)' = Out(k, t)
            /\ Sent(k, t)' = Sent(k, t)
  <1>1. /\ sess' = [sess EXCEPT ![s] = Idle] /\ logs' = logs \cup sess[s].rows
        /\ sess[s].on = None
    BY DEF Commit
  <1>2. /\ Others(s) /\ sess'[s].on = None /\ sess'[s].rows = {}
    BY <1>1, IdleFields
  <1>3. t # None BY CampaignsAssumption DEF Targets
  <1>4. Out(k, t)' = Out(k, t) \ {s}
    <2>1. ~IsOut(s, k, t)' BY <1>2, <1>3 DEF IsOut
    <2>2. \A o \in Sess \ {s}: IsOut(o, k, t)' <=> IsOut(o, k, t) BY <1>2 DEF Others, IsOut
    <2> QED BY <2>1, <2>2 DEF Out
  <1>5. Sent(k, t)' = Sent(k, t) \cup {r \in sess[s].rows: r.kind = k /\ r.ref = t}
    BY <1>1 DEF Sent
  <1>6. RunOK(sess[s]) BY DEF TypeInv
  <1>7. CASE s \in Out(k, t)
    <2>1. PICK q \in sess[s].rows: q.ref = t BY <1>1, <1>3, <1>7 DEF Out, IsOut
    <2>2. q.kind = k BY <1>6, <1>7, <2>1 DEF RunOK, Out, IsOut
    <2>3. {r \in sess[s].rows: r.kind = k /\ r.ref = t} = {q}
      BY <1>6, <2>1, <2>2 DEF RunOK
    <2>4. q \notin logs BY <2>1 DEF KeysOK
    <2>5. q \notin Sent(k, t) BY <2>4 DEF Sent
    <2>6. Cardinality(Sent(k, t) \cup {q}) = Cardinality(Sent(k, t)) + 1
      BY <2>5, SentSet, FS_AddElement
    <2> QED BY <1>4, <1>5, <1>7, <2>3, <2>6
  <1>8. CASE s \notin Out(k, t)
    <2>1. {r \in sess[s].rows: r.kind = k /\ r.ref = t} = {}
      BY <1>6, <1>8 DEF RunOK, Out, IsOut
    <2> QED BY <1>4, <1>5, <1>8, <2>1
  <1> QED BY <1>7, <1>8

LEMMA OutGrows ==
  ASSUME TypeInv, NEW s \in Sess, NEW t \in Targets, Mail(s, t), NEW k \in Kinds,
         NEW v \in Targets
  PROVE  /\ Sent(k, v)' = Sent(k, v)
         /\ k = sess[s].kind /\ v = t =>
              s \notin Out(k, v) /\ Out(k, v)' = Out(k, v) \cup {s}
         /\ ~(k = sess[s].kind /\ v = t) => Out(k, v)' = Out(k, v)
  <1>1. logs' = logs BY DEF Mail
  <1>2. /\ Others(s) /\ sess'[s].kind = sess[s].kind /\ sess'[s].on = t
        /\ sess'[s].rows = sess[s].rows /\ sess[s].on = None /\ t \in sess[s].todo
    BY MailFields
  <1>3. v # None BY CampaignsAssumption DEF Targets
  <1>4. \A q \in sess[s].rows: q.ref # t BY <1>2 DEF TypeInv, RunOK
  <1>5. \A o \in Sess \ {s}: IsOut(o, k, v)' <=> IsOut(o, k, v) BY <1>2 DEF Others, IsOut
  <1>6. CASE k = sess[s].kind /\ v = t
    <2>1. ~IsOut(s, k, v) /\ IsOut(s, k, v)' BY <1>2, <1>3, <1>4, <1>6 DEF IsOut
    <2> QED BY <1>1, <1>5, <1>6, <2>1 DEF Out, Sent
  <1>7. CASE ~(k = sess[s].kind /\ v = t)
    <2>1. IsOut(s, k, v)' <=> IsOut(s, k, v) BY <1>2, <1>3, <1>7 DEF IsOut
    <2> QED BY <1>1, <1>5, <1>7, <2>1 DEF Out, Sent
  <1> QED BY <1>6, <1>7

\* A failed run forgets what it has out.
LEMMA OutFails ==
  ASSUME TypeInv, NEW s \in Sess, Fails(s), NEW k \in Kinds, NEW t \in Targets
  PROVE  Sent(k, t)' = Sent(k, t) /\ Out(k, t)' = Out(k, t) \ {s}
  <1>1. sess' = [sess EXCEPT ![s] = Idle] /\ logs' = logs BY DEF Fails, RollBack
  <1>2. Others(s) /\ sess'[s].on = None /\ sess'[s].rows = {} BY <1>1, IdleFields
  <1>3. ~IsOut(s, k, t)' BY <1>2, CampaignsAssumption DEF IsOut, Targets
  <1>4. \A o \in Sess \ {s}: IsOut(o, k, t)' <=> IsOut(o, k, t) BY <1>2 DEF Others, IsOut
  <1> QED BY <1>1, <1>3, <1>4 DEF Out, Sent

\* The other steps leave both alone; a single mail has a kind of its own.
LEMMA OutQuiet ==
  ASSUME TypeInv, [Next]_vars,
         ~\E s \in Sess: Commit(s) \/ Fails(s) \/ \E t \in Targets: Mail(s, t),
         NEW k \in Kinds \ Single, NEW t \in Targets
  PROVE  Sent(k, t)' = Sent(k, t) /\ Out(k, t)' = Out(k, t) /\ mails' = mails /\ failed' = failed
  <1>n. t # None BY CampaignsAssumption DEF Targets
  <1>1. ASSUME NEW s \in Sess, Others(s), logs' = logs, IsOut(s, k, t)' <=> IsOut(s, k, t),
               mails' = mails, failed' = failed
        PROVE  /\ Sent(k, t)' = Sent(k, t) /\ Out(k, t)' = Out(k, t)
               /\ mails' = mails /\ failed' = failed
    <2>1. \A o \in Sess \ {s}: IsOut(o, k, t)' <=> IsOut(o, k, t)
      BY <1>1 DEF Others, IsOut
    <2> QED BY <1>1, <2>1 DEF Sent, Out
  <1>2. ASSUME NEW s \in Sess, NEW j, NEW todo, Opens(s, j, todo)
        PROVE  /\ Sent(k, t)' = Sent(k, t) /\ Out(k, t)' = Out(k, t)
               /\ mails' = mails /\ failed' = failed
    <2>1. logs' = logs /\ mails' = mails /\ failed' = failed BY <1>2 DEF Opens
    <2>2. /\ Others(s) /\ sess[s] = Idle
          /\ sess'[s].on = None /\ sess'[s].rows = {}
      BY <1>2, OpensFields
    <2>3. Idle.on = None /\ Idle.rows = {} BY DEF Idle
    <2>4. IsOut(s, k, t)' <=> IsOut(s, k, t) BY <1>n, <2>2, <2>3 DEF IsOut
    <2> QED BY <1>1, <2>1, <2>2, <2>4
  <1>3. ASSUME NEW s \in Sess, NEW v \in Targets, PassOver(s, v)
        PROVE  /\ Sent(k, t)' = Sent(k, t) /\ Out(k, t)' = Out(k, t)
               /\ mails' = mails /\ failed' = failed
    <2>1. logs' = logs /\ mails' = mails /\ failed' = failed BY <1>3 DEF PassOver
    <2>2. /\ Others(s) /\ sess'[s].kind = sess[s].kind
          /\ sess'[s].on = sess[s].on /\ sess'[s].rows = sess[s].rows
      BY <1>3, PassFields
    <2>3. IsOut(s, k, t)' <=> IsOut(s, k, t) BY <2>2 DEF IsOut
    <2> QED BY <1>1, <2>1, <2>2, <2>3
  <1>4. ASSUME NEW s \in Sess, RecordSend(s)
        PROVE  /\ Sent(k, t)' = Sent(k, t) /\ Out(k, t)' = Out(k, t)
               /\ mails' = mails /\ failed' = failed
    <2>1. logs' = logs /\ mails' = mails /\ failed' = failed BY <1>4 DEF RecordSend
    <2>2. /\ Others(s) /\ sess'[s].kind = sess[s].kind
          /\ sess'[s].on = None /\ sess'[s].rows = sess[s].rows \cup {NewRow(s)}
          /\ NewRow(s).ref = sess[s].on
      BY <1>4, RecordFields
    <2>3. IsOut(s, k, t)' <=> IsOut(s, k, t) BY <1>n, <2>2 DEF IsOut
    <2> QED BY <1>1, <2>1, <2>2, <2>3
  <1>5. CASE Environment
    <2>1. sess' = sess /\ mails' = mails /\ failed' = failed
      BY <1>5 DEF Environment, OptOut, OptIn, SendOne, UploadSticks, Midnight
    <2>2. Out(k, t)' = Out(k, t) BY <2>1 DEF Out, IsOut
    <2>3. CASE logs' = logs BY <2>1, <2>2, <2>3 DEF Sent
    <2>4. ASSUME NEW u \in Users, NEW j \in Single, SendOne(u, j) PROVE Sent(k, t)' = Sent(k, t)
      <3>1. logs' = logs \cup {[user |-> u, kind |-> j, day |-> day, ref |-> u]}
        BY <2>4 DEF SendOne
      <3> QED BY <3>1 DEF Sent
    <2> QED BY <1>5, <2>1, <2>2, <2>3, <2>4
         DEF Environment, OptOut, OptIn, UploadSticks, Midnight
  <1>6. CASE UNCHANGED vars BY <1>6 DEF vars, Sent, Out, IsOut
  <1> QED BY <1>2, <1>3, <1>4, <1>5, <1>6, StepCases DEF SessionStep
-----------------------------------------------------------------------------
\* Every mail is accounted for.

Accounted(k, t) == mails[<<k, t>>] <= failed[k] + Cardinality(Sent(k, t)) + Cardinality(Out(k, t))

LEMMA OnceKinds ==
  ASSUME NEW k, NEW t, <<k, t>> \in OnceMails
  PROVE  k \in Kinds \ Single /\ t \in Targets
  BY DEF OnceMails, Kinds, OneTime, Single, Daily, Targets

LEMMA MailsStep == TypeInv /\ KeysOK /\ MailsInv /\ [Next]_vars => MailsInv'
  <1> SUFFICES ASSUME TypeInv, KeysOK, MailsInv, [Next]_vars,
                      NEW k \in Kinds, NEW t \in Targets, <<k, t>> \in OnceMails
               PROVE  Accounted(k, t)'
    BY DEF MailsInv, Accounted
  <1>1. k \in Kinds \ Single BY OnceKinds
  <1>2. /\ Accounted(k, t) /\ mails[<<k, t>>] \in Nat /\ failed[k] \in Nat
        /\ mails \in [OnceMails -> Nat] /\ failed \in [Kinds -> Nat]
    BY DEF MailsInv, Accounted, TypeInv
  <1>3. Cardinality(Sent(k, t)) \in Nat BY SentSet
  <1>4. /\ Out(k, t) \in SUBSET Sess /\ IsFiniteSet(Out(k, t))
        /\ Cardinality(Out(k, t)) \in Nat
    BY OutSet, SessSet
  <1>5. ASSUME NEW s \in Sess, NEW v \in Targets, Mail(s, v) PROVE Accounted(k, t)'
    <2>1. /\ Sent(k, t)' = Sent(k, t)
          /\ k = sess[s].kind /\ t = v =>
               s \notin Out(k, t) /\ Out(k, t)' = Out(k, t) \cup {s}
          /\ ~(k = sess[s].kind /\ t = v) => Out(k, t)' = Out(k, t)
      BY <1>5, OutGrows
    <2>2. failed' = failed BY <1>5 DEF Mail
    <2>3. CASE k = sess[s].kind /\ t = v
      <3>1. Cardinality(Out(k, t)') = Cardinality(Out(k, t)) + 1
        BY <1>4, <2>1, <2>3, FS_AddElement
      <3>2. mails' = [mails EXCEPT ![<<k, t>>] = @ + 1] BY <1>5, <2>3 DEF Mail
      <3>3. mails'[<<k, t>>] = mails[<<k, t>>] + 1 BY <1>2, <3>2
      <3> QED BY <1>2, <1>3, <1>4, <2>1, <2>2, <3>1, <3>3 DEF Accounted
    <2>4. CASE ~(k = sess[s].kind /\ t = v)
      <3>1. <<sess[s].kind, v>> # <<k, t>> BY <2>4
      <3>2. \/ mails' = mails
            \/ mails' = [mails EXCEPT ![<<sess[s].kind, v>>] = @ + 1]
        BY <1>5 DEF Mail
      <3>3. mails'[<<k, t>>] = mails[<<k, t>>] BY <1>2, <3>1, <3>2
      <3> QED BY <1>2, <2>1, <2>2, <2>4, <3>3 DEF Accounted
    <2> QED BY <2>3, <2>4
  <1>6. ASSUME NEW s \in Sess, Fails(s) PROVE Accounted(k, t)'
    <2>1. Sent(k, t)' = Sent(k, t) /\ Out(k, t)' = Out(k, t) \ {s} BY <1>6, OutFails
    <2>2. /\ mails' = mails /\ failed' = [failed EXCEPT ![sess[s].kind] = @ + 1]
          /\ sess[s].kind \in Kinds
      BY <1>6 DEF Fails, RollBack, TypeInv, Run
    <2>3. CASE s \in Out(k, t)
      <3>1. sess[s].kind = k BY <2>3 DEF Out, IsOut
      <3>2. Cardinality(Out(k, t)') = Cardinality(Out(k, t)) - 1
        BY <1>4, <2>1, <2>3, FS_RemoveElement
      <3>3. failed'[k] = failed[k] + 1 BY <1>2, <2>2, <3>1
      <3> QED BY <1>2, <1>3, <1>4, <2>1, <2>2, <3>2, <3>3 DEF Accounted
    <2>4. CASE s \notin Out(k, t)
      <3>1. Out(k, t)' = Out(k, t) BY <2>1, <2>4
      <3>2. failed'[k] >= failed[k] /\ failed'[k] \in Nat BY <1>2, <2>2
      <3> QED BY <1>2, <1>3, <1>4, <2>1, <2>2, <3>1, <3>2 DEF Accounted
    <2> QED BY <2>3, <2>4
  <1>7. ASSUME NEW s \in Sess, Commit(s) PROVE Accounted(k, t)'
    <2>1. mails' = mails /\ failed' = failed BY <1>7 DEF Commit
    <2>2. CASE s \in Out(k, t)
      <3>1. /\ Out(k, t)' = Out(k, t) \ {s}
            /\ Cardinality(Sent(k, t)') = Cardinality(Sent(k, t)) + 1
        BY <1>7, <2>2, CommitHandsOver
      <3>2. Cardinality(Out(k, t)') = Cardinality(Out(k, t)) - 1
        BY <1>4, <2>2, <3>1, FS_RemoveElement
      <3> QED BY <1>2, <1>3, <1>4, <2>1, <3>1, <3>2 DEF Accounted
    <2>3. CASE s \notin Out(k, t)
      <3>1. Out(k, t)' = Out(k, t) /\ Sent(k, t)' = Sent(k, t)
        BY <1>7, <2>3, CommitHandsOver
      <3> QED BY <1>2, <2>1, <3>1 DEF Accounted
    <2> QED BY <2>2, <2>3
  <1>8. CASE ~\E s \in Sess: Commit(s) \/ Fails(s) \/ \E v \in Targets: Mail(s, v)
    <2>1. /\ Sent(k, t)' = Sent(k, t) /\ Out(k, t)' = Out(k, t)
          /\ mails' = mails /\ failed' = failed
      BY <1>1, <1>8, OutQuiet
    <2> QED BY <1>2, <2>1 DEF Accounted
  <1> QED BY <1>5, <1>6, <1>7, <1>8
-----------------------------------------------------------------------------
\* Failure notices: the row lock of the upload keeps rivals out.

NoticeOK(x) ==
    Cardinality(Sent("upload_failed", x)) + Cardinality(Out("upload_failed", x)) <= 1

LEMMA NoticeStep == TypeInv /\ KeysOK /\ NoticeInv /\ [Next]_vars => NoticeInv'
  <1> SUFFICES ASSUME TypeInv, KeysOK, NoticeInv, [Next]_vars, NEW x \in Uploads
               PROVE  NoticeOK(x)'
    BY DEF NoticeInv, NoticeOK
  <1> DEFINE k == "upload_failed"
  <1>1. k \in Kinds \ Single /\ x \in Targets
    BY DEF Kinds, OneTime, Daily, Single, Targets
  <1>2. NoticeOK(x) BY DEF NoticeInv, NoticeOK
  <1>3. Cardinality(Sent(k, x)) \in Nat BY SentSet
  <1>4. /\ Out(k, x) \in SUBSET Sess /\ IsFiniteSet(Out(k, x))
        /\ Cardinality(Out(k, x)) \in Nat
    BY OutSet, SessSet
  <1>5. ASSUME NEW s \in Sess, NEW t \in Targets, Mail(s, t) PROVE NoticeOK(x)'
    <2>1. /\ Sent(k, x)' = Sent(k, x)
          /\ k = sess[s].kind /\ x = t =>
               s \notin Out(k, x) /\ Out(k, x)' = Out(k, x) \cup {s}
          /\ ~(k = sess[s].kind /\ x = t) => Out(k, x)' = Out(k, x)
      BY <1>1, <1>5, OutGrows
    <2>2. CASE k = sess[s].kind /\ x = t
      <3>1. ~Noticed(s, x) /\ ~Held(s, x) BY <1>5, <2>2 DEF Mail, Skips, Takes
      <3>2. Sent(k, x) = {} BY <3>1 DEF Noticed, Visible, Sent
      <3>3. ASSUME NEW o \in Sess \ {s} PROVE o \notin Out(k, x)
        <4>1. x \notin sess[o].done BY <3>1 DEF Held
        <4>2. RunOK(sess[o]) /\ x # None BY CampaignsAssumption DEF TypeInv
        <4> QED BY <4>1, <4>2 DEF Out, IsOut, RunOK
      <3>4. Out(k, x)' = {s} BY <1>4, <2>1, <2>2, <3>3
      <3>5. Cardinality(Sent(k, x)') = 0 /\ Cardinality(Out(k, x)') = 1
        BY <2>1, <3>2, <3>4, FS_EmptySet, FS_Singleton
      <3> QED BY <3>5 DEF NoticeOK
    <2>3. CASE ~(k = sess[s].kind /\ x = t) BY <1>2, <2>1, <2>3 DEF NoticeOK
    <2> QED BY <2>2, <2>3
  <1>6. ASSUME NEW s \in Sess, Fails(s) PROVE NoticeOK(x)'
    <2>1. Sent(k, x)' = Sent(k, x) /\ Out(k, x)' = Out(k, x) \ {s}
      BY <1>1, <1>6, OutFails
    <2>2. Cardinality(Out(k, x)') <= Cardinality(Out(k, x)) /\ Cardinality(Out(k, x)') \in Nat
      BY <1>4, <2>1, Shrinks, OutSet
    <2> QED BY <1>2, <1>3, <1>4, <2>1, <2>2 DEF NoticeOK
  <1>7. ASSUME NEW s \in Sess, Commit(s) PROVE NoticeOK(x)'
    <2>1. CASE s \in Out(k, x)
      <3>1. /\ Out(k, x)' = Out(k, x) \ {s}
            /\ Cardinality(Sent(k, x)') = Cardinality(Sent(k, x)) + 1
        BY <1>1, <1>7, <2>1, CommitHandsOver
      <3>2. Cardinality(Out(k, x)') = Cardinality(Out(k, x)) - 1
        BY <1>4, <2>1, <3>1, FS_RemoveElement
      <3> QED BY <1>2, <1>3, <1>4, <3>1, <3>2 DEF NoticeOK
    <2>2. CASE s \notin Out(k, x)
      <3>1. Out(k, x)' = Out(k, x) /\ Sent(k, x)' = Sent(k, x)
        BY <1>1, <1>7, <2>2, CommitHandsOver
      <3> QED BY <1>2, <3>1 DEF NoticeOK
    <2> QED BY <2>1, <2>2
  <1>8. CASE ~\E s \in Sess: Commit(s) \/ Fails(s) \/ \E t \in Targets: Mail(s, t)
    <2>1. Sent(k, x)' = Sent(k, x) /\ Out(k, x)' = Out(k, x) BY <1>1, <1>8, OutQuiet
    <2> QED BY <1>2, <2>1 DEF NoticeOK
  <1> QED BY <1>5, <1>6, <1>7, <1>8
-----------------------------------------------------------------------------
\* Nudges: only a run that begins comes to hold a target.

LEMMA HoldersSet ==
  ASSUME NEW k, NEW t
  PROVE  /\ Holders(k, t) \in SUBSET Sess /\ Holders(k, t)' \in SUBSET Sess
         /\ Cardinality(Holders(k, t)) \in Nat /\ Cardinality(Holders(k, t)') \in Nat
  <1>1. Holders(k, t) \in SUBSET Sess /\ Holders(k, t)' \in SUBSET Sess BY DEF Holders
  <1> QED BY <1>1, SessSet

Holds(s, k, t) == sess[s].kind = k
                  /\ (sess[s].on = t \/ t \in sess[s].todo \/ \E r \in sess[s].rows: r.ref = t)

LEMMA HoldersHold == ASSUME NEW k, NEW t PROVE Holders(k, t) = {s \in Sess: Holds(s, k, t)}
  BY DEF Holders, Holds, IsOut

LEMMA HoldersQuiet ==
  ASSUME TypeInv, [Next]_vars, ~\E s \in Sess: \E k, todo: Opens(s, k, todo)
  PROVE  /\ met' = met
         /\ \A o \in Sess: sess'[o].kind \in {sess[o].kind, "idle"}
         /\ \A k \in Kinds, t \in Targets: Holders(k, t)' \subseteq Holders(k, t)
  <1> DEFINE Quiet == /\ met' = met
                      /\ \A o \in Sess: sess'[o].kind \in {sess[o].kind, "idle"}
                      /\ \A k \in Kinds, t \in Targets: Holders(k, t)' \subseteq Holders(k, t)
  <1>1. ASSUME NEW s \in Sess, Others(s), met' = met, sess'[s].kind \in {sess[s].kind, "idle"},
               \A k \in Kinds, t \in Targets: Holds(s, k, t)' => Holds(s, k, t)
        PROVE  Quiet
    <2>1. \A o \in Sess: sess'[o].kind \in {sess[o].kind, "idle"} BY <1>1 DEF Others
    <2>2. \A k \in Kinds, t \in Targets: \A o \in Sess: Holds(o, k, t)' => Holds(o, k, t)
      BY <1>1 DEF Others, Holds
    <2>3. ASSUME NEW k \in Kinds, NEW t \in Targets
          PROVE  Holders(k, t)' \subseteq Holders(k, t)
      <3>1. Holders(k, t) = {o \in Sess: Holds(o, k, t)} BY HoldersHold
      <3>2. Holders(k, t)' = {o \in Sess: Holds(o, k, t)'} BY DEF Holders, Holds, IsOut
      <3> QED BY <2>2, <3>1, <3>2
    <2> QED BY <1>1, <2>1, <2>3
  <1>2. ASSUME NEW s \in Sess, NEW v \in Targets, PassOver(s, v) PROVE Quiet
    <2>1. met' = met BY <1>2 DEF PassOver
    <2>2. /\ Others(s) /\ sess'[s].kind = sess[s].kind /\ sess'[s].todo = sess[s].todo \ {v}
          /\ sess'[s].on = sess[s].on /\ sess'[s].rows = sess[s].rows
      BY <1>2, PassFields
    <2>3. \A k \in Kinds, t \in Targets: Holds(s, k, t)' => Holds(s, k, t)
      BY <2>2 DEF Holds
    <2> QED BY <1>1, <2>1, <2>2, <2>3
  <1>3. ASSUME NEW s \in Sess, NEW v \in Targets, Mail(s, v) PROVE Quiet
    <2>1. met' = met BY <1>3 DEF Mail
    <2>2. /\ Others(s) /\ sess'[s].kind = sess[s].kind /\ sess'[s].todo = sess[s].todo \ {v}
          /\ sess'[s].on = v /\ sess'[s].rows = sess[s].rows /\ v \in sess[s].todo
      BY <1>3, MailFields
    <2>3. \A k \in Kinds, t \in Targets: Holds(s, k, t)' => Holds(s, k, t)
      BY <2>2 DEF Holds
    <2> QED BY <1>1, <2>1, <2>2, <2>3
  <1>4. ASSUME NEW s \in Sess, RecordSend(s) PROVE Quiet
    <2>1. met' = met BY <1>4 DEF RecordSend
    <2>2. /\ Others(s) /\ sess'[s].kind = sess[s].kind /\ sess'[s].todo = sess[s].todo
          /\ sess'[s].on = None /\ sess'[s].rows = sess[s].rows \cup {NewRow(s)}
          /\ NewRow(s).ref = sess[s].on
      BY <1>4, RecordFields
    <2>3. None \notin Targets BY CampaignsAssumption DEF Targets
    <2>4. \A k \in Kinds, t \in Targets: Holds(s, k, t)' => Holds(s, k, t)
      BY <2>2, <2>3 DEF Holds
    <2> QED BY <1>1, <2>1, <2>2, <2>4
  <1>5. ASSUME NEW s \in Sess, Fails(s) \/ Commit(s) PROVE Quiet
    <2>1. met' = met /\ sess' = [sess EXCEPT ![s] = Idle]
      BY <1>5 DEF Fails, RollBack, Commit
    <2>2. /\ Others(s) /\ sess'[s].kind = "idle" /\ sess'[s].todo = {}
          /\ sess'[s].on = None /\ sess'[s].rows = {}
      BY <2>1, IdleFields
    <2>3. "idle" \notin Kinds BY DEF Kinds, OneTime, Daily, Single
    <2>4. \A k \in Kinds, t \in Targets: Holds(s, k, t)' => Holds(s, k, t)
      BY <2>2, <2>3 DEF Holds
    <2> QED BY <1>1, <2>1, <2>2, <2>4
  <1>6. CASE Environment \/ UNCHANGED vars
    <2>1. sess' = sess /\ met' = met
      BY <1>6 DEF Environment, OptOut, OptIn, SendOne, UploadSticks, Midnight, vars
    <2> QED BY <2>1 DEF Holders, IsOut
  <1> QED BY <1>2, <1>3, <1>4, <1>5, <1>6, StepCases DEF SessionStep

\* No step but the commit of a run that holds it records a nudge for good.
LEMMA SentQuiet ==
  ASSUME TypeInv, KeysOK, [Next]_vars, NEW k \in Kinds \ Single, NEW t \in Targets,
         Sent(k, t)' # Sent(k, t)
  PROVE  \E s \in Sess: /\ Commit(s) /\ s \in Out(k, t)
                        /\ Cardinality(Sent(k, t)') = Cardinality(Sent(k, t)) + 1
  <1>1. ASSUME NEW s \in Sess, NEW v \in Targets, Mail(s, v) PROVE FALSE
    BY <1>1, OutGrows
  <1>2. ASSUME NEW s \in Sess, Fails(s) PROVE FALSE
    BY <1>2, OutFails
  <1>3. PICK s \in Sess: Commit(s) BY <1>1, <1>2, OutQuiet
  <1> QED BY <1>3, CommitHandsOver

Alone(k) == k \notin met => \A s, o \in Sess: sess[s].kind = k /\ sess[o].kind = k => s = o
NudgeOK(k, u) == Cardinality(Sent(k, u)) + Cardinality(Holders(k, u)) <= MostRuns(k)

LEMMA NudgeOpens ==
  ASSUME TypeInv, NudgeInv, NEW s \in Sess, NEW j, NEW todo, Opens(s, j, todo),
         NEW k \in OneTime
  PROVE  Alone(k)' /\ \A u \in Users: NudgeOK(k, u)'
  <1>k. k \in Kinds /\ k # "idle" /\ k # "upload_failed" BY DEF Kinds, OneTime, Daily, Single
  <1>1. /\ logs' = logs
        /\ met' = IF j # "upload_failed" /\ \E o \in Sess: sess[o].kind = j
                  THEN met \cup {j} ELSE met
        /\ k = j => todo \cap EverSent(k) = {}
    BY DEF Opens
  <1>2. /\ Others(s) /\ sess[s] = Idle /\ sess'[s].kind = j /\ sess'[s].todo = todo
        /\ sess'[s].on = None /\ sess'[s].rows = {}
    BY OpensFields
  <1>3. Idle.kind = "idle" BY DEF Idle
  <1>4. Alone(k) BY DEF NudgeInv, Alone
  <1>5. Alone(k)' BY <1>k, <1>1, <1>2, <1>3, <1>4 DEF Alone, Others
  <1>6. Cardinality(Sess) \in Nat /\ Cardinality(Sess) >= 1 BY SessSet
  <1>7. ASSUME NEW u \in Users PROVE NudgeOK(k, u)'
    <2>1. NudgeOK(k, u) BY DEF NudgeInv, NudgeOK
    <2>2. Sent(k, u)' = Sent(k, u) BY <1>1 DEF Sent
    <2>3. u \in Targets /\ u # None BY CampaignsAssumption DEF Targets
    <2>4. Holders(k, u)' = {o \in Sess: Holds(o, k, u)'} BY DEF Holders, Holds, IsOut
    <2>5. Holders(k, u) = {o \in Sess: Holds(o, k, u)} BY HoldersHold
    <2>6. \A o \in Sess \ {s}: Holds(o, k, u)' <=> Holds(o, k, u) BY <1>2 DEF Others, Holds
    <2>7. ~Holds(s, k, u) BY <1>k, <1>2, <1>3 DEF Holds
    <2>8. CASE k = j /\ u \in todo
      <3>1. Sent(k, u) = {}
        <4>1. ASSUME NEW r \in Sent(k, u) PROVE FALSE
          <5>1. r \in logs /\ r.kind = k /\ r.ref = u BY <4>1 DEF Sent
          <5>2. r.user = u
            BY <5>1, CampaignsAssumption DEF TypeInv, RowOK, UserOf
          <5>3. u \in EverSent(k) BY <5>1, <5>2 DEF EverSent
          <5> QED BY <1>1, <2>8, <5>3
        <4> QED BY <4>1
      <3>2. Cardinality(Sent(k, u)') = 0 BY <2>2, <3>1, FS_EmptySet
      <3>3. CASE k \in met'
        BY <3>2, <3>3, HoldersSet, SessSet DEF NudgeOK, MostRuns
      <3>4. CASE k \notin met'
        <4>1. \A o \in Sess: sess[o].kind # k BY <1>k, <1>1, <2>8, <3>4
        <4>2. Holders(k, u)' \subseteq {s} BY <2>4, <2>6, <4>1 DEF Holds
        <4>3. IsFiniteSet({s}) /\ Cardinality({s}) = 1 BY FS_Singleton
        <4>4. Cardinality(Holders(k, u)') <= 1
          BY <4>2, <4>3, FS_Subset
        <4> QED BY <3>2, <3>4, <4>4, HoldersSet DEF NudgeOK, MostRuns
      <3> QED BY <3>3, <3>4
    <2>9. CASE ~(k = j /\ u \in todo)
      <3>1. ~Holds(s, k, u)' BY <1>2, <2>3, <2>9 DEF Holds
      <3>2. Holders(k, u)' = Holders(k, u) BY <2>4, <2>5, <2>6, <2>7, <3>1
      <3>3. MostRuns(k) <= MostRuns(k)' /\ MostRuns(k) \in Nat /\ MostRuns(k)' \in Nat
        BY <1>1, <1>6 DEF MostRuns
      <3>4. Cardinality(Sent(k, u)) \in Nat /\ Cardinality(Holders(k, u)) \in Nat
        BY SentSet, HoldersSet
      <3> QED BY <2>1, <2>2, <3>2, <3>3, <3>4 DEF NudgeOK
    <2> QED BY <2>8, <2>9
  <1> QED BY <1>5, <1>7

LEMMA NudgeStep == TypeInv /\ KeysOK /\ NudgeInv /\ [Next]_vars => NudgeInv'
  <1> SUFFICES ASSUME TypeInv, KeysOK, NudgeInv, [Next]_vars, NEW k \in OneTime
               PROVE  Alone(k)' /\ \A u \in Users: NudgeOK(k, u)'
    BY DEF NudgeInv, Alone, NudgeOK
  <1>k. k \in Kinds \ Single /\ k # "idle" BY DEF Kinds, OneTime, Daily, Single
  <1>1. CASE \E s \in Sess: \E j, todo: Opens(s, j, todo) BY <1>1, NudgeOpens
  <1>2. CASE ~\E s \in Sess: \E j, todo: Opens(s, j, todo)
    <2>1. /\ met' = met
          /\ \A o \in Sess: sess'[o].kind \in {sess[o].kind, "idle"}
          /\ \A t \in Targets: Holders(k, t)' \subseteq Holders(k, t)
      BY <1>k, <1>2, HoldersQuiet
    <2>2. Alone(k) BY DEF NudgeInv, Alone
    <2>3. Alone(k)' BY <1>k, <2>1, <2>2 DEF Alone
    <2>4. ASSUME NEW u \in Users PROVE NudgeOK(k, u)'
      <3>1. NudgeOK(k, u) /\ u \in Targets BY DEF NudgeInv, NudgeOK, Targets
      <3>2. /\ Cardinality(Sent(k, u)) \in Nat /\ Cardinality(Holders(k, u)) \in Nat
            /\ Cardinality(Holders(k, u)') \in Nat
        BY SentSet, HoldersSet
      <3>3. Holders(k, u)' \subseteq Holders(k, u) BY <2>1, <3>1
      <3>4. MostRuns(k)' = MostRuns(k) /\ MostRuns(k) \in Nat BY <2>1, SessSet DEF MostRuns
      <3>5. CASE Sent(k, u)' = Sent(k, u)
        <4>1. Cardinality(Holders(k, u)') <= Cardinality(Holders(k, u))
          BY <3>3, HoldersSet, Shrinks
        <4> QED BY <3>1, <3>2, <3>4, <3>5, <4>1 DEF NudgeOK
      <3>6. CASE Sent(k, u)' # Sent(k, u)
        <4>1. PICK s \in Sess: /\ Commit(s) /\ s \in Out(k, u)
                               /\ Cardinality(Sent(k, u)') = Cardinality(Sent(k, u)) + 1
          BY <1>k, <3>1, <3>6, SentQuiet
        <4>2. s \in Holders(k, u) BY <4>1 DEF Out, Holders
        <4>3. s \notin Holders(k, u)'
          <5>1. sess'[s].kind = "idle" BY <4>1, IdleFields DEF Commit
          <5> QED BY <1>k, <5>1 DEF Holders, IsOut
        <4>4. Cardinality(Holders(k, u)') <= Cardinality(Holders(k, u)) - 1
          BY <3>3, <4>2, <4>3, HoldersSet, Leaves
        <4> QED BY <3>1, <3>2, <3>4, <4>1, <4>4 DEF NudgeOK
      <3> QED BY <3>5, <3>6
    <2> QED BY <2>3, <2>4
  <1> QED BY <1>1, <1>2
-----------------------------------------------------------------------------
\* The weekly budget.

LEMMA CappedKinds ==
  ASSUME NEW k \in Capped
  PROVE  /\ k \in Kinds \ Single /\ k \notin Transactional /\ k # "idle"
         /\ k # "upload_failed" /\ k # "smart_digest" /\ TargetsOf(k) = Users
  BY DEF Capped, Kinds, OneTime, Daily, Single, Transactional, TargetsOf

BudgetOK(u, d) ==
    Cardinality(Spent(u, d)) + Cardinality(Spending(u, d)) <= MaxPerWeek + Cardinality(Sess) - 1

LEMMA SpentSet ==
  ASSUME TypeInv, NEW u, NEW d
  PROVE  IsFiniteSet(Spent(u, d)) /\ Cardinality(Spent(u, d)) \in Nat
  <1>1. Spent(u, d) \in SUBSET logs /\ IsFiniteSet(logs) BY DEF Spent, TypeInv
  <1> QED BY <1>1, FS_Subset, FS_CardinalityType

LEMMA SpendingSet ==
  ASSUME NEW u, NEW d
  PROVE  /\ Spending(u, d) \in SUBSET Sess /\ Spending(u, d)' \in SUBSET Sess
         /\ Cardinality(Spending(u, d)) \in Nat /\ Cardinality(Spending(u, d)') \in Nat
  <1>1. Spending(u, d) \in SUBSET Sess /\ Spending(u, d)' \in SUBSET Sess BY DEF Spending
  <1> QED BY <1>1, SessSet

\* Steps in which nothing more is recorded and no session comes to spend.
LEMMA BudgetQuiet ==
  ASSUME TypeInv, BudgetInv, NEW u \in Users, NEW d \in 0..LastDay,
         Spent(u, d)' = Spent(u, d),
         \A o \in Sess: IsSpending(o, u, d)' => IsSpending(o, u, d)
  PROVE  BudgetOK(u, d)'
  <1>1. BudgetOK(u, d) BY DEF BudgetInv, BudgetOK
  <1>2. Spending(u, d)' \subseteq Spending(u, d) BY DEF Spending
  <1>3. Cardinality(Spending(u, d)') <= Cardinality(Spending(u, d))
    BY <1>2, SpendingSet, Shrinks
  <1>4. MaxPerWeek \in Nat /\ Cardinality(Sess) \in Nat BY CampaignsAssumption, SessSet
  <1> QED BY <1>1, <1>3, <1>4, SpentSet, SpendingSet DEF BudgetOK

LEMMA BudgetMail ==
  ASSUME TypeInv, BudgetInv, NEW s \in Sess, NEW t \in Targets, Mail(s, t),
         NEW u \in Users, NEW d \in 0..LastDay
  PROVE  BudgetOK(u, d)'
  <1>1. logs' = logs /\ day' = day BY DEF Mail
  <1>2. Spent(u, d)' = Spent(u, d) BY <1>1 DEF Spent
  <1>3. /\ Others(s) /\ sess'[s].kind = sess[s].kind /\ sess'[s].on = t
        /\ sess'[s].rows = sess[s].rows
    BY MailFields
  <1>4. CASE sess[s].kind \in Capped /\ t = u /\ day <= d
    <2> DEFINE counted == {r \in Visible(s): /\ r.user = u /\ r.day >= day - Week
                                             /\ r.kind \notin Transactional}
    <2>1. ~(Cardinality(counted) >= MaxPerWeek)
      BY <1>4 DEF Mail, Skips, BudgetExhausted
    <2>2. IsFiniteSet(Visible(s)) BY FS_Union DEF Visible, TypeInv, RunOK
    <2>3. IsFiniteSet(counted) /\ Cardinality(counted) \in Nat
      BY <2>2, FS_Subset, FS_CardinalityType
    <2>4. Week \in Nat /\ MaxPerWeek \in Nat /\ day \in Nat /\ d \in Nat
      BY CampaignsAssumption DEF TypeInv
    <2>5. Spent(u, d) \subseteq counted
      <3>1. ASSUME NEW r \in Spent(u, d) PROVE r \in counted
        <4>1. r \in logs /\ r.user = u /\ r.kind \in Capped /\ r.day \in (d - Week)..d
          BY <3>1 DEF Spent
        <4>2. r.day \in Nat BY <4>1 DEF TypeInv, Row
        <4>3. r.day >= day - Week BY <1>4, <2>4, <4>1, <4>2
        <4> QED BY <4>1, <4>3, CappedKinds DEF Visible
      <3> QED BY <3>1
    <2>6. Cardinality(Spent(u, d)) <= Cardinality(counted) BY <2>3, <2>5, FS_Subset
    <2>7. /\ Cardinality(Spending(u, d)') <= Cardinality(Sess) /\ Cardinality(Sess) \in Nat
          /\ Cardinality(Spending(u, d)') \in Nat
      BY SpendingSet, SessSet
    <2> HIDE DEF counted
    <2> QED BY <1>2, <2>1, <2>3, <2>4, <2>6, <2>7, SpentSet DEF BudgetOK
  <1>5. CASE ~(sess[s].kind \in Capped /\ t = u /\ day <= d)
    <2>1. \A o \in Sess: IsSpending(o, u, d)' => IsSpending(o, u, d)
      BY <1>1, <1>3, <1>5 DEF IsSpending, Others
    <2> QED BY <1>2, <2>1, BudgetQuiet
  <1> QED BY <1>4, <1>5

LEMMA BudgetCommit ==
  ASSUME TypeInv, KeysOK, BudgetInv, NEW s \in Sess, Commit(s),
         NEW u \in Users, NEW d \in 0..LastDay
  PROVE  BudgetOK(u, d)'
  <1> DEFINE mine == {r \in sess[s].rows: r.user = u /\ r.kind \in Capped
                                          /\ r.day \in (d - Week)..d}
  <1>1. /\ sess' = [sess EXCEPT ![s] = Idle] /\ logs' = logs \cup sess[s].rows
        /\ sess[s].on = None /\ day' = day
    BY DEF Commit
  <1>2. Others(s) /\ sess'[s].on = None /\ sess'[s].rows = {} BY <1>1, IdleFields
  <1>3. u # None BY CampaignsAssumption
  <1>4. ~IsSpending(s, u, d)' BY <1>2, <1>3 DEF IsSpending
  <1>5. \A o \in Sess \ {s}: IsSpending(o, u, d)' <=> IsSpending(o, u, d)
    BY <1>1, <1>2 DEF IsSpending, Others
  <1>6. Spending(u, d)' = Spending(u, d) \ {s} BY <1>4, <1>5 DEF Spending
  <1>7. Spent(u, d)' = Spent(u, d) \cup mine BY <1>1 DEF Spent
  <1>8. RunOK(sess[s]) BY DEF TypeInv
  <1>9. CASE mine = {}
    <2>1. \A o \in Sess: IsSpending(o, u, d)' => IsSpending(o, u, d) BY <1>4, <1>5
    <2> QED BY <1>7, <1>9, <2>1, BudgetQuiet
  <1>10. CASE mine # {}
    <2>1. PICK q \in mine: TRUE BY <1>10
    <2>2. q \in sess[s].rows /\ q.user = u /\ q.kind \in Capped /\ q.kind = sess[s].kind
      BY <1>8, <2>1 DEF RunOK
    <2>3. \A r \in mine: r.ref = u
      <3>1. ASSUME NEW r \in mine PROVE r.ref = u
        <4>1. RowOK(r) /\ r.kind \in Capped /\ r.user = u BY <1>8, <3>1 DEF RunOK
        <4>2. r.ref \in Users BY <4>1, CappedKinds DEF RowOK
        <4> QED BY <4>1, <4>2, CampaignsAssumption DEF RowOK, UserOf
      <3> QED BY <3>1
    <2>4. mine = {q} BY <1>8, <2>1, <2>3 DEF RunOK
    <2>5. q \notin Spent(u, d) BY <2>2 DEF KeysOK, Spent
    <2>6. Cardinality(Spent(u, d)') = Cardinality(Spent(u, d)) + 1
      <3>1. Cardinality(Spent(u, d) \cup {q}) = Cardinality(Spent(u, d)) + 1
        BY <2>5, SpentSet, FS_AddElement
      <3> HIDE DEF mine
      <3> QED BY <1>7, <2>4, <3>1
    <2>7. s \in Spending(u, d)
      <3>1. q.day \in (d - Week)..d BY <2>1
      <3> QED BY <2>2, <3>1 DEF Spending, IsSpending
    <2>8. Cardinality(Spending(u, d)') = Cardinality(Spending(u, d)) - 1
      <3>1. IsFiniteSet(Spending(u, d)) BY SpendingSet, SessSet
      <3> QED BY <1>6, <2>7, <3>1, FS_RemoveElement
    <2>9. BudgetOK(u, d) BY DEF BudgetInv, BudgetOK
    <2>10. MaxPerWeek \in Nat /\ Cardinality(Sess) \in Nat BY CampaignsAssumption, SessSet
    <2> HIDE DEF mine
    <2> QED BY <2>6, <2>8, <2>9, <2>10, SpentSet, SpendingSet DEF BudgetOK
  <1> QED BY <1>9, <1>10

LEMMA BudgetStep == TypeInv /\ KeysOK /\ BudgetInv /\ [Next]_vars => BudgetInv'
  <1> SUFFICES ASSUME TypeInv, KeysOK, BudgetInv, [Next]_vars,
                      NEW u \in Users, NEW d \in 0..LastDay
               PROVE  BudgetOK(u, d)'
    BY DEF BudgetInv, BudgetOK
  <1>n. u # None BY CampaignsAssumption
  <1>1. ASSUME NEW s \in Sess, Others(s), logs' = logs, day' = day,
               IsSpending(s, u, d)' => IsSpending(s, u, d)
        PROVE  BudgetOK(u, d)'
    <2>1. Spent(u, d)' = Spent(u, d) BY <1>1 DEF Spent
    <2>2. \A o \in Sess: IsSpending(o, u, d)' => IsSpending(o, u, d)
      BY <1>1 DEF IsSpending, Others
    <2> QED BY <2>1, <2>2, BudgetQuiet
  <1>2. ASSUME NEW s \in Sess, NEW k, NEW todo, Opens(s, k, todo) PROVE BudgetOK(u, d)'
    <2>1. logs' = logs /\ day' = day BY <1>2 DEF Opens
    <2>2. Others(s) /\ sess'[s].on = None /\ sess'[s].rows = {} BY <1>2, OpensFields
    <2>3. ~IsSpending(s, u, d)' BY <1>n, <2>2 DEF IsSpending
    <2> QED BY <1>1, <2>1, <2>2, <2>3
  <1>3. ASSUME NEW s \in Sess, NEW t \in Targets, PassOver(s, t) PROVE BudgetOK(u, d)'
    <2>1. logs' = logs /\ day' = day BY <1>3 DEF PassOver
    <2>2. /\ Others(s) /\ sess'[s].kind = sess[s].kind /\ sess'[s].on = sess[s].on
          /\ sess'[s].rows = sess[s].rows
      BY <1>3, PassFields
    <2>3. IsSpending(s, u, d)' => IsSpending(s, u, d) BY <2>1, <2>2 DEF IsSpending
    <2> QED BY <1>1, <2>1, <2>2, <2>3
  <1>4. ASSUME NEW s \in Sess, RecordSend(s) PROVE BudgetOK(u, d)'
    <2>1. logs' = logs /\ day' = day BY <1>4 DEF RecordSend
    <2>2. /\ Others(s) /\ sess'[s].kind = sess[s].kind /\ sess'[s].on = None
          /\ sess'[s].rows = sess[s].rows \cup {NewRow(s)}
          /\ NewRow(s).user = UserOf(sess[s].on) /\ NewRow(s).day = day
          /\ sess[s].on \in TargetsOf(sess[s].kind)
      BY <1>4, RecordFields
    <2>3. ASSUME IsSpending(s, u, d)' PROVE IsSpending(s, u, d)
      <3>1. sess[s].kind \in Capped BY <2>2, <2>3 DEF IsSpending
      <3>2. sess[s].on \in Users BY <2>2, <3>1, CappedKinds
      <3>3. NewRow(s).user = sess[s].on BY <2>2, <3>2, CampaignsAssumption DEF UserOf
      <3>4. PICK r \in sess'[s].rows: r.user = u /\ r.day \in (d - Week)..d
        BY <1>n, <2>2, <2>3 DEF IsSpending
      <3>5. CASE r = NewRow(s)
        <4>1. sess[s].on = u /\ day <= d BY <2>2, <3>3, <3>4, <3>5
        <4> QED BY <3>1, <4>1 DEF IsSpending
      <3>6. CASE r # NewRow(s) BY <2>2, <3>1, <3>4, <3>6 DEF IsSpending
      <3> QED BY <3>5, <3>6
    <2> QED BY <1>1, <2>1, <2>2, <2>3
  <1>5. ASSUME NEW s \in Sess, Fails(s) PROVE BudgetOK(u, d)'
    <2>1. sess' = [sess EXCEPT ![s] = Idle] /\ logs' = logs /\ day' = day
      BY <1>5 DEF Fails, RollBack
    <2>2. Others(s) /\ sess'[s].on = None /\ sess'[s].rows = {} BY <2>1, IdleFields
    <2>3. ~IsSpending(s, u, d)' BY <1>n, <2>2 DEF IsSpending
    <2> QED BY <1>1, <2>1, <2>2, <2>3
  <1>6. CASE Environment
    <2>1. sess' = sess
      BY <1>6 DEF Environment, OptOut, OptIn, SendOne, UploadSticks, Midnight
    <2>2. day' \in Int /\ day \in Int /\ day <= day'
      BY <1>6 DEF Environment, OptOut, OptIn, SendOne, UploadSticks, Midnight, TypeInv
    <2>3. d \in Int OBVIOUS
    <2>4. \A o \in Sess: IsSpending(o, u, d)' => IsSpending(o, u, d)
      BY <2>1, <2>2, <2>3 DEF IsSpending
    <2>5. CASE logs' = logs
      <3>1. Spent(u, d)' = Spent(u, d) BY <2>5 DEF Spent
      <3> QED BY <2>4, <3>1, BudgetQuiet
    <2>6. ASSUME NEW v \in Users, NEW k \in Single, SendOne(v, k) PROVE BudgetOK(u, d)'
      <3>1. logs' = logs \cup {[user |-> v, kind |-> k, day |-> day, ref |-> v]}
        BY <2>6 DEF SendOne
      <3>2. k \notin Capped BY CappedKinds
      <3>3. Spent(u, d)' = Spent(u, d) BY <3>1, <3>2 DEF Spent
      <3> QED BY <2>4, <3>3, BudgetQuiet
    <2> QED BY <1>6, <2>5, <2>6 DEF Environment, OptOut, OptIn, UploadSticks, Midnight
  <1>7. CASE UNCHANGED vars
    <2>1. Spent(u, d)' = Spent(u, d) /\ \A o \in Sess: IsSpending(o, u, d)' => IsSpending(o, u, d)
      BY <1>7 DEF vars, Spent, IsSpending
    <2> QED BY <2>1, BudgetQuiet
  <1> QED BY <1>2, <1>3, <1>4, <1>5, <1>6, <1>7, BudgetMail, BudgetCommit, StepCases
       DEF SessionStep
-----------------------------------------------------------------------------
\* The invariant is inductive.

LEMMA InitIInv == Init => IInv
  <1> SUFFICES ASSUME Init PROVE IInv OBVIOUS
  <1>1. TypeInv BY TypeInit
  <1>2. logs = {} /\ \A s \in Sess: sess[s] = Idle BY DEF Init
  <1>3. Idle.kind = "idle" /\ Idle.todo = {} /\ Idle.on = None /\ Idle.rows = {} BY DEF Idle
  <1>4. "idle" \notin Kinds BY DEF Kinds, OneTime, Daily, Single
  <1>5. Cardinality({}) = 0 BY FS_EmptySet
  <1>6. Cardinality(Sess) \in Nat /\ Cardinality(Sess) >= 1 /\ MaxPerWeek \in Nat
    BY SessSet, CampaignsAssumption
  <1>7. KeysOK BY <1>2, <1>3 DEF KeysOK
  <1>8. ASSUME NEW k \in Kinds, NEW t \in Targets
        PROVE  Sent(k, t) = {} /\ Out(k, t) = {} /\ Holders(k, t) = {}
    BY <1>2, <1>3, <1>4, <1>8 DEF Sent, Out, Holders, IsOut
  <1>9. MailsInv
    <2> SUFFICES ASSUME NEW k \in Kinds, NEW t \in Targets, <<k, t>> \in OnceMails
                 PROVE  Accounted(k, t)
      BY DEF MailsInv, Accounted
    <2>1. mails[<<k, t>>] = 0 /\ failed[k] = 0 BY DEF Init
    <2> QED BY <1>5, <1>8, <2>1 DEF Accounted
  <1>10. NudgeInv
    <2> SUFFICES ASSUME NEW k \in OneTime
                 PROVE  Alone(k) /\ \A u \in Users: NudgeOK(k, u)
      BY DEF NudgeInv, Alone, NudgeOK
    <2>1. k \in Kinds /\ met = {} BY DEF Kinds, Init
    <2>2. Alone(k) BY <1>2, <1>3, <1>4, <2>1 DEF Alone
    <2>3. ASSUME NEW u \in Users PROVE NudgeOK(k, u)
      <3>1. Sent(k, u) = {} /\ Holders(k, u) = {} BY <1>8, <2>1 DEF Targets
      <3> QED BY <1>5, <2>1, <3>1 DEF NudgeOK, MostRuns
    <2> QED BY <2>2, <2>3
  <1>11. NoticeInv
    <2> SUFFICES ASSUME NEW x \in Uploads PROVE NoticeOK(x) BY DEF NoticeInv, NoticeOK
    <2>1. Sent("upload_failed", x) = {} /\ Out("upload_failed", x) = {}
      BY <1>8 DEF Kinds, Targets
    <2> QED BY <1>5, <2>1 DEF NoticeOK
  <1>12. ConsentInv BY <1>6 DEF ConsentInv, Init
  <1>13. BudgetInv
    <2> SUFFICES ASSUME NEW u \in Users, NEW d \in 0..LastDay PROVE BudgetOK(u, d)
      BY DEF BudgetInv, BudgetOK
    <2>1. u # None BY CampaignsAssumption
    <2>2. Spent(u, d) = {} /\ Spending(u, d) = {}
      BY <1>2, <1>3, <2>1 DEF Spent, Spending, IsSpending
    <2> QED BY <1>5, <1>6, <2>2 DEF BudgetOK
  <1> QED BY <1>1, <1>7, <1>9, <1>10, <1>11, <1>12, <1>13 DEF IInv

LEMMA Invariance == Spec => []IInv
  <1>1. IInv /\ [Next]_vars => IInv'
    BY TypeStep, KeysStep, MailsStep, NudgeStep, NoticeStep, ConsentStep, BudgetStep DEF IInv
  <1> QED BY InitIInv, <1>1, PTL DEF Spec
-----------------------------------------------------------------------------
\* The variables keep their types, and (user, type, date) stays a key of the log and of
\* all that the open runs have flushed into it.
THEOREM CampaignTypes == Spec => []TypeOK
  <1>1. IInv => TypeOK
    <2> SUFFICES ASSUME IInv PROVE TypeOK OBVIOUS
    <2>1. ASSUME NEW q \in logs \cup UNION {sess[s].rows: s \in Sess},
                 NEW r \in logs \cup UNION {sess[s].rows: s \in Sess}, Key(q) = Key(r)
          PROVE  q = r
      <3>1. q \in logs \/ \E s \in Sess: q \in sess[s].rows OBVIOUS
      <3>2. r \in logs \/ \E s \in Sess: r \in sess[s].rows OBVIOUS
      <3>3. CASE q \in logs /\ r \in logs BY <2>1, <3>3 DEF IInv, KeysOK
      <3>4. CASE q \notin logs \/ r \notin logs
        BY <2>1, <3>1, <3>2, <3>4 DEF IInv, KeysOK
      <3> QED BY <3>3, <3>4
    <2> QED BY <2>1 DEF IInv, TypeInv, TypeOK
  <1> QED BY <1>1, Invariance, PTL

\* The runs of email_tasks and the watchdog: a one-time nudge reaches a user once, and a
\* failure notice is mailed once for an upload, but for runs that failed after mailing
\* and, of the nudges, for runs of one kind that were open at once.
THEOREM MailedSound == Spec => []MailedOnce
  <1>1. IInv => MailedOnce
    <2> SUFFICES ASSUME IInv, NEW m \in OnceMails
                 PROVE  mails[m] <= failed[m[1]]
                          + IF m[1] \in OneTime \cap met THEN Cardinality(Sess) ELSE 1
      BY DEF MailedOnce
    <2> DEFINE k == m[1]
               t == m[2]
    <2>1. /\ m = <<k, t>> /\ <<k, t>> \in OnceMails
          /\ \/ k \in OneTime /\ t \in Users
             \/ k = "upload_failed" /\ t \in Uploads
      <3>1. CASE m \in OneTime \X Users
        <4>1. PICK a \in OneTime, b \in Users: m = <<a, b>> BY <3>1
        <4> QED BY <4>1
      <3>2. CASE m \in {"upload_failed"} \X Uploads
        <4>1. PICK b \in Uploads: m = <<"upload_failed", b>> BY <3>2
        <4> QED BY <4>1
      <3> QED BY <3>1, <3>2 DEF OnceMails
    <2> HIDE DEF k, t
    <2>2. k \in Kinds /\ t \in Targets /\ "upload_failed" \notin OneTime
      BY <2>1, OnceKinds DEF OneTime
    <2>3. Accounted(k, t) BY <2>1, <2>2 DEF IInv, MailsInv, Accounted
    <2>4. mails[<<k, t>>] \in Nat /\ failed[k] \in Nat
      BY <2>1, <2>2 DEF IInv, TypeInv
    <2>5. /\ Cardinality(Sent(k, t)) \in Nat /\ Cardinality(Out(k, t)) \in Nat
          /\ Cardinality(Holders(k, t)) \in Nat /\ Cardinality(Sess) \in Nat
      BY SentSet, OutSet, HoldersSet, SessSet DEF IInv
    <2>6. CASE k \in OneTime /\ t \in Users
      <3>1. Out(k, t) \subseteq Holders(k, t) BY DEF Out, Holders
      <3>2. Cardinality(Out(k, t)) <= Cardinality(Holders(k, t))
        BY <3>1, HoldersSet, Shrinks
      <3>3. NudgeOK(k, t) BY <2>6 DEF IInv, NudgeInv, NudgeOK
      <3> QED BY <2>1, <2>3, <2>4, <2>5, <2>6, <3>2, <3>3 DEF Accounted, NudgeOK, MostRuns, k, t
    <2>7. CASE k = "upload_failed" /\ t \in Uploads
      <3>1. NoticeOK(t) BY <2>7 DEF IInv, NoticeInv, NoticeOK
      <3> QED BY <2>1, <2>2, <2>3, <2>4, <2>5, <2>7, <3>1 DEF Accounted, NoticeOK, k, t
    <2> QED BY <2>1, <2>6, <2>7
  <1> QED BY <1>1, Invariance, PTL

\* Rows a session has flushed and not committed are worth one mail each, so the sessions
\* that spend bound them.
Flushed(u, d) == {r \in UNION {sess[s].rows: s \in Sess}:
                     r.user = u /\ r.kind \in Capped /\ r.day \in (d - Week)..d}

LEMMA FlushedBounded ==
  ASSUME TypeInv, NEW u \in Users, NEW d \in 0..LastDay
  PROVE  /\ IsFiniteSet(Flushed(u, d))
         /\ Cardinality(Flushed(u, d)) <= Cardinality(Spending(u, d))
  <1> DEFINE from == [r \in Flushed(u, d) |-> CHOOSE s \in Sess: r \in sess[s].rows]
  <1>1. ASSUME NEW r \in Flushed(u, d)
        PROVE  /\ from[r] \in Spending(u, d) /\ r \in sess[from[r]].rows /\ r.ref = u
    <2>1. \E s \in Sess: r \in sess[s].rows BY <1>1 DEF Flushed
    <2>2. from[r] \in Sess /\ r \in sess[from[r]].rows BY <1>1, <2>1
    <2>3. r.user = u /\ r.kind \in Capped /\ r.day \in (d - Week)..d BY <1>1 DEF Flushed
    <2>4. RowOK(r) /\ r.kind = sess[from[r]].kind BY <2>2 DEF TypeInv, RunOK
    <2> HIDE DEF from
    <2>5. from[r] \in Spending(u, d) BY <2>2, <2>3, <2>4 DEF Spending, IsSpending
    <2>6. r.ref \in Users BY <2>3, <2>4, CappedKinds DEF RowOK
    <2>7. r.ref = u BY <2>3, <2>4, <2>6, CampaignsAssumption DEF RowOK, UserOf
    <2> QED BY <2>2, <2>5, <2>7
  <1>2. DOMAIN from = Flushed(u, d) /\ from \in [Flushed(u, d) -> Spending(u, d)] BY <1>1
  <1> HIDE DEF from
  <1>3. ASSUME NEW p \in Flushed(u, d), NEW q \in Flushed(u, d), from[p] = from[q]
        PROVE  p = q
    <2>1. from[p] \in Sess BY <1>1 DEF Spending
    <2> QED BY <1>1, <1>3, <2>1 DEF TypeInv, RunOK
  <1>4. from \in Injection(Flushed(u, d), Spending(u, d)) BY <1>2, <1>3 DEF Injection, IsInjective
  <1>5. IsFiniteSet(Spending(u, d)) BY SpendingSet, SessSet
  <1> QED BY <1>4, <1>5, FS_Injection

\* _is_over_email_budget: of the mails that respect the budget a user gets, in any
\* stretch of its dates, no more than the budget and one for each rival session.
THEOREM BudgetSound == Spec => []WeeklyBudgetBounded
  <1>1. IInv => WeeklyBudgetBounded
    <2> SUFFICES ASSUME IInv, NEW u \in Users, NEW d \in 0..LastDay
                 PROVE  Cardinality({r \in logs \cup UNION {sess[s].rows: s \in Sess}:
                          r.user = u /\ r.kind \in Capped /\ r.day \in (d - Week)..d})
                            <= MaxPerWeek + Cardinality(Sess) - 1
      BY DEF WeeklyBudgetBounded
    <2>1. {r \in logs \cup UNION {sess[s].rows: s \in Sess}:
             r.user = u /\ r.kind \in Capped /\ r.day \in (d - Week)..d}
             = Spent(u, d) \cup Flushed(u, d)
      BY DEF Spent, Flushed
    <2>2. BudgetOK(u, d) BY DEF IInv, BudgetInv, BudgetOK
    <2>3. /\ IsFiniteSet(Flushed(u, d))
          /\ Cardinality(Flushed(u, d)) <= Cardinality(Spending(u, d))
      BY FlushedBounded DEF IInv
    <2>4. IsFiniteSet(Spent(u, d)) /\ Cardinality(Spent(u, d)) \in Nat
      BY SpentSet DEF IInv
    <2>5. Cardinality(Spent(u, d) \cup Flushed(u, d))
            = Cardinality(Spent(u, d)) + Cardinality(Flushed(u, d))
                - Cardinality(Spent(u, d) \cap Flushed(u, d))
      BY <2>3, <2>4, FS_Union
    <2>6. Spent(u, d) \cap Flushed(u, d) \in SUBSET Spent(u, d) OBVIOUS
    <2>7. /\ Cardinality(Spent(u, d) \cap Flushed(u, d)) \in Nat
          /\ Cardinality(Flushed(u, d)) \in Nat
      BY <2>3, <2>4, <2>6, FS_Subset, FS_CardinalityType
    <2>8. Cardinality(Spending(u, d)) \in Nat BY SpendingSet
    <2>9. MaxPerWeek \in Nat /\ Cardinality(Sess) \in Nat BY CampaignsAssumption, SessSet
    <2>10. Cardinality(Spent(u, d) \cup Flushed(u, d)) <= MaxPerWeek + Cardinality(Sess) - 1
      BY <2>2, <2>3, <2>4, <2>5, <2>7, <2>8, <2>9 DEF BudgetOK
    <2> QED BY <2>1, <2>10
  <1> QED BY <1>1, Invariance, PTL

\* An opt-out is overrun only by runs that loaded the user before it, once each.
THEOREM OptOutSound == Spec => []OptOutTakesEffect
  <1>1. IInv => OptOutTakesEffect BY DEF IInv, ConsentInv, OptOutTakesEffect
  <1> QED BY <1>1, Invariance, PTL
=============================================================================
