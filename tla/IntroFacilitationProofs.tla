---------------------- MODULE IntroFacilitationProofs -----------------------
(***************************************************************************)
(* Proofs about the intro lifecycle, for every number of intros, seekers,  *)
(* contacts and sessions, and for every price, limit and cap: its state is *)
(* well typed, money moves and stays moved only on settled intros, the     *)
(* award flag agrees with the books, the relay mails are traceable and     *)
(* recorded once, and no intro is ever reopened.                           *)
(***************************************************************************)
EXTENDS IntroFacilitation, TLAPS

InOp(s, ops) == sess[s].op \in ops
Approving(s) == InOp(s, {"approve"}) /\ sess[s].at # "read"

\* What a session that answers, confirms or handles an event may rely on: it read
\* an existing row, and what it does not check again cannot have changed.
RecordOK(r) ==
    /\ r.op \in {"approve", "decline", "confirm", "webhook"} =>
           r.f \in Fac /\ fac[r.f].status # "none"
    /\ r.op \in {"approve", "decline"} =>
           /\ r.seen.status = "requested"
           /\ ~r.seen.awarded
           /\ r.seen.relay = 0
    /\ r.op = "confirm" => Settled(r.f) /\ ~r.seen.awarded
    /\ r.op = "webhook" => Settled(r.f) /\ r.ev \in Events
    /\ \A f \in r.rows: fac[f].status # "none"
SessionOK(s) == RecordOK(sess[s])

\* An approval holds the row lock from its first UPDATE on, no mail bears its attempt
\* before it sends one, and the record it is about to write is the first of its intro.
ApprovalOK(s) ==
    Approving(s) =>
        /\ lock[sess[s].f] = s
        /\ sess[s].attempt \in 1..attempts
        /\ sess[s].at = "locked" => \A m \in mails: m[1] # sess[s].attempt
        /\ sess[s].at = "sent" \/ sess[s].logs => LogOf(sess[s].f) = {}

\* A session that has a message sent it for its own attempt, and records it.
MessageOK(s) ==
    /\ sess[s].logs => Approving(s)
    /\ sess[s].msg # 0 =>
        /\ Approving(s) /\ (sess[s].at = "sent" \/ sess[s].logs)
        /\ sess[s].msg = sess[s].attempt
        /\ <<sess[s].msg, sess[s].f>> \in mails

SessionsOK == \A s \in Sess: SessionOK(s) /\ ApprovalOK(s) /\ MessageOK(s)
AttemptsDiffer ==
    \A s, t \in Sess: Approving(s) /\ Approving(t) /\ s # t =>
                          sess[s].attempt # sess[t].attempt

\* Message ids are fresh, and name one intro.
MailsOK ==
    /\ \A m \in mails: m[1] \in 1..attempts
    /\ \A m1, m2 \in mails: m1[1] = m2[1] => m1 = m2
PostedOK == \A e \in posted: e[1] # 0

RelayLogged ==
    \A f \in Fac: fac[f].relay # 0 => /\ Settled(f)
                                      /\ <<fac[f].relay, f>> \in mails
                                      /\ LogOf(f) # {}

\* The inductive invariant.
IInv == /\ TypeOK /\ SessionsOK /\ AttemptsDiffer /\ MailsOK /\ PostedOK
        /\ RelayLogged /\ OneRelayRecord
        /\ MoneyOnlyWhenSettled /\ AwardFlagMatchesBooks
-----------------------------------------------------------------------------
\* Type correctness.

LEMMA IdleType == Idle \in SessRec /\ Unborn \in FacRow
  BY IntroAssumption DEF Idle, SessRec, Unborn, FacRow, AllOps, Statuses, Methods,
                         Deliveries, Events

\* What the unit of work writes is a row again, column by column.
LEMMA MergeType ==
  ASSUME NEW db \in FacRow, NEW seen \in FacRow, NEW new \in FacRow
  PROVE  /\ Merge(db, seen, new) \in FacRow
         /\ Merge(db, seen, new).status = Written(db.status, seen.status, new.status)
         /\ Merge(db, seen, new).relay = Written(db.relay, seen.relay, new.relay)
         /\ Merge(db, seen, new).awarded
              = Written(db.awarded, seen.awarded, new.awarded)
  <1>1. /\ Written(db.status, seen.status, new.status) \in Statuses
        /\ Written(db.method, seen.method, new.method) \in Methods
        /\ Written(db.delivery, seen.delivery, new.delivery) \in Deliveries
        /\ Written(db.relay, seen.relay, new.relay) \in Nat
        /\ Written(db.token, seen.token, new.token) \in Nat
    BY DEF Written, FacRow
  <1>2. Written(db.awarded, seen.awarded, new.awarded) \in BOOLEAN
    <2>1. db.awarded \in BOOLEAN /\ new.awarded \in BOOLEAN BY DEF FacRow
    <2> QED BY <2>1, Zenon DEF Written
  <1>3. Merge(db, seen, new) \in FacRow BY <1>1, <1>2 DEF Merge, FacRow
  <1> QED BY <1>1, <1>2, <1>3 DEF Merge, FacRow

\* The rows the handlers write.
ConfirmedRow(r) ==
  [r.seen EXCEPT !.method = "linkedin_manual", !.delivery = "delivered",
                 !.awarded = ManualAward /\ AwardFits(DeliveryAward)]
HandledRow(r) ==
  [r.seen EXCEPT !.delivery = r.ev,
                 !.awarded = @ \/ (Pays(r) /\ AwardFits(AwardOf(r.ev)))]

LEMMA NewRowTypes ==
  ASSUME NEW r \in SessRec
  PROVE  /\ [r.seen EXCEPT !.status = "declined"] \in FacRow
         /\ Approved(r) \in FacRow
         /\ ConfirmedRow(r) \in FacRow
         /\ r.ev \in Events => HandledRow(r) \in FacRow
         /\ r.seen \in FacRow
  <1>1. r.seen \in FacRow /\ r.msg \in Nat /\ r.attempt \in Nat BY DEF SessRec
  <1>2. [r.seen EXCEPT !.status = "declined"] \in FacRow
    BY <1>1 DEF FacRow, Statuses
  <1>3. Approved(r) \in FacRow
    BY <1>1 DEF Approved, FacRow, Statuses, Methods, Deliveries
  <1>4. (ManualAward /\ AwardFits(DeliveryAward)) \in BOOLEAN OBVIOUS
  <1>5. ConfirmedRow(r) \in FacRow
    BY <1>1, <1>4 DEF ConfirmedRow, FacRow, Methods, Deliveries
  <1>6. (r.seen.awarded \/ (Pays(r) /\ AwardFits(AwardOf(r.ev)))) \in BOOLEAN
    OBVIOUS
  <1>7. r.ev \in Events => HandledRow(r) \in FacRow
    BY <1>1, <1>6 DEF HandledRow, FacRow, Deliveries, Events
  <1> QED BY <1>1, <1>2, <1>3, <1>5, <1>7

\* A handler that only reads changes the record of its session.
ReadOnly(s, r) ==
  /\ Becomes(s, r)
  /\ UNCHANGED <<rowVars, listVars, mailVars, eventVars, day>>

LEMMA ReadOnlyType ==
  ASSUME TypeOK, NEW s \in Sess, NEW r \in SessRec, ReadOnly(s, r)
  PROVE  TypeOK'
  <1>1. sess' \in [Sess -> SessRec] BY DEF TypeOK, ReadOnly, Becomes
  <1> QED BY <1>1 DEF TypeOK, ReadOnly, rowVars, listVars, mailVars, eventVars

\* Each of the seven reading actions, with the record it leaves in its session.
LEMMA ArriveReads ==
  ASSUME TypeOK, NEW s \in Sess
  PROVE  /\ \A j \in Seekers, l \in listings: RequestRead(s, j, l) =>
               LET r == [Idle EXCEPT !.op = "request", !.seeker = j, !.listing = l]
               IN r \in SessRec /\ ReadOnly(s, r)
         /\ \A f \in Fac: ApproveRead(s, f) =>
               LET r == [Idle EXCEPT !.op = "approve", !.f = f, !.seen = fac[f]]
               IN r \in SessRec /\ ReadOnly(s, r)
         /\ \A f \in Fac: DeclineRead(s, f) =>
               LET r == [Idle EXCEPT !.op = "decline", !.f = f, !.seen = fac[f]]
               IN r \in SessRec /\ ReadOnly(s, r)
         /\ \A f \in Fac: ConfirmRead(s, f) =>
               LET r == [Idle EXCEPT !.op = "confirm", !.f = f, !.seen = fac[f]]
               IN r \in SessRec /\ ReadOnly(s, r)
         /\ \A f \in Fac, e \in Events: WebhookRead(s, f, e) =>
               LET r == [Idle EXCEPT !.op = "webhook", !.f = f, !.seen = fac[f],
                                     !.ev = e]
               IN r \in SessRec /\ ReadOnly(s, r)
         /\ OptOutRead(s) =>
               LET r == [Idle EXCEPT !.op = "optout", !.live = listings,
                             !.rows = {f \in Fac: fac[f].status = "requested"}]
               IN r \in SessRec /\ ReadOnly(s, r)
         /\ \A op \in {"upload", "optin"}: RegenerateRead(s, op) =>
               LET r == [Idle EXCEPT !.op = op, !.live = listings,
                                     !.who = Contacts \ purged]
               IN r \in SessRec /\ ReadOnly(s, r)
  <1> USE IdleType DEF TypeOK, SessRec, AllOps, ReadOnly
  <1>1. ASSUME NEW j \in Seekers, NEW l \in listings, RequestRead(s, j, l)
        PROVE  LET r == [Idle EXCEPT !.op = "request", !.seeker = j, !.listing = l]
               IN r \in SessRec /\ ReadOnly(s, r)
    BY <1>1 DEF RequestRead
  <1>2. ASSUME NEW f \in Fac, ApproveRead(s, f)
        PROVE  LET r == [Idle EXCEPT !.op = "approve", !.f = f, !.seen = fac[f]]
               IN r \in SessRec /\ ReadOnly(s, r)
    BY <1>2 DEF ApproveRead
  <1>3. ASSUME NEW f \in Fac, DeclineRead(s, f)
        PROVE  LET r == [Idle EXCEPT !.op = "decline", !.f = f, !.seen = fac[f]]
               IN r \in SessRec /\ ReadOnly(s, r)
    BY <1>3 DEF DeclineRead
  <1>4. ASSUME NEW f \in Fac, ConfirmRead(s, f)
        PROVE  LET r == [Idle EXCEPT !.op = "confirm", !.f = f, !.seen = fac[f]]
               IN r \in SessRec /\ ReadOnly(s, r)
    BY <1>4 DEF ConfirmRead
  <1>5. ASSUME NEW f \in Fac, NEW e \in Events, WebhookRead(s, f, e)
        PROVE  LET r == [Idle EXCEPT !.op = "webhook", !.f = f, !.seen = fac[f],
                                     !.ev = e]
               IN r \in SessRec /\ ReadOnly(s, r)
    BY <1>5 DEF WebhookRead
  <1>6. ASSUME OptOutRead(s)
        PROVE  LET r == [Idle EXCEPT !.op = "optout", !.live = listings,
                             !.rows = {f \in Fac: fac[f].status = "requested"}]
               IN r \in SessRec /\ ReadOnly(s, r)
    BY <1>6 DEF OptOutRead
  <1>7. ASSUME NEW op \in {"upload", "optin"}, RegenerateRead(s, op)
        PROVE  LET r == [Idle EXCEPT !.op = op, !.live = listings,
                                     !.who = Contacts \ purged]
               IN r \in SessRec /\ ReadOnly(s, r)
    <2>1. [Idle EXCEPT !.op = op, !.live = listings, !.who = Contacts \ purged]
            \in SessRec
      OBVIOUS
    <2>2. /\ Becomes(s, [Idle EXCEPT !.op = op, !.live = listings,
                                     !.who = Contacts \ purged])
          /\ UNCHANGED <<rowVars, listVars, mailVars, eventVars, day>>
      BY <1>7, Zenon DEF RegenerateRead
    <2> QED BY <2>1, <2>2
  <1> QED BY <1>1, <1>2, <1>3, <1>4, <1>5, <1>6, <1>7

\* TypeOK is inductive once an approval is known to work on a row.
WorksOnRow == \A s \in Sess:
    /\ InOp(s, {"approve", "decline", "confirm", "webhook"}) => sess[s].f \in Fac
    /\ InOp(s, {"webhook"}) => sess[s].ev \in Events

LEMMA Prices == /\ IntroPrice \in Nat /\ DeclineRefund \in Nat
                /\ DeliveryAward \in Nat /\ BounceAward \in Nat
  BY IntroAssumption

LEMMA PaidType ==
  ASSUME NEW S, NEW g \in [S -> Int], NEW x, NEW a \in Int
  PROVE  /\ [g EXCEPT ![x] = @ + a] \in [S -> Int]
         /\ [g EXCEPT ![x] = @ - a] \in [S -> Int]
  <1>1. CASE x \in S BY <1>1
  <1>2. CASE x \notin S BY <1>2
  <1> QED BY <1>1, <1>2

LEMMA CountedType ==
  ASSUME NEW u \in [request: [Seekers -> Nat], approve: Nat, confirm: Nat,
                    approvals: Nat]
  PROVE  [u EXCEPT !.approve = @ + 1, !.approvals = @ + 1]
           \in [request: [Seekers -> Nat], approve: Nat, confirm: Nat, approvals: Nat]
  <1>1. u.approve + 1 \in Nat /\ u.approvals + 1 \in Nat OBVIOUS
  <1> QED BY <1>1

\* The records an approval goes through.
LEMMA ApprovalTypes ==
  ASSUME NEW r \in SessRec, NEW n \in Nat, NEW rep \in Nat, NEW d \in 0..LastDay
  PROVE  /\ [r EXCEPT !.attempt = n,
                      !.at = IF ContactOf(r.seen) \in EmailContacts
                             THEN "locked" ELSE "ready",
                      !.rep = rep] \in SessRec
         /\ [r EXCEPT !.at = "ready", !.rep = rep] \in SessRec
         /\ [r EXCEPT !.at = "sent", !.msg = r.attempt] \in SessRec
         /\ [r EXCEPT !.at = "sent"] \in SessRec
         /\ [r EXCEPT !.at = "ready", !.logs = TRUE, !.on = d, !.rep = rep] \in SessRec
  <1>1. \A at \in {"locked", "ready"}:
          [r EXCEPT !.attempt = n, !.at = at, !.rep = rep] \in SessRec
    BY DEF SessRec
  <1>2. [r EXCEPT !.at = "ready", !.rep = rep] \in SessRec BY DEF SessRec
  <1>3. [r EXCEPT !.at = "sent"] \in SessRec BY DEF SessRec
  <1>4. r.attempt \in Nat BY DEF SessRec
  <1>5. [r EXCEPT !.at = "sent", !.msg = r.attempt] \in SessRec BY <1>4 DEF SessRec
  <1>6. [r EXCEPT !.at = "ready", !.logs = TRUE, !.on = d, !.rep = rep] \in SessRec
    BY DEF SessRec
  <1> QED BY <1>1, <1>2, <1>3, <1>5, <1>6

LEMMA TypeStep ==
  ASSUME TypeOK, WorksOnRow, [Next]_vars
  PROVE  TypeOK'
  <1> DEFINE Books == [charged: Nat, refunded: Nat, awarded: Nat]
  <1> USE IdleType
  <1>1. CASE UNCHANGED vars
    BY <1>1 DEF TypeOK, vars, rowVars, listVars, mailVars, eventVars
  <1>2. ASSUME NEW s \in Sess, Arrive(s) PROVE TypeOK'
    <2>1. ASSUME NEW j \in Seekers, NEW l \in listings, RequestRead(s, j, l)
          PROVE  TypeOK'
      BY <2>1, ArriveReads, ReadOnlyType
    <2>2. ASSUME NEW f \in Fac, ApproveRead(s, f) PROVE TypeOK'
      BY <2>2, ArriveReads, ReadOnlyType
    <2>3. ASSUME NEW f \in Fac, DeclineRead(s, f) PROVE TypeOK'
      BY <2>3, ArriveReads, ReadOnlyType
    <2>4. ASSUME NEW f \in Fac, ConfirmRead(s, f) PROVE TypeOK'
      BY <2>4, ArriveReads, ReadOnlyType
    <2>5. ASSUME NEW f \in Fac, RevokeToken(s, f) PROVE TypeOK'
      <3>1. [fac[f] EXCEPT !.token = 0] \in FacRow BY DEF TypeOK, FacRow
      <3>2. fac' \in [Fac -> FacRow] BY <2>5, <3>1 DEF TypeOK, RevokeToken
      <3> QED BY <2>5, <3>2 DEF TypeOK, RevokeToken, listVars, mailVars, eventVars
    <2>6. ASSUME NEW f \in Fac, NEW e \in Events, WebhookRead(s, f, e) PROVE TypeOK'
      BY <2>6, ArriveReads, ReadOnlyType
    <2>7. ASSUME OptOutRead(s) PROVE TypeOK'
      BY <2>7, ArriveReads, ReadOnlyType
    <2>8. ASSUME NEW op \in {"upload", "optin"}, RegenerateRead(s, op) PROVE TypeOK'
      BY <2>8, ArriveReads, ReadOnlyType
    <2>9. ASSUME NEW c \in Contacts, Purge(s, c) PROVE TypeOK'
      <3>1. \A f \in Fac: [fac[f] EXCEPT !.status = "expired"] \in FacRow
        BY DEF TypeOK, FacRow, Statuses
      <3>2. fac' \in [Fac -> FacRow] BY <2>9, <3>1 DEF TypeOK, Purge
      <3> QED BY <2>9, <3>2 DEF TypeOK, Purge, mailVars, eventVars
    <2> QED BY <1>2, <2>1, <2>2, <2>3, <2>4, <2>5, <2>6, <2>7, <2>8, <2>9 DEF Arrive
  <1>3. ASSUME NEW s \in Sess, Progress(s) PROVE TypeOK'
    <2> DEFINE r == sess[s]
    <2>0. r \in SessRec BY DEF TypeOK
    <2>1. ASSUME NEW f \in Fac, RequestCommit(s, f) PROVE TypeOK'
      <3>1. [Unborn EXCEPT !.status = "requested", !.seeker = r.seeker,
                           !.listing = r.listing] \in FacRow
        BY <2>0 DEF SessRec, FacRow, Statuses
      <3>2. fac' \in [Fac -> FacRow] BY <2>1, <3>1 DEF TypeOK, RequestCommit
      <3>3. books' \in [Fac -> Books] BY <2>1 DEF TypeOK, RequestCommit
      <3>4. credits' \in [Seekers -> Int]
        <4>1. credits' = [credits EXCEPT ![r.seeker] = @ - IntroPrice]
          BY <2>1 DEF RequestCommit
        <4>2. credits \in [Seekers -> Int] BY DEF TypeOK
        <4>3. IntroPrice \in Int /\ DeclineRefund \in Int BY Prices
        <4> QED BY <4>1, <4>2, <4>3, PaidType
      <3>5. usage' \in [request: [Seekers -> Nat], approve: Nat, confirm: Nat,
                        approvals: Nat]
        BY <2>1 DEF TypeOK, RequestCommit
      <3>6. sess' \in [Sess -> SessRec] BY <2>1 DEF TypeOK, RequestCommit, Becomes
      <3> QED BY <2>1, <3>2, <3>3, <3>4, <3>5, <3>6
              DEF TypeOK, RequestCommit, listVars, mailVars, eventVars
    <2>2. ASSUME ApproveLock(s) PROVE TypeOK'
      <3>1. [r EXCEPT !.attempt = attempts + 1,
                      !.at = IF ContactOf(r.seen) \in EmailContacts
                             THEN "locked" ELSE "ready",
                      !.rep = intros] \in SessRec
        <4>1. attempts + 1 \in Nat /\ intros \in Nat /\ day \in 0..LastDay
          BY DEF TypeOK
        <4> HIDE DEF r
        <4> QED BY <2>0, <4>1, ApprovalTypes
      <3>2. sess' \in [Sess -> SessRec] BY <2>2, <3>1 DEF TypeOK, ApproveLock, Becomes
      <3>3. lock' \in [Fac -> Sess \cup {None}] BY <2>2 DEF TypeOK, ApproveLock
      <3> QED BY <2>2, <3>2, <3>3 DEF TypeOK, ApproveLock, listVars, eventVars
    <2>3. ASSUME RelaySkip(s) PROVE TypeOK'
      <3>1. [r EXCEPT !.at = "ready", !.rep = intros] \in SessRec
        BY <2>0, ApprovalTypes DEF TypeOK
      <3> QED BY <2>3, <3>1, ReadOnlyType DEF RelaySkip, ReadOnly
    <2>4. ASSUME RelaySend(s) PROVE TypeOK'
      <3>1. /\ [r EXCEPT !.at = "sent", !.msg = r.attempt] \in SessRec
            /\ [r EXCEPT !.at = "sent"] \in SessRec
        <4>1. intros \in Nat /\ day \in 0..LastDay BY DEF TypeOK
        <4> HIDE DEF r
        <4> QED BY <2>0, <4>1, ApprovalTypes
      <3>2. sess' \in [Sess -> SessRec] BY <2>4, <3>1 DEF TypeOK, RelaySend, Becomes
      <3>3. <<r.attempt, r.f>> \in Nat \X Fac
        BY <2>0, <2>4 DEF WorksOnRow, InOp, RelaySend, Doing, SessRec
      <3>4. mails' \subseteq Nat \X Fac BY <2>4, <3>3 DEF TypeOK, RelaySend
      <3> QED BY <2>4, <3>2, <3>4 DEF TypeOK, RelaySend, rowVars, listVars, eventVars
    <2>5. ASSUME RelayRecord(s) PROVE TypeOK'
      <3>1. [r EXCEPT !.at = "ready", !.logs = TRUE, !.on = day, !.rep = intros]
              \in SessRec
        BY <2>0, ApprovalTypes DEF TypeOK
      <3> QED BY <2>5, <3>1, ReadOnlyType DEF RelayRecord, ReadOnly
    <2>6. ASSUME RelayRecordFails(s) PROVE TypeOK'
      <3>1. sess' \in [Sess -> SessRec] BY <2>6 DEF TypeOK, RelayRecordFails, Becomes
      <3>2. lock' \in [Fac -> Sess \cup {None}] BY <2>6 DEF TypeOK, RelayRecordFails
      <3> QED BY <2>6, <3>1, <3>2
              DEF TypeOK, RelayRecordFails, listVars, mailVars, eventVars
    <2>7. ASSUME ApproveCommit(s) PROVE TypeOK'
      <3>1. r.f \in Fac BY <2>7 DEF ApproveCommit, Doing, WorksOnRow, InOp
      <3>2. Merge(fac[r.f], r.seen, Approved(r)) \in FacRow
        BY <2>0, <3>1, NewRowTypes, MergeType DEF TypeOK
      <3>3. fac' \in [Fac -> FacRow] BY <2>7, <3>2 DEF TypeOK, ApproveCommit
      <3>4. lock' \in [Fac -> Sess \cup {None}] BY <2>7 DEF TypeOK, ApproveCommit
      <3>5. relayLog' \subseteq Fac \X (0..LastDay)
        BY <2>0, <2>7, <3>1 DEF TypeOK, ApproveCommit, SessRec
      <3>6. intros' \in Nat BY <2>0, <2>7 DEF ApproveCommit, SessRec
      <3>7. usage' \in [request: [Seekers -> Nat], approve: Nat, confirm: Nat,
                        approvals: Nat]
        <4>1. usage' = [usage EXCEPT !.approve = @ + 1, !.approvals = @ + 1]
          BY <2>7 DEF ApproveCommit
        <4> QED BY <4>1, CountedType DEF TypeOK
      <3>8. sess' \in [Sess -> SessRec] BY <2>7 DEF TypeOK, ApproveCommit, Becomes
      <3> QED BY <2>7, <3>3, <3>4, <3>5, <3>6, <3>7, <3>8
              DEF TypeOK, ApproveCommit, listVars, eventVars
    <2>8. ASSUME DeclineCommit(s) PROVE TypeOK'
      <3>1. r.f \in Fac BY <2>8 DEF DeclineCommit, Doing, WorksOnRow, InOp
      <3>2. Merge(fac[r.f], r.seen, [r.seen EXCEPT !.status = "declined"]) \in FacRow
        BY <2>0, <3>1, NewRowTypes, MergeType DEF TypeOK
      <3>3. fac' \in [Fac -> FacRow] BY <2>8, <3>2 DEF TypeOK, DeclineCommit
      <3>4. sess' \in [Sess -> SessRec] BY <2>8 DEF TypeOK, DeclineCommit, Becomes
      <3>5. books' \in [Fac -> Books]
        <4>1. books' = [books EXCEPT ![r.f].refunded = @ + 1]
          BY <2>8 DEF DeclineCommit
        <4> QED BY <3>1, <4>1 DEF TypeOK
      <3>6. credits' \in [Seekers -> Int]
        <4>1. credits' = [credits EXCEPT ![r.seen.seeker] = @ + DeclineRefund]
          BY <2>8 DEF DeclineCommit
        <4>2. credits \in [Seekers -> Int] BY DEF TypeOK
        <4>3. IntroPrice \in Int /\ DeclineRefund \in Int BY Prices
        <4> QED BY <4>1, <4>2, <4>3, PaidType
      <3> QED BY <2>8, <3>3, <3>4, <3>5, <3>6
              DEF TypeOK, DeclineCommit, listVars, mailVars, eventVars
    <2>9. ASSUME ConfirmCommit(s) PROVE TypeOK'
      <3>1. r.f \in Fac BY <2>9 DEF ConfirmCommit, Doing, WorksOnRow, InOp
      <3>2. Merge(fac[r.f], r.seen, ConfirmedRow(r)) \in FacRow
        BY <2>0, <3>1, NewRowTypes, MergeType DEF TypeOK
      <3>3. fac' \in [Fac -> FacRow]
        BY <2>9, <3>2 DEF TypeOK, ConfirmCommit, ConfirmedRow
      <3>4. sess' \in [Sess -> SessRec] BY <2>9 DEF TypeOK, ConfirmCommit, Becomes
      <3>5. books' \in [Fac -> Books] /\ earned' \in Nat
        BY <2>9, IntroAssumption DEF TypeOK, ConfirmCommit, Award
      <3>6. usage' \in [request: [Seekers -> Nat], approve: Nat, confirm: Nat,
                        approvals: Nat]
        BY <2>9 DEF TypeOK, ConfirmCommit
      <3> QED BY <2>9, <3>3, <3>4, <3>5, <3>6
              DEF TypeOK, ConfirmCommit, listVars, mailVars, eventVars
    <2>10. ASSUME WebhookCommit(s) PROVE TypeOK'
      <3>1. r.f \in Fac /\ r.ev \in Events
        BY <2>10 DEF WebhookCommit, Doing, WorksOnRow, InOp
      <3>2. Merge(fac[r.f], r.seen, HandledRow(r)) \in FacRow
        BY <2>0, <3>1, NewRowTypes, MergeType DEF TypeOK
      <3>3. fac' \in [Fac -> FacRow]
        BY <2>10, <3>2 DEF TypeOK, WebhookCommit, HandledRow
      <3>4. sess' \in [Sess -> SessRec] BY <2>10 DEF TypeOK, WebhookCommit, Becomes
      <3>5. AwardOf(r.ev) \in Nat BY Prices DEF AwardOf
      <3>6. books' \in [Fac -> Books] /\ earned' \in Nat
        <4>1. Award(r.f, AwardOf(r.ev)) \/ UNCHANGED <<books, earned>>
          BY <2>10 DEF WebhookCommit
        <4> QED BY <3>1, <4>1, <3>5 DEF TypeOK, Award
      <3>7. queue' \subseteq posted' BY <2>10 DEF TypeOK, WebhookCommit
      <3>8. unpaid' \subseteq Nat
        <4>1. r.seen.relay \in Nat BY <2>0 DEF SessRec, FacRow
        <4> QED BY <2>10, <4>1 DEF TypeOK, WebhookCommit
      <3> QED BY <2>10, <3>3, <3>4, <3>6, <3>7, <3>8
              DEF TypeOK, WebhookCommit, listVars, mailVars
    <2>11. ASSUME OptOutCommit(s) PROVE TypeOK'
      <3>1. \A f \in Fac: [fac[f] EXCEPT !.status = "expired"] \in FacRow
        BY DEF TypeOK, FacRow, Statuses
      <3>2. fac' \in [Fac -> FacRow] BY <2>11, <3>1 DEF TypeOK, OptOutCommit
      <3>3. sess' \in [Sess -> SessRec] BY <2>11 DEF TypeOK, OptOutCommit, Becomes
      <3> QED BY <2>11, <3>2, <3>3 DEF TypeOK, OptOutCommit, mailVars, eventVars
    <2>12. ASSUME RegenerateCommit(s) PROVE TypeOK'
      <3>1. gens' \in [Contacts -> 1..MaxGens]
        BY <2>12, IntroAssumption DEF TypeOK, RegenerateCommit
      <3>2. {<<c, gens[c] + 1>>: c \in r.who} \subseteq Listing
        BY <2>0, <2>12, IntroAssumption
           DEF TypeOK, RegenerateCommit, Listing, SessRec
      <3>3. listings' \subseteq Listing BY <2>12, <3>2 DEF TypeOK, RegenerateCommit
      <3>4. sess' \in [Sess -> SessRec] BY <2>12 DEF TypeOK, RegenerateCommit, Becomes
      <3>5. optedIn' \in BOOLEAN BY <2>12, Zenon DEF RegenerateCommit
      <3> QED BY <2>12, <3>1, <3>3, <3>4, <3>5
              DEF TypeOK, RegenerateCommit, rowVars, mailVars, eventVars
    <2> QED BY <1>3, <2>1, <2>2, <2>3, <2>4, <2>5, <2>6, <2>7, <2>8, <2>9, <2>10,
              <2>11, <2>12 DEF Progress
  <1>4. ASSUME NEW s \in Sess, Abort(s) PROVE TypeOK'
    <2>1. sess' \in [Sess -> SessRec] BY <1>4 DEF TypeOK, Abort, Becomes
    <2>2. lock' \in [Fac -> Sess \cup {None}] BY <1>4 DEF TypeOK, Abort
    <2> QED BY <1>4, <2>1, <2>2 DEF TypeOK, Abort, listVars, mailVars, eventVars
  <1>5. ASSUME NEW n \in 1..attempts, NEW e \in Events, ResendIssues(n, e)
        PROVE  TypeOK'
    <2>1. <<n, e>> \in Nat \X Events BY DEF TypeOK
    <2> QED BY <1>5, <2>1 DEF TypeOK, ResendIssues, rowVars, listVars, mailVars
  <1>6. ASSUME NEW n \in 1..attempts, NEW e \in Events, ResendRepeats(n, e)
        PROVE  TypeOK'
    <2>1. queue' \subseteq posted' /\ posted' = posted /\ dups' \in Nat
      BY <1>6 DEF TypeOK, ResendRepeats
    <2> QED BY <1>6, <2>1 DEF TypeOK, ResendRepeats, rowVars, listVars, mailVars
  <1>7. ASSUME NEW n \in 1..attempts, NEW e \in Events, NEW s \in Sess,
               WebhookUnmatched(s, n, e)
        PROVE  TypeOK'
    <2>1. unpaid' \subseteq Nat
      <3>1. n \in Nat BY DEF TypeOK
      <3>2. CASE e = "delivered" BY <1>7, <3>1, <3>2 DEF TypeOK, WebhookUnmatched
      <3>3. CASE e # "delivered" BY <1>7, <3>3 DEF TypeOK, WebhookUnmatched
      <3> QED BY <3>2, <3>3
    <2> QED BY <1>7, <2>1 DEF TypeOK, WebhookUnmatched, rowVars, listVars, mailVars
  <1>8. CASE NextDay
    <2>1. usage' \in [request: [Seekers -> Nat], approve: Nat, confirm: Nat,
                      approvals: Nat]
      BY <1>8 DEF TypeOK, NextDay
    <2>2. day' \in 0..LastDay BY <1>8, IntroAssumption DEF TypeOK, NextDay
    <2> QED BY <1>8, <2>1, <2>2 DEF TypeOK, NextDay, listVars, mailVars, eventVars
  <1> QED BY <1>1, <1>2, <1>3, <1>4, <1>5, <1>6, <1>7, <1>8 DEF Next
-----------------------------------------------------------------------------
\* Safety.

\* What no step may undo.
Kept == \A f \in Fac:
    /\ fac[f].status # "none" => fac'[f].status # "none"
    /\ Settled(f) => Settled(f)'
    /\ fac[f].awarded => fac'[f].awarded
    /\ fac[f].relay # 0 => fac'[f].relay = fac[f].relay

\* A step of session s that touches no lock, mail or record of another session.
Own(s) ==
    /\ \A f \in Fac: lock[f] \notin {s, None} => lock'[f] = lock[f]
    /\ attempts' \in Nat /\ attempts' >= attempts
    /\ mails \subseteq mails'
    /\ \A m \in mails' \ mails: Approving(s) /\ m[1] = sess[s].attempt
    /\ \A f \in Fac: lock[f] # s => LogOf(f)' = LogOf(f)

LEMMA OthersOK ==
  ASSUME IInv, Kept, NEW s \in Sess, NEW r, Becomes(s, r), Own(s)
  PROVE  \A t \in Sess \ {s}: SessionOK(t)' /\ ApprovalOK(t)' /\ MessageOK(t)'
  <1> SUFFICES ASSUME NEW t \in Sess \ {s}
               PROVE  SessionOK(t)' /\ ApprovalOK(t)' /\ MessageOK(t)'
    OBVIOUS
  <1>1. sess'[t] = sess[t] BY DEF Becomes, IInv, TypeOK
  <1>2. SessionOK(t) /\ ApprovalOK(t) /\ MessageOK(t) BY DEF IInv, SessionsOK
  <1>3. sess[t].rows \subseteq Fac BY DEF IInv, TypeOK, SessRec
  <1>4. SessionOK(t)'
    <2>1. \A f \in sess[t].rows: fac'[f].status # "none"
      BY <1>2, <1>3 DEF SessionOK, RecordOK, Kept
    <2> QED BY <1>1, <1>2, <2>1 DEF SessionOK, RecordOK, Kept, InOp, Settled
  <1>5. ApprovalOK(t)'
    <2> SUFFICES ASSUME Approving(t) PROVE ApprovalOK(t)'
      BY <1>1 DEF ApprovalOK, Approving, InOp
    <2>1. sess[t].f \in Fac BY <1>2 DEF SessionOK, RecordOK, Approving, InOp
    <2>2. lock[sess[t].f] = t BY <1>2 DEF ApprovalOK
    <2>3. t # None BY IntroAssumption
    <2>4. lock'[sess[t].f] = t BY <2>1, <2>2, <2>3 DEF Own
    <2>5. LogOf(sess[t].f)' = LogOf(sess[t].f)
      <3>1. \A f \in Fac: lock[f] # s => LogOf(f)' = LogOf(f) BY DEF Own
      <3>2. LogOf(sess[t].f)' = {e \in relayLog': e[1] = sess[t].f}
        BY <1>1 DEF LogOf
      <3> QED BY <2>1, <2>2, <3>1, <3>2 DEF LogOf
    <2>6. sess[t].attempt \in 1..attempts' BY <1>2 DEF ApprovalOK, Own, IInv, TypeOK
    <2>7. sess[t].at = "locked" => \A m \in mails': m[1] # sess[t].attempt
      <3>1. Approving(s) => sess[t].attempt # sess[s].attempt
        BY DEF IInv, AttemptsDiffer
      <3> QED BY <1>2, <3>1 DEF ApprovalOK, Own
    <2> QED BY <1>1, <1>2, <2>4, <2>5, <2>6, <2>7 DEF ApprovalOK, Approving, InOp
  <1>6. MessageOK(t)'
    BY <1>1, <1>2 DEF MessageOK, Own, Approving, InOp
  <1> QED BY <1>4, <1>5, <1>6

\* A session that ends, by a commit or a rollback, leaves nothing to rely on.
LEMMA EndsOK ==
  ASSUME IInv, Kept, NEW s \in Sess, Becomes(s, Idle), Own(s)
  PROVE  SessionsOK' /\ AttemptsDiffer'
  <1>1. sess' = [sess EXCEPT ![s] = Idle] /\ sess \in [Sess -> SessRec]
    BY DEF Becomes, IInv, TypeOK
  <1>2. SessionOK(s)' /\ ApprovalOK(s)' /\ MessageOK(s)'
    BY <1>1 DEF SessionOK, RecordOK, ApprovalOK, MessageOK, InOp, Approving, Idle
  <1>3. AttemptsDiffer'
    BY <1>1 DEF IInv, AttemptsDiffer, Approving, InOp, Idle
  <1> QED BY <1>2, <1>3, OthersOK DEF SessionsOK

\* A step that leaves the money, the relay ids and the mails of every row alone.
RowsQuiet ==
    /\ \A f \in Fac: /\ fac[f].status # "none" => fac'[f].status # "none"
                     /\ Settled(f) => Settled(f)'
                     /\ fac'[f].awarded = fac[f].awarded
                     /\ fac'[f].relay = fac[f].relay
                     /\ books'[f].refunded = books[f].refunded
                     /\ books'[f].awarded = books[f].awarded
    /\ relayLog' = relayLog

LEMMA QuietOK ==
  ASSUME IInv, RowsQuiet, mails \subseteq mails'
  PROVE  /\ Kept /\ RelayLogged' /\ OneRelayRecord'
         /\ MoneyOnlyWhenSettled' /\ AwardFlagMatchesBooks'
  <1>1. Kept BY DEF RowsQuiet, Kept
  <1>2. RelayLogged' BY DEF IInv, RelayLogged, RowsQuiet, LogOf, Settled
  <1>3. OneRelayRecord' BY DEF IInv, OneRelayRecord, RowsQuiet, LogOf
  <1>4. MoneyOnlyWhenSettled' BY DEF IInv, MoneyOnlyWhenSettled, RowsQuiet, Settled
  <1>5. AwardFlagMatchesBooks' BY DEF IInv, AwardFlagMatchesBooks, RowsQuiet
  <1> QED BY <1>1, <1>2, <1>3, <1>4, <1>5
-----------------------------------------------------------------------------
\* The steps of the handlers.

LEMMA SessionsWork == ASSUME IInv PROVE TypeOK /\ WorksOnRow
  BY DEF IInv, SessionsOK, SessionOK, RecordOK, WorksOnRow, InOp

\* A read adds nothing to what a session may rely on but what it has just seen.
LEMMA ReadOK ==
  ASSUME IInv, TypeOK', NEW s \in Sess, NEW r \in SessRec, ReadOnly(s, r),
         r.at = "read", r.msg = 0, r.logs = FALSE, RecordOK(r)
  PROVE  IInv' /\ Kept
  <1>1. RowsQuiet /\ mails' = mails /\ lock' = lock /\ attempts' = attempts
    BY DEF ReadOnly, RowsQuiet, rowVars, mailVars, Settled
  <1>2. relayLog' = relayLog /\ posted' = posted
    BY DEF ReadOnly, mailVars, eventVars
  <1>3. Kept /\ RelayLogged' /\ OneRelayRecord' /\ MoneyOnlyWhenSettled'
          /\ AwardFlagMatchesBooks'
    BY <1>1, QuietOK
  <1>4. Own(s) BY <1>1, <1>2 DEF Own, LogOf, IInv, TypeOK
  <1>5. sess'[s] = r /\ \A t \in Sess \ {s}: sess'[t] = sess[t]
    BY DEF ReadOnly, Becomes, IInv, TypeOK
  <1>6. ~Approving(s)' BY <1>5 DEF Approving
  <1>a. SessionOK(s)'
    <2>1. fac' = fac BY DEF ReadOnly, rowVars
    <2> QED BY <1>5, <2>1 DEF SessionOK, RecordOK, Settled
  <1>7. ApprovalOK(s)' /\ MessageOK(s)' BY <1>5, <1>6 DEF ApprovalOK, MessageOK
  <1>8. Becomes(s, r) BY DEF ReadOnly
  <1>9. SessionsOK' BY <1>3, <1>4, <1>a, <1>7, <1>8, OthersOK DEF SessionsOK
  <1>10. AttemptsDiffer'
    BY <1>5, <1>6 DEF IInv, AttemptsDiffer, Approving, InOp
  <1>11. MailsOK' /\ PostedOK' BY <1>1, <1>2 DEF IInv, MailsOK, PostedOK
  <1> QED BY <1>3, <1>9, <1>10, <1>11 DEF IInv

\* No money has moved on a pending or unborn intro, and it carries no message id.
LEMMA PendingIsClean ==
  ASSUME IInv, NEW f \in Fac, fac[f].status \in {"none", "requested"}
  PROVE  /\ ~Settled(f) /\ ~fac[f].awarded /\ fac[f].relay = 0
         /\ books[f].refunded = 0 /\ books[f].awarded = 0
  <1>1. ~Settled(f) BY DEF Settled
  <1>2. fac[f].relay = 0 BY <1>1 DEF IInv, RelayLogged
  <1>3. books[f].refunded \in Nat /\ books[f].awarded \in Nat BY DEF IInv, TypeOK
  <1>4. ~(books[f].refunded + books[f].awarded > 0)
    BY <1>1 DEF IInv, MoneyOnlyWhenSettled
  <1>5. books[f].refunded = 0 /\ books[f].awarded = 0 BY <1>3, <1>4
  <1>6. ~(books[f].awarded > 0) BY <1>5
  <1>7. ~fac[f].awarded BY <1>6, Zenon DEF IInv, AwardFlagMatchesBooks
  <1> QED BY <1>1, <1>2, <1>5, <1>7

\* A step that opens, ends and changes no session.
LEMMA StillOK ==
  ASSUME IInv, TypeOK', RowsQuiet, UNCHANGED <<lock, sess, mailVars>>, PostedOK'
  PROVE  IInv' /\ Kept
  <1>1. mails' = mails BY DEF mailVars
  <1>2. Kept /\ RelayLogged' /\ OneRelayRecord' /\ MoneyOnlyWhenSettled'
          /\ AwardFlagMatchesBooks'
    BY <1>1, QuietOK
  <1>3. \A t \in Sess: sess[t].rows \subseteq Fac BY DEF IInv, TypeOK, SessRec
  <1>4. \A t \in Sess: SessionOK(t)'
    BY <1>2, <1>3 DEF IInv, SessionsOK, SessionOK, RecordOK, InOp, Kept
  <1>5. \A t \in Sess: ApprovalOK(t)' /\ MessageOK(t)'
    BY DEF IInv, SessionsOK, ApprovalOK, MessageOK, Approving, InOp, mailVars, LogOf
  <1>6. AttemptsDiffer' /\ MailsOK'
    BY DEF IInv, AttemptsDiffer, MailsOK, Approving, InOp, mailVars
  <1> QED BY <1>2, <1>4, <1>5, <1>6 DEF IInv, SessionsOK

LEMMA ArriveOK ==
  ASSUME IInv, TypeOK', NEW s \in Sess, Arrive(s)
  PROVE  IInv' /\ Kept
  <1> USE IdleType
  <1>0. TypeOK /\ sess \in [Sess -> SessRec] BY DEF IInv, TypeOK
  <1>1. ASSUME NEW j \in Seekers, NEW l \in listings, RequestRead(s, j, l)
        PROVE  IInv' /\ Kept
    <2> DEFINE r == [Idle EXCEPT !.op = "request", !.seeker = j, !.listing = l]
    <2>1. r \in SessRec /\ ReadOnly(s, r) BY <1>0, <1>1, ArriveReads
    <2>2. RecordOK(r)
      BY <2>1 DEF RecordOK, Idle
    <2>3. r.at = "read" /\ r.msg = 0 /\ r.logs = FALSE BY DEF Idle
    <2> QED BY <2>1, <2>2, <2>3, ReadOK
  <1>2. ASSUME NEW f \in Fac, ApproveRead(s, f) PROVE IInv' /\ Kept
    <2> DEFINE r == [Idle EXCEPT !.op = "approve", !.f = f, !.seen = fac[f]]
    <2>1. r \in SessRec /\ ReadOnly(s, r) BY <1>0, <1>2, ArriveReads
    <2>2. fac[f].status = "requested" BY <1>2 DEF ApproveRead
    <2>3. ~fac[f].awarded /\ fac[f].relay = 0 BY <2>2, PendingIsClean
    <2>4. RecordOK(r) BY <2>1, <2>2, <2>3 DEF RecordOK, Idle
    <2>5. r.at = "read" /\ r.msg = 0 /\ r.logs = FALSE BY DEF Idle
    <2> QED BY <2>1, <2>4, <2>5, ReadOK
  <1>3. ASSUME NEW f \in Fac, DeclineRead(s, f) PROVE IInv' /\ Kept
    <2> DEFINE r == [Idle EXCEPT !.op = "decline", !.f = f, !.seen = fac[f]]
    <2>1. r \in SessRec /\ ReadOnly(s, r) BY <1>0, <1>3, ArriveReads
    <2>2. fac[f].status = "requested" BY <1>3 DEF DeclineRead
    <2>3. ~fac[f].awarded /\ fac[f].relay = 0 BY <2>2, PendingIsClean
    <2>4. RecordOK(r) BY <2>1, <2>2, <2>3 DEF RecordOK, Idle
    <2>5. r.at = "read" /\ r.msg = 0 /\ r.logs = FALSE BY DEF Idle
    <2> QED BY <2>1, <2>4, <2>5, ReadOK
  <1>4. ASSUME NEW f \in Fac, ConfirmRead(s, f) PROVE IInv' /\ Kept
    <2> DEFINE r == [Idle EXCEPT !.op = "confirm", !.f = f, !.seen = fac[f]]
    <2>1. r \in SessRec /\ ReadOnly(s, r) BY <1>0, <1>4, ArriveReads
    <2>2. fac[f].status = "approved" /\ ~fac[f].awarded BY <1>4 DEF ConfirmRead
    <2>4. RecordOK(r) BY <2>1, <2>2 DEF RecordOK, Idle, Settled
    <2>5. r.at = "read" /\ r.msg = 0 /\ r.logs = FALSE BY DEF Idle
    <2> QED BY <2>1, <2>4, <2>5, ReadOK
  <1>5. ASSUME NEW f \in Fac, NEW e \in Events, WebhookRead(s, f, e)
        PROVE  IInv' /\ Kept
    <2> DEFINE r == [Idle EXCEPT !.op = "webhook", !.f = f, !.seen = fac[f], !.ev = e]
    <2>1. r \in SessRec /\ ReadOnly(s, r) BY <1>0, <1>5, ArriveReads
    <2>2. <<fac[f].relay, e>> \in posted BY <1>0, <1>5 DEF WebhookRead, TypeOK
    <2>3. fac[f].relay # 0 BY <2>2 DEF IInv, PostedOK
    <2>4. Settled(f) BY <2>3 DEF IInv, RelayLogged
    <2>5. RecordOK(r) BY <2>1, <2>4 DEF RecordOK, Idle, Settled
    <2>6. r.at = "read" /\ r.msg = 0 /\ r.logs = FALSE BY DEF Idle
    <2> QED BY <2>1, <2>5, <2>6, ReadOK
  <1>6. ASSUME OptOutRead(s) PROVE IInv' /\ Kept
    <2> DEFINE r == [Idle EXCEPT !.op = "optout", !.live = listings,
                                 !.rows = {f \in Fac: fac[f].status = "requested"}]
    <2>1. r \in SessRec /\ ReadOnly(s, r) BY <1>0, <1>6, ArriveReads
    <2>2. RecordOK(r) BY <2>1 DEF RecordOK, Idle
    <2>3. r.at = "read" /\ r.msg = 0 /\ r.logs = FALSE BY DEF Idle
    <2> QED BY <2>1, <2>2, <2>3, ReadOK
  <1>7. ASSUME NEW op \in {"upload", "optin"}, RegenerateRead(s, op)
        PROVE  IInv' /\ Kept
    <2> DEFINE r == [Idle EXCEPT !.op = op, !.live = listings,
                                 !.who = Contacts \ purged]
    <2>1. r \in SessRec /\ ReadOnly(s, r) BY <1>0, <1>7, ArriveReads
    <2>2. RecordOK(r) BY <2>1 DEF RecordOK, Idle
    <2>3. r.at = "read" /\ r.msg = 0 /\ r.logs = FALSE BY DEF Idle
    <2> QED BY <2>1, <2>2, <2>3, ReadOK
  <1>9. ASSUME NEW f \in Fac, RevokeToken(s, f) PROVE IInv' /\ Kept
    <2>1. RowsQuiet
      BY <1>0, <1>9 DEF RevokeToken, RowsQuiet, TypeOK, FacRow, Settled, mailVars
    <2> QED BY <1>9, <2>1, StillOK DEF IInv, PostedOK, RevokeToken,
                                        eventVars
  <1>10. ASSUME NEW c \in Contacts, Purge(s, c) PROVE IInv' /\ Kept
    <2>1. RowsQuiet
      BY <1>0, <1>10 DEF Purge, PurgedRows, RowsQuiet, TypeOK, FacRow, Settled,
                         mailVars
    <2> QED BY <1>10, <2>1, StillOK DEF IInv, PostedOK, Purge, eventVars
  <1> QED BY <1>1, <1>2, <1>3, <1>4, <1>5, <1>6, <1>7, <1>9, <1>10 DEF Arrive

\* A step that writes one row f, and no relay record.
RowOnly(f) ==
  /\ \A g \in Fac \ {f}: fac'[g] = fac[g] /\ books'[g] = books[g]
  /\ fac'[f].status # "none"
  /\ Settled(f) => Settled(f)'
  /\ fac'[f].relay = fac[f].relay
  /\ fac[f].awarded => fac'[f].awarded
  /\ books'[f].refunded + books'[f].awarded > 0 => Settled(f)'
  /\ fac'[f].awarded <=> books'[f].awarded > 0
  /\ UNCHANGED mailVars

LEMMA RowOK ==
  ASSUME IInv, NEW f \in Fac, RowOnly(f)
  PROVE  /\ Kept /\ RelayLogged' /\ OneRelayRecord'
         /\ MoneyOnlyWhenSettled' /\ AwardFlagMatchesBooks'
  <1>1. \A g \in Fac \ {f}: fac'[g] = fac[g] /\ books'[g] = books[g]
    BY DEF RowOnly
  <1>2. Kept
    <2>1. \A g \in Fac \ {f}: Settled(g) => Settled(g)' BY <1>1 DEF Settled
    <2> QED BY <1>1, <2>1 DEF RowOnly, Kept
  <1>3. RelayLogged'
    <2> SUFFICES ASSUME NEW g \in Fac, fac'[g].relay # 0
                 PROVE  Settled(g)' /\ <<fac'[g].relay, g>> \in mails' /\ LogOf(g)' # {}
      BY DEF RelayLogged
    <2>1. fac'[g].relay = fac[g].relay BY <1>1 DEF RowOnly
    <2>2. Settled(g) /\ <<fac[g].relay, g>> \in mails /\ LogOf(g) # {}
      BY <2>1 DEF IInv, RelayLogged
    <2>3. Settled(g)' BY <1>2, <2>2 DEF Kept
    <2>4. mails' = mails /\ LogOf(g)' = LogOf(g) BY DEF RowOnly, mailVars, LogOf
    <2> QED BY <2>1, <2>2, <2>3, <2>4
  <1>4. OneRelayRecord' BY DEF IInv, OneRelayRecord, RowOnly, LogOf, mailVars
  <1>5. MoneyOnlyWhenSettled'
    BY <1>1 DEF IInv, MoneyOnlyWhenSettled, RowOnly, Settled
  <1>6. AwardFlagMatchesBooks'
    <2> SUFFICES ASSUME NEW g \in Fac
                 PROVE  fac'[g].awarded <=> books'[g].awarded > 0
      BY DEF AwardFlagMatchesBooks
    <2>1. CASE g = f BY <2>1, Zenon DEF RowOnly
    <2>2. CASE g # f
      <3>1. fac'[g] = fac[g] /\ books'[g] = books[g] BY <1>1, <2>2
      <3>2. fac[g].awarded <=> books[g].awarded > 0 BY DEF IInv, AwardFlagMatchesBooks
      <3> QED BY <3>1, <3>2, Zenon
    <2> QED BY <2>1, <2>2
  <1> QED BY <1>2, <1>3, <1>4, <1>5, <1>6

\* A session ends: it commits or rolls back, and holds no lock any more.
LEMMA EndOK ==
  ASSUME IInv, TypeOK', NEW s \in Sess, Becomes(s, Idle), UNCHANGED <<mailVars, posted>>,
         \A f \in Fac: lock[f] \notin {s, None} => lock'[f] = lock[f],
         Kept, RelayLogged', OneRelayRecord', MoneyOnlyWhenSettled',
         AwardFlagMatchesBooks'
  PROVE  IInv'
  <1>1. Own(s) BY DEF Own, mailVars, LogOf, IInv, TypeOK
  <1>2. SessionsOK' /\ AttemptsDiffer' BY <1>1, EndsOK
  <1>3. MailsOK' /\ PostedOK' BY DEF IInv, MailsOK, PostedOK, mailVars
  <1> QED BY <1>2, <1>3 DEF IInv

\* The award flag a handler writes, and the award row it books, agree.
LEMMA AwardAgrees ==
  ASSUME NEW f \in Fac, NEW amount \in Nat, NEW pays \in BOOLEAN,
         NEW db \in BOOLEAN, NEW seen \in BOOLEAN, NEW new \in BOOLEAN,
         books \in [Fac -> [charged: Nat, refunded: Nat, awarded: Nat]],
         db <=> books[f].awarded > 0,
         pays => ~seen,
         new <=> (seen \/ (pays /\ AwardFits(amount))),
         IF pays THEN Award(f, amount) ELSE UNCHANGED <<books, earned>>
  PROVE  /\ db => Written(db, seen, new)
         /\ Written(db, seen, new) <=> books'[f].awarded > 0
         /\ books'[f].refunded = books[f].refunded
         /\ \A g \in Fac \ {f}: books'[g] = books[g]
  <1>1. CASE pays /\ AwardFits(amount)
    <2>1. books' = [books EXCEPT ![f].awarded = @ + 1]
      BY <1>1 DEF Award, AwardFits
    <2>2. /\ books'[f].awarded > 0 /\ books'[f].refunded = books[f].refunded
          /\ \A g \in Fac \ {f}: books'[g] = books[g]
      BY <2>1
    <2>3. ~seen /\ new BY <1>1
    <2>4. Written(db, seen, new) BY <2>3, Zenon DEF Written
    <2> QED BY <2>2, <2>4
  <1>2. CASE ~(pays /\ AwardFits(amount))
    <2>1. books' = books BY <1>2 DEF Award, AwardFits
    <2>2. new = seen BY <1>2
    <2>3. Written(db, seen, new) = db BY <2>2 DEF Written
    <2> QED BY <2>1, <2>3
  <1> QED BY <1>1, <1>2

LEMMA RequestCommitOK ==
  ASSUME IInv, TypeOK', NEW s \in Sess, NEW f \in Fac, RequestCommit(s, f)
  PROVE  IInv' /\ Kept
  <1>0. TypeOK BY DEF IInv
  <1>1. fac[f].status = "none" BY DEF RequestCommit
  <1>2. /\ ~Settled(f) /\ ~fac[f].awarded /\ fac[f].relay = 0
        /\ books[f].refunded = 0 /\ books[f].awarded = 0
    BY <1>1, PendingIsClean
  <1>3. /\ fac' = [fac EXCEPT ![f] = [Unborn EXCEPT !.status = "requested",
                        !.seeker = sess[s].seeker, !.listing = sess[s].listing]]
        /\ books' = [books EXCEPT ![f].charged = @ + 1]
    BY DEF RequestCommit
  <1>4. fac'[f].status = "requested" /\ fac'[f].relay = 0 /\ ~fac'[f].awarded
    BY <1>0, <1>3 DEF TypeOK, Unborn
  <1>5. /\ books'[f].refunded = 0 /\ books'[f].awarded = 0
        /\ \A g \in Fac \ {f}: fac'[g] = fac[g] /\ books'[g] = books[g]
    BY <1>0, <1>2, <1>3 DEF TypeOK
  <1>6. fac'[f].awarded <=> books'[f].awarded > 0
    <2>1. ~(books'[f].awarded > 0) BY <1>5
    <2> QED BY <1>4, <2>1, Zenon
  <1>7. RowOnly(f) BY <1>2, <1>4, <1>5, <1>6 DEF RowOnly, RequestCommit
  <1> QED BY <1>7, RowOK, EndOK DEF RequestCommit, eventVars

LEMMA DeclineCommitOK ==
  ASSUME IInv, TypeOK', NEW s \in Sess, DeclineCommit(s)
  PROVE  IInv' /\ Kept
  <1> DEFINE r == sess[s]
             new == [r.seen EXCEPT !.status = "declined"]
  <1>a. r.f \in Fac
    BY DEF DeclineCommit, Doing, IInv, SessionsOK, SessionOK, RecordOK
  <1>b. PICK f \in Fac: f = r.f BY <1>a
  <1>0. TypeOK /\ r \in SessRec BY DEF IInv, TypeOK
  <1>1. /\ f \in Fac /\ fac[f].status # "none" /\ r.seen.status = "requested"
    BY <1>b DEF DeclineCommit, Doing, IInv, SessionsOK, SessionOK, RecordOK
  <1>2. /\ fac' = [fac EXCEPT ![f] = Merge(@, r.seen, new)]
        /\ books' = [books EXCEPT ![f].refunded = @ + 1]
    BY <1>b DEF DeclineCommit
  <1>3. fac[f] \in FacRow /\ r.seen \in FacRow /\ new \in FacRow
    BY <1>0, <1>1, NewRowTypes DEF TypeOK
  <1>4. /\ new.status = "declined" /\ new.relay = r.seen.relay
        /\ new.awarded = r.seen.awarded
    BY <1>3 DEF FacRow
  <1> HIDE DEF new
  <1>5. fac'[f] = Merge(fac[f], r.seen, new) BY <1>0, <1>1, <1>2 DEF TypeOK
  <1>6. /\ fac'[f].status = "declined" /\ fac'[f].relay = fac[f].relay
        /\ fac'[f].awarded = fac[f].awarded
    BY <1>1, <1>3, <1>4, <1>5, MergeType DEF Written
  <1>7. /\ books'[f].awarded = books[f].awarded
        /\ \A g \in Fac \ {f}: fac'[g] = fac[g] /\ books'[g] = books[g]
    BY <1>0, <1>1, <1>2 DEF TypeOK
  <1>8. fac[f].awarded <=> books[f].awarded > 0
    BY <1>1 DEF IInv, AwardFlagMatchesBooks
  <1>9. fac'[f].awarded <=> books'[f].awarded > 0
    BY <1>6, <1>7, <1>8, Zenon
  <1>10. Settled(f)' BY <1>6 DEF Settled, DeclineCommit
  <1>11. RowOnly(f) BY <1>6, <1>7, <1>9, <1>10 DEF RowOnly, DeclineCommit
  <1> QED BY <1>1, <1>11, RowOK, EndOK DEF DeclineCommit, eventVars

LEMMA ConfirmCommitOK ==
  ASSUME IInv, TypeOK', NEW s \in Sess, ConfirmCommit(s)
  PROVE  IInv' /\ Kept
  <1> DEFINE r == sess[s]
             new == ConfirmedRow(r)
  <1>a. r.f \in Fac
    BY DEF ConfirmCommit, Doing, IInv, SessionsOK, SessionOK, RecordOK
  <1>b. PICK f \in Fac: f = r.f BY <1>a
  <1>0. TypeOK /\ r \in SessRec BY DEF IInv, TypeOK
  <1>1. f \in Fac /\ Settled(f) /\ ~r.seen.awarded
    BY <1>b DEF ConfirmCommit, Doing, IInv, SessionsOK, SessionOK, RecordOK
  <1>2. /\ fac' = [fac EXCEPT ![f] = Merge(@, r.seen, new)]
        /\ IF ManualAward THEN Award(f, DeliveryAward) ELSE UNCHANGED <<books, earned>>
    BY <1>b DEF ConfirmCommit, ConfirmedRow
  <1>3. fac[f] \in FacRow /\ r.seen \in FacRow /\ new \in FacRow
    BY <1>0, <1>1, NewRowTypes DEF TypeOK
  <1>4. /\ new.status = r.seen.status /\ new.relay = r.seen.relay
        /\ new.awarded = (ManualAward /\ AwardFits(DeliveryAward))
    BY <1>3 DEF ConfirmedRow, FacRow
  <1> HIDE DEF new
  <1>5. fac'[f] = Merge(fac[f], r.seen, new) BY <1>0, <1>1, <1>2 DEF TypeOK
  <1>6. /\ fac'[f].status = fac[f].status /\ fac'[f].relay = fac[f].relay
        /\ fac'[f].awarded = Written(fac[f].awarded, r.seen.awarded, new.awarded)
    BY <1>3, <1>4, <1>5, MergeType DEF Written
  <1>7. fac[f].awarded <=> books[f].awarded > 0
    BY <1>1 DEF IInv, AwardFlagMatchesBooks
  <1>8. /\ fac[f].awarded \in BOOLEAN /\ r.seen.awarded \in BOOLEAN
        /\ new.awarded \in BOOLEAN /\ ManualAward \in BOOLEAN
        /\ DeliveryAward \in Nat
    BY <1>3, Prices, IntroAssumption DEF FacRow
  <1>9. books \in [Fac -> [charged: Nat, refunded: Nat, awarded: Nat]]
    BY <1>0 DEF TypeOK
  <1>10. new.awarded <=> (r.seen.awarded \/ (ManualAward /\ AwardFits(DeliveryAward)))
    BY <1>1, <1>4, Zenon
  <1>11. /\ fac[f].awarded => Written(fac[f].awarded, r.seen.awarded, new.awarded)
         /\ Written(fac[f].awarded, r.seen.awarded, new.awarded)
              <=> books'[f].awarded > 0
         /\ books'[f].refunded = books[f].refunded
         /\ \A g \in Fac \ {f}: books'[g] = books[g]
    <2>1. ManualAward => ~r.seen.awarded BY <1>1
    <2> HIDE DEF r
    <2> QED BY <1>1, <1>2, <1>7, <1>8, <1>9, <1>10, <2>1, AwardAgrees
  <1>12. \A g \in Fac \ {f}: fac'[g] = fac[g] BY <1>0, <1>1, <1>2 DEF TypeOK
  <1>13. /\ fac[f].awarded => fac'[f].awarded
         /\ fac'[f].awarded <=> books'[f].awarded > 0
    BY <1>6, <1>11, Zenon
  <1>14. fac'[f].status # "none" /\ Settled(f)'
    BY <1>1, <1>6 DEF Settled, ConfirmCommit
  <1>15. RowOnly(f)
    BY <1>6, <1>11, <1>12, <1>13, <1>14 DEF RowOnly, ConfirmCommit
  <1> QED BY <1>1, <1>15, RowOK, EndOK DEF ConfirmCommit, eventVars

LEMMA WebhookCommitOK ==
  ASSUME IInv, TypeOK', NEW s \in Sess, WebhookCommit(s)
  PROVE  IInv' /\ Kept
  <1> DEFINE r == sess[s]
             new == HandledRow(r)
  <1>a. r.f \in Fac
    BY DEF WebhookCommit, Doing, IInv, SessionsOK, SessionOK, RecordOK
  <1>b. PICK f \in Fac: f = r.f BY <1>a
  <1>0. TypeOK /\ r \in SessRec BY DEF IInv, TypeOK
  <1>1. f \in Fac /\ Settled(f) /\ r.ev \in Events
    BY <1>b DEF WebhookCommit, Doing, IInv, SessionsOK, SessionOK, RecordOK
  <1>2. /\ fac' = [fac EXCEPT ![f] = Merge(@, r.seen, new)]
        /\ IF Pays(r) THEN Award(f, AwardOf(r.ev)) ELSE UNCHANGED <<books, earned>>
    BY <1>b DEF WebhookCommit, HandledRow
  <1>3. fac[f] \in FacRow /\ r.seen \in FacRow /\ new \in FacRow
    BY <1>0, <1>1, NewRowTypes DEF TypeOK
  <1>4. /\ new.status = r.seen.status /\ new.relay = r.seen.relay
        /\ new.awarded = (r.seen.awarded \/ (Pays(r) /\ AwardFits(AwardOf(r.ev))))
    BY <1>3 DEF HandledRow, FacRow
  <1> HIDE DEF new
  <1>5. fac'[f] = Merge(fac[f], r.seen, new) BY <1>0, <1>1, <1>2 DEF TypeOK
  <1>6. /\ fac'[f].status = fac[f].status /\ fac'[f].relay = fac[f].relay
        /\ fac'[f].awarded = Written(fac[f].awarded, r.seen.awarded, new.awarded)
    BY <1>3, <1>4, <1>5, MergeType DEF Written
  <1>7. fac[f].awarded <=> books[f].awarded > 0
    BY <1>1 DEF IInv, AwardFlagMatchesBooks
  <1>8. /\ fac[f].awarded \in BOOLEAN /\ r.seen.awarded \in BOOLEAN
        /\ new.awarded \in BOOLEAN /\ Pays(r) \in BOOLEAN
        /\ AwardOf(r.ev) \in Nat
    BY <1>3, Prices DEF FacRow, AwardOf, Pays
  <1>9. books \in [Fac -> [charged: Nat, refunded: Nat, awarded: Nat]]
    BY <1>0 DEF TypeOK
  <1>10. new.awarded <=> (r.seen.awarded \/ (Pays(r) /\ AwardFits(AwardOf(r.ev))))
    BY <1>4, Zenon
  <1>11. /\ fac[f].awarded => Written(fac[f].awarded, r.seen.awarded, new.awarded)
         /\ Written(fac[f].awarded, r.seen.awarded, new.awarded)
              <=> books'[f].awarded > 0
         /\ books'[f].refunded = books[f].refunded
         /\ \A g \in Fac \ {f}: books'[g] = books[g]
    <2>1. Pays(r) => ~r.seen.awarded BY DEF Pays
    <2> HIDE DEF r
    <2> QED BY <1>1, <1>2, <1>7, <1>8, <1>9, <1>10, <2>1, AwardAgrees
  <1>12. \A g \in Fac \ {f}: fac'[g] = fac[g] BY <1>0, <1>1, <1>2 DEF TypeOK
  <1>13. /\ fac[f].awarded => fac'[f].awarded
         /\ fac'[f].awarded <=> books'[f].awarded > 0
    BY <1>6, <1>11, Zenon
  <1>14. fac'[f].status # "none" /\ Settled(f)'
    BY <1>1, <1>6 DEF Settled, WebhookCommit
  <1>15. RowOnly(f)
    BY <1>6, <1>11, <1>12, <1>13, <1>14 DEF RowOnly, WebhookCommit
  <1> QED BY <1>1, <1>15, RowOK, EndOK DEF WebhookCommit

\* A step of an approval that keeps its session going and leaves the rows alone.
LEMMA ApprovingOK ==
  ASSUME IInv, TypeOK', NEW s \in Sess, NEW r, Becomes(s, r), Own(s),
         RowsQuiet, posted' = posted,
         SessionOK(s)', ApprovalOK(s)', MessageOK(s)', MailsOK',
         \A t \in Sess \ {s}: Approving(t) => sess[t].attempt # sess'[s].attempt
  PROVE  IInv' /\ Kept
  <1>1. /\ Kept /\ RelayLogged' /\ OneRelayRecord'
        /\ MoneyOnlyWhenSettled' /\ AwardFlagMatchesBooks'
    BY QuietOK DEF Own
  <1>2. SessionsOK' BY <1>1, OthersOK DEF SessionsOK
  <1>3. \A t \in Sess \ {s}: sess'[t] = sess[t] BY DEF Becomes, IInv, TypeOK
  <1>4. AttemptsDiffer'
    <2> SUFFICES ASSUME NEW t \in Sess, NEW u \in Sess, t # u,
                        Approving(t)', Approving(u)'
                 PROVE  sess'[t].attempt # sess'[u].attempt
      BY DEF AttemptsDiffer
    <2>1. \A v \in Sess \ {s}: Approving(v)' => Approving(v)
      BY <1>3 DEF Approving, InOp
    <2>2. CASE t = s BY <1>3, <2>1, <2>2
    <2>3. CASE u = s BY <1>3, <2>1, <2>3
    <2>4. CASE t # s /\ u # s BY <1>3, <2>1, <2>4 DEF IInv, AttemptsDiffer
    <2> QED BY <2>2, <2>3, <2>4
  <1>5. PostedOK' BY DEF IInv, PostedOK
  <1> QED BY <1>1, <1>2, <1>4, <1>5 DEF IInv

LEMMA ApproveLockOK ==
  ASSUME IInv, TypeOK', NEW s \in Sess, ApproveLock(s)
  PROVE  IInv' /\ Kept
  <1> DEFINE r == [sess[s] EXCEPT !.attempt = attempts + 1,
                       !.at = IF ContactOf(sess[s].seen) \in EmailContacts
                              THEN "locked" ELSE "ready",
                       !.rep = intros]
  <1>0. TypeOK /\ sess[s] \in SessRec /\ attempts \in Nat BY DEF IInv, TypeOK
  <1>1. Becomes(s, r) /\ RowsQuiet /\ posted' = posted /\ mails' = mails
        /\ relayLog' = relayLog /\ attempts' = attempts + 1 /\ fac' = fac
    BY DEF ApproveLock, RowsQuiet, Settled, eventVars
  <1>2. r.op = "approve" /\ r.f = sess[s].f /\ r.seen = sess[s].seen
        /\ r.msg = sess[s].msg /\ r.logs = sess[s].logs /\ r.rows = sess[s].rows
        /\ r.attempt = attempts + 1 /\ r.at \in {"locked", "ready"}
    BY <1>0 DEF ApproveLock, Doing, SessRec
  <1> HIDE DEF r
  <1>3. sess'[s] = r BY <1>0, <1>1 DEF TypeOK, Becomes
  <1>4. sess[s].op = "approve" /\ sess[s].at = "read" BY DEF ApproveLock, Doing
  <1>5. SessionOK(s) /\ MessageOK(s) BY DEF IInv, SessionsOK
  <1>6. sess[s].f \in Fac /\ ~Approving(s)
    BY <1>4, <1>5 DEF SessionOK, RecordOK, Approving
  <1>7. lock' = [lock EXCEPT ![sess[s].f] = s] /\ lock[sess[s].f] = None
    BY DEF ApproveLock, Free
  <1>8. Own(s) BY <1>0, <1>1, <1>6, <1>7 DEF Own, LogOf, TypeOK
  <1>9. SessionOK(s)' BY <1>1, <1>2, <1>3, <1>4, <1>5 DEF SessionOK, RecordOK, Settled
  <1>10. MessageOK(s)' BY <1>2, <1>3, <1>5, <1>6 DEF MessageOK
  <1>11. ~sess[s].logs BY <1>5, <1>6 DEF MessageOK
  <1>12. \A m \in mails: m[1] # attempts + 1 BY <1>0 DEF IInv, MailsOK
  <1>13. ApprovalOK(s)'
    <2>1. lock'[r.f] = s BY <1>0, <1>2, <1>6, <1>7 DEF TypeOK
    <2>2. r.attempt \in 1..attempts' BY <1>0, <1>1, <1>2
    <2>3. \A m \in mails': m[1] # r.attempt BY <1>1, <1>2, <1>12
    <2> QED BY <1>2, <1>3, <1>11, <2>1, <2>2, <2>3 DEF ApprovalOK
  <1>14. MailsOK' BY <1>0, <1>1 DEF IInv, MailsOK
  <1>15. \A t \in Sess \ {s}: Approving(t) => sess[t].attempt # sess'[s].attempt
    BY <1>0, <1>2, <1>3 DEF IInv, SessionsOK, ApprovalOK
  <1> QED BY <1>1, <1>8, <1>9, <1>10, <1>13, <1>14, <1>15, ApprovingOK

LEMMA RelaySkipOK ==
  ASSUME IInv, TypeOK', NEW s \in Sess, RelaySkip(s)
  PROVE  IInv' /\ Kept
  <1> DEFINE r == [sess[s] EXCEPT !.at = "ready", !.rep = intros]
  <1>0. TypeOK /\ sess[s] \in SessRec BY DEF IInv, TypeOK
  <1>1. Becomes(s, r) /\ RowsQuiet /\ posted' = posted /\ mails' = mails
        /\ relayLog' = relayLog /\ attempts' = attempts /\ fac' = fac /\ lock' = lock
    BY DEF RelaySkip, RowsQuiet, Settled, eventVars, rowVars, mailVars
  <1>2. r.op = "approve" /\ r.f = sess[s].f /\ r.seen = sess[s].seen
        /\ r.msg = sess[s].msg /\ r.logs = sess[s].logs /\ r.rows = sess[s].rows
        /\ r.attempt = sess[s].attempt /\ r.at = "ready"
    BY <1>0 DEF RelaySkip, Doing, SessRec
  <1> HIDE DEF r
  <1>3. sess'[s] = r BY <1>0, <1>1 DEF TypeOK, Becomes
  <1>4. sess[s].op = "approve" /\ sess[s].at = "locked" BY DEF RelaySkip, Doing
  <1>5. SessionOK(s) /\ ApprovalOK(s) /\ MessageOK(s) BY DEF IInv, SessionsOK
  <1>6. Approving(s) /\ Approving(s)'
    BY <1>2, <1>3, <1>4 DEF Approving, InOp
  <1>7. Own(s) BY <1>0, <1>1 DEF Own, LogOf, TypeOK
  <1>8. SessionOK(s)' BY <1>1, <1>2, <1>3, <1>4, <1>5 DEF SessionOK, RecordOK, Settled
  <1>9. ApprovalOK(s)' BY <1>1, <1>2, <1>3, <1>5, <1>6 DEF ApprovalOK, LogOf
  <1>10. MessageOK(s)' BY <1>1, <1>2, <1>3, <1>4, <1>5, <1>6 DEF MessageOK
  <1>11. MailsOK' BY <1>1 DEF IInv, MailsOK
  <1>12. \A t \in Sess \ {s}: Approving(t) => sess[t].attempt # sess'[s].attempt
    BY <1>2, <1>3, <1>6 DEF IInv, AttemptsDiffer
  <1> QED BY <1>1, <1>7, <1>8, <1>9, <1>10, <1>11, <1>12, ApprovingOK

LEMMA RelaySendOK ==
  ASSUME IInv, TypeOK', NEW s \in Sess, RelaySend(s)
  PROVE  IInv' /\ Kept
  <1> DEFINE sent == [sess[s] EXCEPT !.at = "sent", !.msg = sess[s].attempt]
             refused == [sess[s] EXCEPT !.at = "sent"]
  <1>0. TypeOK /\ sess[s] \in SessRec BY DEF IInv, TypeOK
  <1>1. PICK r: /\ Becomes(s, r)
                /\ \/ /\ r = sent
                      /\ mails' = mails \cup {<<sess[s].attempt, sess[s].f>>}
                   \/ r = refused /\ mails' = mails
    <2>1. CASE /\ mails' = mails \cup {<<sess[s].attempt, sess[s].f>>}
               /\ Becomes(s, sent)
      BY <2>1
    <2>2. CASE Becomes(s, refused) /\ UNCHANGED mails BY <2>2
    <2> QED BY <2>1, <2>2 DEF RelaySend
  <1>2. RowsQuiet /\ posted' = posted /\ relayLog' = relayLog
        /\ attempts' = attempts /\ fac' = fac /\ lock' = lock
    BY DEF RelaySend, RowsQuiet, Settled, eventVars, rowVars
  <1>3. sess[s].op = "approve" /\ sess[s].at = "locked" BY DEF RelaySend, Doing
  <1>4. /\ r.op = "approve" /\ r.f = sess[s].f /\ r.seen = sess[s].seen
        /\ r.logs = sess[s].logs /\ r.rows = sess[s].rows
        /\ r.attempt = sess[s].attempt /\ r.at = "sent"
        /\ \/ /\ r.msg = sess[s].attempt
              /\ mails' = mails \cup {<<sess[s].attempt, sess[s].f>>}
           \/ r.msg = sess[s].msg /\ mails' = mails
    BY <1>0, <1>1, <1>3 DEF SessRec
  <1> HIDE DEF sent, refused
  <1>5. sess'[s] = r BY <1>0, <1>1 DEF TypeOK, Becomes
  <1>6. SessionOK(s) /\ ApprovalOK(s) /\ MessageOK(s) BY DEF IInv, SessionsOK
  <1>7. Approving(s) /\ Approving(s)'
    BY <1>3, <1>4, <1>5 DEF Approving, InOp
  <1>8. sess[s].f \in Fac /\ LogOf(sess[s].f) = {}
    <2>1. sess[s].f \in Fac BY <1>3, <1>6 DEF SessionOK, RecordOK
    <2>2. \A d \in 0..LastDay: <<sess[s].f, d>> \notin relayLog BY DEF RelaySend
    <2>3. relayLog \subseteq Fac \X (0..LastDay) BY <1>0 DEF TypeOK
    <2>4. \A e \in relayLog: e = <<e[1], e[2]>> /\ e[2] \in 0..LastDay BY <2>3
    <2> QED BY <2>1, <2>2, <2>4 DEF LogOf
  <1>9. Own(s) BY <1>0, <1>1, <1>2, <1>7 DEF Own, LogOf, TypeOK
  <1>10. SessionOK(s)' BY <1>2, <1>3, <1>4, <1>5, <1>6 DEF SessionOK, RecordOK, Settled
  <1>11. ApprovalOK(s)'
    <2>1. LogOf(r.f)' = {}
      <3>1. LogOf(r.f)' = {e \in relayLog': e[1] = r.f} BY <1>5 DEF LogOf
      <3> QED BY <1>2, <1>4, <1>8, <3>1 DEF LogOf
    <2>2. lock'[r.f] = s /\ r.attempt \in 1..attempts'
      BY <1>2, <1>4, <1>6, <1>7 DEF ApprovalOK
    <2> QED BY <1>4, <1>5, <2>1, <2>2 DEF ApprovalOK, LogOf
  <1>13. sess[s].msg # 0 => sess[s].logs /\ sess[s].msg = sess[s].attempt
                            /\ <<sess[s].msg, sess[s].f>> \in mails
    BY <1>3, <1>6 DEF MessageOK
  <1>14. MessageOK(s)'
    <2>1. r.msg # 0 => r.msg = r.attempt /\ <<r.msg, r.f>> \in mails'
      BY <1>1, <1>4, <1>13
    <2> QED BY <1>4, <1>5, <1>7, <2>1 DEF MessageOK
  <1>15. MailsOK'
    <2>1. \A m \in mails: m[1] # sess[s].attempt /\ m[1] \in 1..attempts
      BY <1>3, <1>6, <1>7 DEF IInv, ApprovalOK, MailsOK
    <2>2. \A m \in mails': m \in mails \/ m = <<sess[s].attempt, sess[s].f>>
      BY <1>1
    <2>3. sess[s].attempt \in 1..attempts BY <1>6, <1>7 DEF ApprovalOK
    <2>4. \A m \in mails': m[1] \in 1..attempts' BY <1>2, <2>1, <2>2, <2>3
    <2>5. \A m1, m2 \in mails': m1[1] = m2[1] => m1 = m2
      BY <2>1, <2>2 DEF IInv, MailsOK
    <2> QED BY <2>4, <2>5 DEF MailsOK
  <1>16. \A t \in Sess \ {s}: Approving(t) => sess[t].attempt # sess'[s].attempt
    BY <1>4, <1>5, <1>7 DEF IInv, AttemptsDiffer
  <1> QED BY <1>1, <1>2, <1>9, <1>10, <1>11, <1>14, <1>15, <1>16, ApprovingOK

LEMMA RelayRecordOK ==
  ASSUME IInv, TypeOK', NEW s \in Sess, RelayRecord(s)
  PROVE  IInv' /\ Kept
  <1> DEFINE r == [sess[s] EXCEPT !.at = "ready", !.logs = TRUE, !.on = day,
                                  !.rep = intros]
  <1>0. TypeOK /\ sess[s] \in SessRec BY DEF IInv, TypeOK
  <1>1. Becomes(s, r) /\ RowsQuiet /\ posted' = posted /\ mails' = mails
        /\ relayLog' = relayLog /\ attempts' = attempts /\ fac' = fac /\ lock' = lock
    BY DEF RelayRecord, RowsQuiet, Settled, eventVars, rowVars, mailVars
  <1>2. r.op = "approve" /\ r.f = sess[s].f /\ r.seen = sess[s].seen
        /\ r.msg = sess[s].msg /\ r.logs /\ r.rows = sess[s].rows
        /\ r.attempt = sess[s].attempt /\ r.at = "ready"
    BY <1>0 DEF RelayRecord, Doing, SessRec
  <1> HIDE DEF r
  <1>3. sess'[s] = r BY <1>0, <1>1 DEF TypeOK, Becomes
  <1>4. sess[s].op = "approve" /\ sess[s].at = "sent" BY DEF RelayRecord, Doing
  <1>5. SessionOK(s) /\ ApprovalOK(s) /\ MessageOK(s) BY DEF IInv, SessionsOK
  <1>6. Approving(s) /\ Approving(s)'
    BY <1>2, <1>3, <1>4 DEF Approving, InOp
  <1>7. Own(s) BY <1>0, <1>1 DEF Own, LogOf, TypeOK
  <1>8. SessionOK(s)' BY <1>1, <1>2, <1>3, <1>4, <1>5 DEF SessionOK, RecordOK, Settled
  <1>9. ApprovalOK(s)' BY <1>1, <1>2, <1>3, <1>4, <1>5, <1>6 DEF ApprovalOK, LogOf
  <1>10. MessageOK(s)' BY <1>1, <1>2, <1>3, <1>4, <1>5, <1>6 DEF MessageOK
  <1>11. MailsOK' BY <1>1 DEF IInv, MailsOK
  <1>12. \A t \in Sess \ {s}: Approving(t) => sess[t].attempt # sess'[s].attempt
    BY <1>2, <1>3, <1>6 DEF IInv, AttemptsDiffer
  <1> QED BY <1>1, <1>7, <1>8, <1>9, <1>10, <1>11, <1>12, ApprovingOK

LEMMA ApproveCommitOK ==
  ASSUME IInv, TypeOK', NEW s \in Sess, ApproveCommit(s)
  PROVE  IInv' /\ Kept
  <1> DEFINE r == sess[s]
             new == Approved(r)
  <1>0. TypeOK /\ r \in SessRec BY DEF IInv, TypeOK
  <1>1. /\ r.op = "approve" /\ r.at = "ready" /\ Becomes(s, Idle)
        /\ UNCHANGED <<books, mails, attempts, posted>>
    BY DEF ApproveCommit, Doing, eventVars
  <1>2. SessionOK(s) /\ ApprovalOK(s) /\ MessageOK(s) BY DEF IInv, SessionsOK
  <1>3. Approving(s) BY <1>1 DEF Approving, InOp
  <1>a. r.f \in Fac BY <1>1, <1>2 DEF SessionOK, RecordOK
  <1>b. PICK f \in Fac: f = r.f BY <1>a
  <1>4. /\ r.seen.status = "requested" /\ ~r.seen.awarded /\ r.seen.relay = 0
        /\ lock[f] = s /\ s # None
        /\ r.msg # 0 => r.logs /\ <<r.msg, f>> \in mails
        /\ r.logs => LogOf(f) = {}
    BY <1>1, <1>2, <1>3, <1>b, IntroAssumption
       DEF SessionOK, RecordOK, ApprovalOK, MessageOK
  <1>5. /\ fac' = [fac EXCEPT ![f] = Merge(@, r.seen, new)]
        /\ lock' = [lock EXCEPT ![f] = None]
        /\ relayLog' = IF r.logs THEN relayLog \cup {<<f, r.on>>} ELSE relayLog
    BY <1>b DEF ApproveCommit
  <1>6. fac[f] \in FacRow /\ r.seen \in FacRow /\ new \in FacRow
    BY <1>0, NewRowTypes DEF TypeOK
  <1>7. /\ new.status = "approved" /\ new.relay \in {r.msg, 0}
        /\ new.awarded = r.seen.awarded
    BY <1>4, <1>6 DEF Approved, FacRow
  <1> HIDE DEF new
  <1>8. fac'[f] = Merge(fac[f], r.seen, new) BY <1>0, <1>5 DEF TypeOK
  <1>9. /\ fac'[f].status = "approved" /\ fac'[f].awarded = fac[f].awarded
        /\ fac'[f].relay = IF new.relay = 0 THEN fac[f].relay ELSE new.relay
    BY <1>4, <1>6, <1>7, <1>8, MergeType DEF Written
  <1>10. new.relay # 0 => /\ new.relay = r.msg /\ r.logs
                          /\ <<new.relay, f>> \in mails /\ fac[f].relay = 0
    BY <1>4, <1>7 DEF IInv, RelayLogged
  <1>11. \A g \in Fac \ {f}: fac'[g] = fac[g] BY <1>0, <1>5 DEF TypeOK
  <1>12. Kept
    <2>1. \A g \in Fac \ {f}: Settled(g) => Settled(g)' BY <1>11 DEF Settled
    <2>2. Settled(f)' BY <1>9 DEF Settled
    <2> QED BY <1>9, <1>10, <1>11, <2>1, <2>2 DEF Kept
  <1>13. \A g \in Fac: LogOf(g) \subseteq LogOf(g)'
    BY <1>5 DEF LogOf
  <1>14. \A g \in Fac \ {f}: LogOf(g)' = LogOf(g)
    BY <1>5 DEF LogOf
  <1>15. r.logs => LogOf(f)' = {<<f, r.on>>}
    BY <1>4, <1>5 DEF LogOf
  <1>16. ~r.logs => LogOf(f)' = LogOf(f)
    BY <1>5 DEF LogOf
  <1>17. RelayLogged'
    <2> SUFFICES ASSUME NEW g \in Fac, fac'[g].relay # 0
                 PROVE  Settled(g)' /\ <<fac'[g].relay, g>> \in mails' /\ LogOf(g)' # {}
      BY DEF RelayLogged
    <2>1. CASE g = f /\ new.relay # 0
      <3>1. Settled(g)' BY <1>9, <2>1 DEF Settled
      <3>2. <<fac'[g].relay, g>> \in mails' BY <1>1, <1>9, <1>10, <2>1
      <3>3. LogOf(g)' # {} BY <1>10, <1>15, <2>1
      <3> QED BY <3>1, <3>2, <3>3
    <2>2. CASE ~(g = f /\ new.relay # 0)
      <3>1. fac'[g].relay = fac[g].relay BY <1>9, <1>11, <2>2
      <3>2. Settled(g) /\ <<fac[g].relay, g>> \in mails /\ LogOf(g) # {}
        BY <3>1 DEF IInv, RelayLogged
      <3>3. Settled(g)' BY <1>12, <3>2 DEF Kept
      <3> QED BY <1>1, <1>13, <3>1, <3>2, <3>3
    <2> QED BY <2>1, <2>2
  <1>18. OneRelayRecord'
    <2> SUFFICES ASSUME NEW g \in Fac
                 PROVE  \A e1, e2 \in LogOf(g)': e1 = e2
      BY DEF OneRelayRecord
    <2>1. \A e1, e2 \in LogOf(g): e1 = e2 BY DEF IInv, OneRelayRecord
    <2>2. CASE g = f /\ r.logs BY <1>15, <2>2
    <2>3. CASE ~(g = f /\ r.logs) BY <1>14, <1>16, <2>1, <2>3
    <2> QED BY <2>2, <2>3
  <1>19. MoneyOnlyWhenSettled'
    BY <1>1, <1>12 DEF IInv, MoneyOnlyWhenSettled, Kept
  <1>20. AwardFlagMatchesBooks'
    BY <1>1, <1>9, <1>11 DEF IInv, AwardFlagMatchesBooks
  <1>21. Own(s)
    <2>1. \A g \in Fac: lock[g] \notin {s, None} => lock'[g] = lock[g]
      BY <1>0, <1>4, <1>5 DEF TypeOK
    <2>2. \A g \in Fac: lock[g] # s => LogOf(g)' = LogOf(g)
      BY <1>4, <1>14
    <2> QED BY <1>0, <1>1, <2>1, <2>2 DEF Own, TypeOK
  <1>22. SessionsOK' /\ AttemptsDiffer' BY <1>1, <1>12, <1>21, EndsOK
  <1>23. MailsOK' /\ PostedOK' BY <1>1 DEF IInv, MailsOK, PostedOK
  <1> QED BY <1>12, <1>17, <1>18, <1>19, <1>20, <1>22, <1>23 DEF IInv

\* The ends that move no money and write no message id.
LEMMA QuietEndOK ==
  ASSUME IInv, TypeOK', NEW s \in Sess,
         RelayRecordFails(s) \/ OptOutCommit(s) \/ RegenerateCommit(s) \/ Abort(s)
  PROVE  IInv' /\ Kept
  <1>0. TypeOK /\ sess[s] \in SessRec BY DEF IInv, TypeOK
  <1>1. Becomes(s, Idle) /\ UNCHANGED <<mailVars, posted>>
    BY DEF RelayRecordFails, OptOutCommit, RegenerateCommit, Abort, eventVars
  <1>2. mails' = mails /\ relayLog' = relayLog BY <1>1 DEF mailVars
  <1>3. \A f \in Fac: lock[f] \notin {s, None} => lock'[f] = lock[f]
    <2>1. CASE RelayRecordFails(s)
      <3>1. sess[s].op = "approve" /\ sess[s].at = "sent"
        BY <2>1 DEF RelayRecordFails, Doing
      <3>2. lock[sess[s].f] = s
        BY <3>1 DEF IInv, SessionsOK, ApprovalOK, Approving, InOp
      <3> QED BY <1>0, <2>1, <3>2 DEF RelayRecordFails, TypeOK
    <2>2. CASE OptOutCommit(s) \/ RegenerateCommit(s)
      BY <2>2 DEF OptOutCommit, RegenerateCommit, rowVars
    <2>3. CASE Abort(s) BY <2>3 DEF Abort
    <2> QED BY <2>1, <2>2, <2>3
  <1>4. RowsQuiet
    <2>1. CASE OptOutCommit(s)
      BY <1>0, <1>2, <2>1 DEF OptOutCommit, RowsQuiet, TypeOK, FacRow, Settled
    <2>2. CASE RelayRecordFails(s) \/ RegenerateCommit(s) \/ Abort(s)
      BY <1>2, <2>2 DEF RelayRecordFails, RegenerateCommit, Abort, RowsQuiet,
                        Settled, rowVars
    <2> QED BY <2>1, <2>2
  <1> QED BY <1>1, <1>2, <1>3, <1>4, QuietOK, EndOK

\* Resend and the calendar.
LEMMA OutsideOK ==
  ASSUME IInv, TypeOK',
         \/ \E n \in 1..attempts, e \in Events:
               \/ ResendIssues(n, e) \/ ResendRepeats(n, e)
               \/ \E s \in Sess: WebhookUnmatched(s, n, e)
         \/ NextDay
  PROVE  IInv' /\ Kept
  <1>1. RowsQuiet /\ UNCHANGED <<lock, sess, mailVars>>
    BY DEF RowsQuiet, ResendIssues, ResendRepeats, WebhookUnmatched, NextDay,
           rowVars, mailVars, Settled
  <1>2. PostedOK'
    <2>1. CASE \E n \in 1..attempts, e \in Events: ResendIssues(n, e)
      BY <2>1 DEF IInv, PostedOK, ResendIssues
    <2>2. CASE posted' = posted BY <2>2 DEF IInv, PostedOK
    <2> QED BY <2>1, <2>2 DEF ResendRepeats, WebhookUnmatched, NextDay, eventVars
  <1> QED BY <1>1, <1>2, StillOK

-----------------------------------------------------------------------------
\* The specification.

\* The invariant is inductive, and no step undoes what is settled.
LEMMA Inductive ==
  ASSUME IInv, [Next]_vars
  PROVE  IInv' /\ Kept
  <1>0. TypeOK' BY SessionsWork, TypeStep
  <1>1. CASE UNCHANGED vars
    <2>1. RowsQuiet /\ UNCHANGED <<lock, sess, mailVars>> /\ posted' = posted
      BY <1>1 DEF vars, rowVars, mailVars, eventVars, RowsQuiet, Settled
    <2> QED BY <1>0, <2>1, StillOK DEF IInv, PostedOK
  <1>2. ASSUME NEW s \in Sess, Arrive(s) PROVE IInv' /\ Kept
    BY <1>0, <1>2, ArriveOK
  <1>3. ASSUME NEW s \in Sess, Progress(s) PROVE IInv' /\ Kept
    BY <1>0, <1>3, RequestCommitOK, ApproveLockOK, RelaySkipOK, RelaySendOK,
       RelayRecordOK, ApproveCommitOK, DeclineCommitOK, ConfirmCommitOK,
       WebhookCommitOK, QuietEndOK DEF Progress
  <1>4. ASSUME NEW s \in Sess, Abort(s) PROVE IInv' /\ Kept
    BY <1>0, <1>4, QuietEndOK
  <1>5. CASE \/ \E n \in 1..attempts, e \in Events:
                   \/ ResendIssues(n, e) \/ ResendRepeats(n, e)
                   \/ \E s \in Sess: WebhookUnmatched(s, n, e)
             \/ NextDay
    BY <1>0, <1>5, OutsideOK
  <1> QED BY <1>1, <1>2, <1>3, <1>4, <1>5 DEF Next

LEMMA Initial == Init => IInv
  <1> SUFFICES ASSUME Init PROVE IInv OBVIOUS
  <1>1. TypeOK
    BY IdleType, IntroAssumption DEF Init, TypeOK, Listing
  <1>2. SessionsOK /\ AttemptsDiffer
    BY DEF Init, SessionsOK, SessionOK, RecordOK, ApprovalOK, MessageOK, Approving,
           InOp, AttemptsDiffer, Idle
  <1>3. MailsOK /\ PostedOK /\ RelayLogged /\ OneRelayRecord
    BY DEF Init, MailsOK, PostedOK, RelayLogged, OneRelayRecord, LogOf, Unborn
  <1>4. MoneyOnlyWhenSettled BY DEF Init, MoneyOnlyWhenSettled
  <1>5. AwardFlagMatchesBooks BY DEF Init, AwardFlagMatchesBooks, Unborn
  <1> QED BY <1>1, <1>2, <1>3, <1>4, <1>5 DEF IInv

\* Every reachable state satisfies the inductive invariant.
THEOREM Invariance == Spec => []IInv
  <1>1. IInv /\ [Next]_vars => IInv' BY Inductive
  <1> QED BY Initial, <1>1, PTL DEF Spec

\* Every handler leaves a state of the declared types: a column of a row is only
\* ever written a value of its enumeration, whatever sessions race on it.
THEOREM TypeCorrect == Spec => []TypeOK
  <1>1. IInv => TypeOK BY DEF IInv
  <1> QED BY Invariance, <1>1, PTL

\* No credit is refunded or awarded for an intro that is still pending, and none
\* becomes pending again afterwards.
THEOREM MoneySafe == Spec => []MoneyOnlyWhenSettled
  <1>1. IInv => MoneyOnlyWhenSettled BY DEF IInv
  <1> QED BY Invariance, <1>1, PTL

\* credits_awarded_at and the award rows of the credit table agree in every state.
THEOREM AwardFlagSound == Spec => []AwardFlagMatchesBooks
  <1>1. IInv => AwardFlagMatchesBooks BY DEF IInv
  <1> QED BY Invariance, <1>1, PTL

\* The relay log never holds two records of one intro.
THEOREM RelayRecordedOnce == Spec => []OneRelayRecord
  <1>1. IInv => OneRelayRecord BY DEF IInv
  <1> QED BY Invariance, <1>1, PTL

\* The message id an intro carries names a mail that was sent for it and recorded, and
\* no other intro carries it.
THEOREM RelayTraceable == Spec => []RelayIsTraceable
  <1>1. IInv => RelayIsTraceable
    <2> SUFFICES ASSUME IInv, NEW f \in Fac, fac[f].relay # 0
                 PROVE  /\ <<fac[f].relay, f>> \in mails
                        /\ LogOf(f) # {}
                        /\ \A g \in Fac \ {f}: fac[g].relay # fac[f].relay
      BY DEF RelayIsTraceable
    <2>1. <<fac[f].relay, f>> \in mails /\ LogOf(f) # {} BY DEF IInv, RelayLogged
    <2>2. ASSUME NEW g \in Fac \ {f}, fac[g].relay = fac[f].relay PROVE FALSE
      <3>1. <<fac[g].relay, g>> \in mails BY <2>2 DEF IInv, RelayLogged
      <3>2. <<fac[g].relay, g>> = <<fac[f].relay, f>>
        BY <2>1, <2>2, <3>1 DEF IInv, MailsOK
      <3> QED BY <3>2
    <2> QED BY <2>1, <2>2
  <1> QED BY Invariance, <1>1, PTL

\* No step reopens a settled intro, takes back an award or changes a message id.
THEOREM StaysSettled == Spec => NeverReopened
  <1>1. IInv /\ [Next]_vars =>
          [\A f \in Fac:
             /\ Settled(f) => fac'[f].status \in {"approved", "declined", "expired"}
             /\ fac[f].awarded => fac'[f].awarded
             /\ fac[f].relay # 0 => fac'[f].relay = fac[f].relay]_vars
    BY Inductive DEF Kept, Settled
  <1> QED BY Invariance, <1>1, PTL DEF Spec, NeverReopened
=============================================================================
