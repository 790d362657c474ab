-------------------------- MODULE IntroBoundsProofs --------------------------
(***************************************************************************)
(* Proofs about the races of the intro lifecycle, for every number of      *)
(* intros, seekers, contacts and sessions.  How far the unlocked checks    *)
(* can be overrun: what was counted, and the sessions about to count once  *)
(* more, are bounded together.  How often a row can be settled, and a      *)
(* contact listed, by sessions that read before a rival wrote.  That a     *)
(* delivery whose event was answered is credited, or is lost in one of two *)
(* known ways.  And, with one session at a time, that mailed links live.   *)
(***************************************************************************)
EXTENDS IntroFacilitationProofs, FiniteSetTheorems

\* What a session that has read may still do.
MaySettle(r, f) == \/ r.op \in {"approve", "decline"} /\ r.f = f
                   \/ r.op = "optout" /\ f \in r.rows
Honours(r, f) == r.op \in {"confirm", "webhook"} /\ r.f = f
MayPay(r, f) == r.op \in {"confirm", "webhook"} /\ r.f = f /\ ~r.seen.awarded
Asks(r, j, l) == r.op = "request" /\ r.seeker = j /\ r.listing = l

Settlers(f) == {s \in Sess: MaySettle(sess[s], f)}
Payers(f) == {s \in Sess: MayPay(sess[s], f)}
Approvers == {s \in Sess: sess[s].op = "approve"}
Confirmers == {s \in Sess: sess[s].op = "confirm"}
Requesters(j) == {s \in Sess: sess[s].op = "request" /\ sess[s].seeker = j}
Askers(j, l) == {s \in Sess: Asks(sess[s], j, l)}

Pending(j, l) ==
    {f \in Fac: fac[f].status = "requested" /\ fac[f].seeker = j /\ fac[f].listing = l}

\* An approval stands also while a session that saw it may still leave its mark.
Stands(f) == Honoured(f) \/ \E s \in Sess: Honours(sess[s], f)
Answers(f) == books[f].refunded + (IF Stands(f) THEN 1 ELSE 0)
                + (IF fac[f].status = "expired" THEN 1 ELSE 0)
AnswersOK(f) == Answers(f) + Cardinality(Settlers(f)) <= Cardinality(Sess)
AwardsOK(f) == books[f].awarded + Cardinality(Payers(f)) <= Cardinality(Sess)
ApprovalsOK == usage.approve + Cardinality(Approvers) <= ApproveLimit + Rivals
ConfirmsOK == usage.confirm + Cardinality(Confirmers) <= ConfirmLimit + Rivals
RequestsOK(j) == usage.request[j] + Cardinality(Requesters(j)) <= RequestLimit + Rivals
PendingOK(j, l) ==
    /\ IsFiniteSet(Pending(j, l))
    /\ Cardinality(Pending(j, l)) + Cardinality(Askers(j, l)) <= Cardinality(Sess)

\* The part of the inductive invariant that counts.
BoundsInv ==
    /\ \A f \in Fac: AnswersOK(f) /\ AwardsOK(f)
    /\ ApprovalsOK /\ ConfirmsOK
    /\ \A j \in Seekers: RequestsOK(j)
    /\ \A j \in Seekers \cup {None}, l \in Listing \cup {None}: PendingOK(j, l)
-----------------------------------------------------------------------------
\* Counting sessions.

LEMMA SessSet ==
  ASSUME NEW X \in SUBSET Sess
  PROVE  /\ IsFiniteSet(X) /\ Cardinality(X) \in Nat /\ Cardinality(X) <= Cardinality(Sess)
         /\ Cardinality(Sess) \in Nat /\ Cardinality(Sess) >= 1
  <1>1. IsFiniteSet(Sess) /\ Sess # {} BY BoundsAssumption
  <1>2. Cardinality(Sess) \in Nat /\ Cardinality(Sess) # 0
    BY <1>1, FS_CardinalityType, FS_EmptySet
  <1>3. IsFiniteSet(X) /\ Cardinality(X) <= Cardinality(Sess) BY <1>1, FS_Subset
  <1> QED BY <1>2, <1>3, FS_CardinalityType

\* A bound on a count n and the sessions X that may add to it stays true when nothing
\* is added and no session comes in, when the session that adds leaves, and when there
\* is room for every session, or for all but one that does not add.
Room(n, m, X, Y, b) ==
    \/ m = n /\ Y \subseteq X
    \/ m < n /\ Y \subseteq X
    \/ m = n + 1 /\ \E s \in X: Y \subseteq X \ {s}
    \/ m + Cardinality(Sess) <= b
    \/ m + Cardinality(Sess) <= b + 1 /\ Y # Sess

LEMMA StaysBounded ==
  ASSUME NEW n \in Nat, NEW m \in Nat, NEW b \in Int,
         NEW X \in SUBSET Sess, NEW Y \in SUBSET Sess,
         n + Cardinality(X) <= b, Room(n, m, X, Y, b)
  PROVE  m + Cardinality(Y) <= b
  <1>1. /\ IsFiniteSet(X) /\ Cardinality(X) \in Nat /\ Cardinality(Y) \in Nat
        /\ Cardinality(Y) <= Cardinality(Sess) /\ Cardinality(Sess) \in Nat
    BY SessSet
  <1>2. CASE (m = n \/ m < n) /\ Y \subseteq X
    <2>1. Cardinality(Y) <= Cardinality(X) BY <1>1, <1>2, FS_Subset
    <2> QED BY <1>1, <1>2, <2>1
  <1>3. ASSUME m = n + 1, NEW s \in X, Y \subseteq X \ {s} PROVE m + Cardinality(Y) <= b
    <2>1. IsFiniteSet(X \ {s}) /\ Cardinality(X \ {s}) = Cardinality(X) - 1
      BY <1>1, FS_RemoveElement
    <2>2. Cardinality(Y) <= Cardinality(X \ {s}) BY <1>3, <2>1, FS_Subset
    <2> QED BY <1>1, <1>3, <2>1, <2>2
  <1>4. CASE m + Cardinality(Sess) <= b BY <1>1, <1>4
  <1>5. CASE m + Cardinality(Sess) <= b + 1 /\ Y # Sess
    <2>1. PICK s \in Sess: s \notin Y BY <1>5
    <2>2. /\ IsFiniteSet(Sess \ {s}) /\ Cardinality(Sess \ {s}) = Cardinality(Sess) - 1
      BY BoundsAssumption, FS_RemoveElement
    <2>3. Cardinality(Y) <= Cardinality(Sess \ {s}) BY <2>1, <2>2, FS_Subset
    <2> QED BY <1>1, <1>5, <2>2, <2>3
  <1> QED BY <1>2, <1>3, <1>4, <1>5 DEF Room
-----------------------------------------------------------------------------
\* The shapes of a step, as far as anything is counted.

SameTask(s) == /\ sess'[s].op = sess[s].op /\ sess'[s].f = sess[s].f
               /\ sess'[s].seen = sess[s].seen /\ sess'[s].seeker = sess[s].seeker
               /\ sess'[s].listing = sess[s].listing
Others(s) == \A t \in Sess \ {s}: sess'[t] = sess[t]
Remains(f) == fac'[f].status = "requested" =>
                  /\ fac[f].status = "requested" /\ fac'[f].seeker = fac[f].seeker
                  /\ fac'[f].listing = fac[f].listing

\* Nothing is counted; sessions go on with what they read, or end.
Quiet ==
    /\ books' = books /\ usage' = usage
    /\ \A f \in Fac: Remains(f)
    /\ \A s \in Sess: SameTask(s) \/ sess'[s] = Idle

\* A session reads, and passes its check.
Begins(s) ==
    /\ books' = books /\ usage' = usage /\ fac' = fac
    /\ sess[s] = Idle \/ sess[s].op = "idle"
    /\ Others(s)
    /\ LET r == sess'[s]
       IN  /\ r.op \in {"confirm", "webhook"} =>
                  r.f \in Fac /\ (r.seen.awarded <=> fac[r.f].awarded)
           /\ r.op = "approve" => usage.approve < ApproveLimit
           /\ r.op = "confirm" => usage.confirm < ConfirmLimit
           /\ r.op = "request" => /\ usage.request[r.seeker] < RequestLimit
                                  /\ Pending(r.seeker, r.listing) = {}

\* A session ends, and what it counted is what it was about to.
Adds(n, m, p) == m = n \/ (m = n + 1 /\ p)
Settles(s) ==
    /\ sess'[s] = Idle /\ Others(s)
    /\ \A f \in Fac: Adds(books[f].awarded, books'[f].awarded, MayPay(sess[s], f))
    /\ Adds(usage.approve, usage'.approve, sess[s].op = "approve")
    /\ Adds(usage.confirm, usage'.confirm, sess[s].op = "confirm")
    /\ \A j \in Seekers: Adds(usage.request[j], usage'.request[j],
                              sess[s].op = "request" /\ sess[s].seeker = j)
    /\ \/ \A f \in Fac: Remains(f)
       \/ \E g \in Fac: /\ \A f \in Fac \ {g}: Remains(f)
                        /\ fac[g].status = "none"
                        /\ Asks(sess[s], fac'[g].seeker, fac'[g].listing)

LEMMA SessionUpdate ==
  ASSUME TypeOK, NEW s \in Sess, NEW r, Becomes(s, r)
  PROVE  sess'[s] = r /\ Others(s) /\ \A t \in Sess \ {s}: SameTask(t)
  BY DEF TypeOK, Becomes, Others, SameTask

LEMMA ReadShape ==
  ASSUME IInv, NEW s \in Sess, Arrive(s)
  PROVE  Quiet \/ Begins(s)
  <1>0. TypeOK BY DEF IInv
  <1>s. sess \in [Sess -> SessRec] BY <1>0 DEF TypeOK
  <1>1. ASSUME NEW j \in Seekers, NEW l \in listings, RequestRead(s, j, l) PROVE Begins(s)
    <2>1. Becomes(s, [Idle EXCEPT !.op = "request", !.seeker = j, !.listing = l])
      BY <1>1 DEF RequestRead
    <2>2. /\ sess'[s].op = "request" /\ sess'[s].seeker = j /\ sess'[s].listing = l
          /\ Others(s)
      BY <1>s, <2>1 DEF Becomes, Others, Idle
    <2>3. Pending(j, l) = {} BY <1>1 DEF RequestRead, Pending
    <2> QED BY <1>1, <2>2, <2>3 DEF RequestRead, Starts, Begins, rowVars
  <1>2. ASSUME NEW f \in Fac, ApproveRead(s, f) PROVE Begins(s)
    <2>1. Becomes(s, [Idle EXCEPT !.op = "approve", !.f = f, !.seen = fac[f]])
      BY <1>2 DEF ApproveRead
    <2>2. sess'[s].op = "approve" /\ Others(s) BY <1>s, <2>1 DEF Becomes, Others, Idle
    <2> QED BY <1>2, <2>2 DEF ApproveRead, Starts, Begins, rowVars
  <1>3. ASSUME NEW f \in Fac, DeclineRead(s, f) PROVE Begins(s)
    <2>1. Becomes(s, [Idle EXCEPT !.op = "decline", !.f = f, !.seen = fac[f]])
      BY <1>3 DEF DeclineRead
    <2>2. sess'[s].op = "decline" /\ Others(s) BY <1>s, <2>1 DEF Becomes, Others, Idle
    <2> QED BY <1>3, <2>2 DEF DeclineRead, Starts, Begins, rowVars
  <1>4. ASSUME NEW f \in Fac, ConfirmRead(s, f) PROVE Begins(s)
    <2>1. Becomes(s, [Idle EXCEPT !.op = "confirm", !.f = f, !.seen = fac[f]])
      BY <1>4 DEF ConfirmRead
    <2>2. /\ sess'[s].op = "confirm" /\ sess'[s].f = f /\ sess'[s].seen = fac[f]
          /\ Others(s)
      BY <1>s, <2>1 DEF Becomes, Others, Idle
    <2> QED BY <1>4, <2>2 DEF ConfirmRead, Starts, Begins, rowVars
  <1>5. ASSUME NEW f \in Fac, NEW e \in Events, WebhookRead(s, f, e) PROVE Begins(s)
    <2>1. Becomes(s, [Idle EXCEPT !.op = "webhook", !.f = f, !.seen = fac[f], !.ev = e])
      BY <1>5 DEF WebhookRead
    <2>2. /\ sess'[s].op = "webhook" /\ sess'[s].f = f /\ sess'[s].seen = fac[f]
          /\ Others(s)
      BY <1>s, <2>1 DEF Becomes, Others, Idle
    <2> QED BY <1>5, <2>2 DEF WebhookRead, Starts, Begins, rowVars
  <1>6. ASSUME OptOutRead(s) PROVE Begins(s)
    <2>1. Becomes(s, [Idle EXCEPT !.op = "optout", !.live = listings,
                          !.rows = {f \in Fac: fac[f].status = "requested"}])
      BY <1>6 DEF OptOutRead
    <2>2. sess'[s].op = "optout" /\ Others(s) BY <1>s, <2>1 DEF Becomes, Others, Idle
    <2> QED BY <1>6, <2>2 DEF OptOutRead, Starts, Begins, rowVars
  <1>7. ASSUME NEW op \in {"upload", "optin"}, RegenerateRead(s, op) PROVE Begins(s)
    <2>1. Becomes(s, [Idle EXCEPT !.op = op, !.live = listings, !.who = Contacts \ purged])
      BY <1>7 DEF RegenerateRead
    <2>2. sess'[s].op = op /\ Others(s) BY <1>s, <2>1 DEF Becomes, Others, Idle
    <2> QED BY <1>7, <2>2 DEF RegenerateRead, Starts, Begins, rowVars
  <1>8. ASSUME NEW f \in Fac, RevokeToken(s, f) PROVE Quiet
    <2>1. \A g \in Fac: Remains(g) BY <1>0, <1>8 DEF RevokeToken, TypeOK, FacRow, Remains
    <2> QED BY <1>8, <2>1 DEF RevokeToken, Quiet, SameTask
  <1>9. ASSUME NEW c \in Contacts, Purge(s, c) PROVE Quiet
    <2>1. \A g \in Fac: Remains(g) BY <1>0, <1>9 DEF Purge, TypeOK, FacRow, Remains
    <2> QED BY <1>9, <2>1 DEF Purge, Quiet, SameTask
  <1> QED BY <1>1, <1>2, <1>3, <1>4, <1>5, <1>6, <1>7, <1>8, <1>9 DEF Arrive

\* What the unit of work leaves alone.
LEMMA MergeKeeps ==
  ASSUME NEW db \in FacRow, NEW seen, NEW new
  PROVE  /\ Merge(db, seen, new).seeker = db.seeker
         /\ Merge(db, seen, new).listing = db.listing
         /\ Merge(db, seen, new).status = Written(db.status, seen.status, new.status)
  BY DEF Merge, FacRow

\* An answer writes a status that is not pending, or none; the rest of the row stays.
LEMMA MergeRemains ==
  ASSUME TypeOK, NEW g \in Fac, NEW seen, NEW new,
         fac' = [fac EXCEPT ![g] = Merge(@, seen, new)],
         new.status = seen.status \/ new.status # "requested"
  PROVE  \A f \in Fac: Remains(f)
  <1>1. fac[g] \in FacRow /\ fac \in [Fac -> FacRow] BY DEF TypeOK
  <1>2. fac'[g] = Merge(fac[g], seen, new) /\ \A f \in Fac \ {g}: fac'[f] = fac[f]
    BY <1>1
  <1>3. Remains(g) BY <1>1, <1>2, MergeKeeps DEF Remains, Written
  <1> QED BY <1>2, <1>3 DEF Remains

LEMMA RequestShape ==
  ASSUME IInv, NEW s \in Sess, NEW g \in Fac, RequestCommit(s, g) PROVE Settles(s)
  <1>0. TypeOK BY DEF IInv
  <1>1. /\ sess[s].op = "request" /\ fac[g].status = "none" /\ Becomes(s, Idle)
        /\ books' = [books EXCEPT ![g].charged = @ + 1]
        /\ usage' = [usage EXCEPT !.request[sess[s].seeker] = @ + 1]
        /\ fac' = [fac EXCEPT ![g] = [Unborn EXCEPT !.status = "requested",
                                         !.seeker = sess[s].seeker,
                                         !.listing = sess[s].listing]]
    BY DEF RequestCommit, Doing
  <1>2. sess'[s] = Idle /\ Others(s) BY <1>0, <1>1, SessionUpdate
  <1>3. \A f \in Fac: books'[f].awarded = books[f].awarded BY <1>0, <1>1 DEF TypeOK
  <1>4. /\ usage'.approve = usage.approve /\ usage'.confirm = usage.confirm
        /\ \A j \in Seekers: Adds(usage.request[j], usage'.request[j], sess[s].seeker = j)
    BY <1>0, <1>1 DEF TypeOK, Adds
  <1>5. /\ fac'[g].seeker = sess[s].seeker /\ fac'[g].listing = sess[s].listing
        /\ \A f \in Fac \ {g}: fac'[f] = fac[f]
    BY <1>0, <1>1 DEF TypeOK, Unborn
  <1>6. Asks(sess[s], fac'[g].seeker, fac'[g].listing) BY <1>1, <1>5 DEF Asks
  <1>7. \A f \in Fac \ {g}: Remains(f) BY <1>5 DEF Remains
  <1> QED BY <1>1, <1>2, <1>3, <1>4, <1>6, <1>7 DEF Settles, Adds

LEMMA ApproveShape ==
  ASSUME IInv, NEW s \in Sess, ApproveCommit(s) PROVE Settles(s)
  <1> DEFINE r == sess[s]
  <1>0. TypeOK /\ r \in SessRec /\ r.seen \in FacRow BY DEF IInv, TypeOK, SessRec
  <1>1. /\ r.op = "approve" /\ Becomes(s, Idle) /\ books' = books
        /\ usage' = [usage EXCEPT !.approve = @ + 1, !.approvals = @ + 1]
        /\ fac' = [fac EXCEPT ![r.f] = Merge(@, r.seen, Approved(r))]
    BY DEF ApproveCommit, Doing
  <1>2. sess'[s] = Idle /\ Others(s) BY <1>0, <1>1, SessionUpdate
  <1>3. r.f \in Fac BY <1>1 DEF IInv, SessionsOK, SessionOK, RecordOK
  <1>4. Approved(r).status = "approved" BY <1>0 DEF Approved, FacRow
  <1> HIDE DEF r
  <1>5. \A f \in Fac: Remains(f) BY <1>0, <1>1, <1>3, <1>4, MergeRemains
  <1>6. /\ usage'.approve = usage.approve + 1 /\ usage'.confirm = usage.confirm
        /\ usage'.request = usage.request
    BY <1>0, <1>1 DEF TypeOK
  <1> QED BY <1>1, <1>2, <1>5, <1>6 DEF Settles, Adds, r

LEMMA DeclineShape ==
  ASSUME IInv, NEW s \in Sess, DeclineCommit(s) PROVE Settles(s)
  <1> DEFINE r == sess[s]
             new == [r.seen EXCEPT !.status = "declined"]
  <1>0. TypeOK /\ r \in SessRec /\ r.seen \in FacRow BY DEF IInv, TypeOK, SessRec
  <1>1. /\ r.op = "decline" /\ Becomes(s, Idle) /\ usage' = usage
        /\ books' = [books EXCEPT ![r.f].refunded = @ + 1]
        /\ fac' = [fac EXCEPT ![r.f] = Merge(@, r.seen, new)]
    BY DEF DeclineCommit, Doing
  <1>2. sess'[s] = Idle /\ Others(s) BY <1>0, <1>1, SessionUpdate
  <1>3. r.f \in Fac BY <1>1 DEF IInv, SessionsOK, SessionOK, RecordOK
  <1>4. new.status = "declined" BY <1>0 DEF FacRow
  <1> HIDE DEF r, new
  <1>5. \A f \in Fac: Remains(f) BY <1>0, <1>1, <1>3, <1>4, MergeRemains
  <1>6. \A f \in Fac: books'[f].awarded = books[f].awarded BY <1>0, <1>1, <1>3 DEF TypeOK
  <1> QED BY <1>1, <1>2, <1>5, <1>6 DEF Settles, Adds, r

\* A session that pays adds one award to its intro, or none above the cap.
LEMMA AwardAdds ==
  ASSUME TypeOK, NEW g \in Fac, NEW amount,
         Award(g, amount) \/ UNCHANGED <<books, earned>>
  PROVE  \A f \in Fac: /\ books'[f].refunded = books[f].refunded
                       /\ Adds(books[f].awarded, books'[f].awarded, g = f)
  <1>1. CASE books' = books BY <1>1 DEF Adds
  <1>2. CASE books' = [books EXCEPT ![g].awarded = @ + 1] BY <1>2 DEF TypeOK, Adds
  <1> QED BY <1>1, <1>2 DEF Award

LEMMA ConfirmShape ==
  ASSUME IInv, NEW s \in Sess, ConfirmCommit(s) PROVE Settles(s)
  <1> DEFINE r == sess[s]
             new == ConfirmedRow(r)
  <1>0. TypeOK /\ r \in SessRec /\ r.seen \in FacRow BY DEF IInv, TypeOK, SessRec
  <1>1. /\ r.op = "confirm" /\ Becomes(s, Idle)
        /\ usage' = [usage EXCEPT !.confirm = @ + 1]
        /\ Award(r.f, DeliveryAward) \/ UNCHANGED <<books, earned>>
        /\ fac' = [fac EXCEPT ![r.f] = Merge(@, r.seen, new)]
    BY DEF ConfirmCommit, Doing, ConfirmedRow
  <1>2. sess'[s] = Idle /\ Others(s) BY <1>0, <1>1, SessionUpdate
  <1>3. r.f \in Fac /\ ~r.seen.awarded
    BY <1>1 DEF IInv, SessionsOK, SessionOK, RecordOK
  <1>4. new.status = r.seen.status BY <1>0 DEF FacRow, ConfirmedRow
  <1> HIDE DEF r, new
  <1>5. \A f \in Fac: Remains(f) BY <1>0, <1>1, <1>3, <1>4, MergeRemains
  <1>6. \A f \in Fac: /\ books'[f].refunded = books[f].refunded
                      /\ Adds(books[f].awarded, books'[f].awarded, r.f = f)
    BY <1>0, <1>1, <1>3, AwardAdds
  <1>7. /\ usage'.confirm = usage.confirm + 1 /\ usage'.approve = usage.approve
        /\ usage'.request = usage.request
    BY <1>0, <1>1 DEF TypeOK
  <1> QED BY <1>1, <1>2, <1>3, <1>5, <1>6, <1>7 DEF Settles, Adds, MayPay, r

LEMMA WebhookShape ==
  ASSUME IInv, NEW s \in Sess, WebhookCommit(s) PROVE Settles(s)
  <1> DEFINE r == sess[s]
             new == HandledRow(r)
  <1>0. TypeOK /\ r \in SessRec /\ r.seen \in FacRow BY DEF IInv, TypeOK, SessRec
  <1>1. /\ r.op = "webhook" /\ Becomes(s, Idle) /\ usage' = usage
        /\ IF Pays(r) THEN Award(r.f, AwardOf(r.ev)) ELSE UNCHANGED <<books, earned>>
        /\ fac' = [fac EXCEPT ![r.f] = Merge(@, r.seen, new)]
    BY DEF WebhookCommit, Doing, HandledRow
  <1>2. sess'[s] = Idle /\ Others(s) BY <1>0, <1>1, SessionUpdate
  <1>3. r.f \in Fac BY <1>1 DEF IInv, SessionsOK, SessionOK, RecordOK
  <1>4. new.status = r.seen.status BY <1>0 DEF FacRow, HandledRow
  <1> HIDE DEF r, new
  <1>5. \A f \in Fac: Remains(f) BY <1>0, <1>1, <1>3, <1>4, MergeRemains
  <1>6. \A f \in Fac: /\ books'[f].refunded = books[f].refunded
                      /\ Adds(books[f].awarded, books'[f].awarded, r.f = f /\ ~r.seen.awarded)
    <2>1. CASE Pays(r)
      <3>1. Award(r.f, AwardOf(r.ev)) /\ ~r.seen.awarded BY <1>1, <2>1 DEF Pays
      <3> QED BY <1>0, <1>3, <3>1, AwardAdds DEF Adds
    <2>2. CASE ~Pays(r) BY <1>1, <2>2 DEF Adds
    <2> QED BY <2>1, <2>2
  <1> QED BY <1>1, <1>2, <1>5, <1>6 DEF Settles, Adds, MayPay, r

\* The other steps of a session that works, or fails.
LEMMA WorkShape ==
  ASSUME IInv, NEW s \in Sess,
         \/ ApproveLock(s) \/ RelaySkip(s) \/ RelaySend(s) \/ RelayRecord(s)
         \/ RelayRecordFails(s) \/ OptOutCommit(s) \/ RegenerateCommit(s) \/ Abort(s)
  PROVE  Quiet
  <1>0. TypeOK BY DEF IInv
  <1>1. books' = books /\ usage' = usage
    BY DEF ApproveLock, RelaySkip, RelaySend, RelayRecord, RelayRecordFails, OptOutCommit,
           RegenerateCommit, Abort, rowVars
  <1>2. \A f \in Fac: Remains(f)
    <2>1. CASE fac' = fac BY <2>1 DEF Remains
    <2>2. CASE OptOutCommit(s) BY <1>0, <2>2 DEF OptOutCommit, TypeOK, FacRow, Remains
    <2> QED BY <2>1, <2>2 DEF ApproveLock, RelaySkip, RelaySend, RelayRecord,
                              RelayRecordFails, RegenerateCommit, Abort, rowVars
  <1>3. Becomes(s, Idle) => \A t \in Sess: SameTask(t) \/ sess'[t] = Idle
    BY <1>0, SessionUpdate
  <1>4. ASSUME NEW r, Becomes(s, r), r.op = sess[s].op, r.f = sess[s].f,
               r.seen = sess[s].seen, r.seeker = sess[s].seeker, r.listing = sess[s].listing
        PROVE  \A t \in Sess: SameTask(t)
    <2>1. sess'[s] = r /\ \A t \in Sess \ {s}: SameTask(t) BY <1>0, <1>4, SessionUpdate
    <2> QED BY <1>4, <2>1 DEF SameTask
  <1>5. CASE ApproveLock(s) \/ RelaySkip(s) \/ RelaySend(s) \/ RelayRecord(s)
    <2>1. sess[s] \in SessRec BY <1>0 DEF TypeOK
    <2>2. \A t \in Sess: SameTask(t)
      <3>1. CASE ApproveLock(s) BY <1>4, <2>1, <3>1 DEF ApproveLock, SessRec
      <3>2. CASE RelaySkip(s) BY <1>4, <2>1, <3>2 DEF RelaySkip, SessRec
      <3>3. CASE RelaySend(s) BY <1>4, <2>1, <3>3 DEF RelaySend, SessRec
      <3>4. CASE RelayRecord(s) BY <1>4, <2>1, <3>4 DEF RelayRecord, SessRec
      <3> QED BY <1>5, <3>1, <3>2, <3>3, <3>4
    <2> QED BY <1>1, <1>2, <2>2 DEF Quiet
  <1>6. CASE RelayRecordFails(s) \/ OptOutCommit(s) \/ RegenerateCommit(s) \/ Abort(s)
    <2>1. Becomes(s, Idle)
      BY <1>6 DEF RelayRecordFails, OptOutCommit, RegenerateCommit, Abort
    <2> QED BY <1>1, <1>2, <1>3, <2>1 DEF Quiet
  <1> QED BY <1>5, <1>6

\* Midnight takes what was counted today with it.
DayTurns == /\ books' = books /\ fac' = fac /\ sess' = sess
            /\ usage'.approve = 0 /\ usage'.confirm = 0
            /\ \A j \in Seekers: usage'.request[j] = 0

LEMMA Shapes ==
  ASSUME IInv, [Next]_vars
  PROVE  Quiet \/ DayTurns \/ \E s \in Sess: Begins(s) \/ Settles(s)
  <1>0. TypeOK BY DEF IInv
  <1>1. CASE UNCHANGED <<fac, books, usage, sess>> BY <1>1 DEF Quiet, Remains, SameTask
  <1>2. ASSUME NEW s \in Sess, Arrive(s) PROVE Quiet \/ Begins(s) BY <1>2, ReadShape
  <1>3. ASSUME NEW s \in Sess, Progress(s) PROVE Quiet \/ Settles(s)
    BY <1>3, RequestShape, ApproveShape, DeclineShape, ConfirmShape, WebhookShape, WorkShape
       DEF Progress
  <1>4. ASSUME NEW s \in Sess, Abort(s) PROVE Quiet BY <1>4, WorkShape
  <1>5. CASE NextDay BY <1>0, <1>5 DEF NextDay, DayTurns, TypeOK
  <1>6. CASE \E n \in 1..attempts, e \in Events:
                \/ ResendIssues(n, e) \/ ResendRepeats(n, e)
                \/ \E s \in Sess: WebhookUnmatched(s, n, e)
    BY <1>1, <1>6 DEF ResendIssues, ResendRepeats, WebhookUnmatched, rowVars
  <1>7. CASE UNCHANGED vars BY <1>1, <1>7 DEF vars, rowVars
  <1> QED BY <1>2, <1>3, <1>4, <1>5, <1>6, <1>7 DEF Next
-----------------------------------------------------------------------------
\* Each count, step by step.

LEMMA IdleTask ==
  /\ Idle.op = "idle"
  /\ \A f, j, l: ~MayPay(Idle, f) /\ ~Asks(Idle, j, l)
  BY DEF Idle, MayPay, Asks

LEMMA AwardsStep ==
  ASSUME IInv, NEW f \in Fac, AwardsOK(f), [Next]_vars
  PROVE  AwardsOK(f)'
  <1> DEFINE n == books[f].awarded
             m == books'[f].awarded
             X == Payers(f)
             Y == Payers(f)'
             b == Cardinality(Sess)
  <1>1. X \in SUBSET Sess /\ Y \in SUBSET Sess BY DEF Payers
  <1>2. n \in Nat /\ m \in Nat
    <2>1. TypeOK /\ TypeOK' BY Inductive DEF IInv
    <2> QED BY <2>1 DEF TypeOK
  <1>3. Y = {s \in Sess: MayPay(sess'[s], f)} BY DEF Payers
  <1>4. Room(n, m, X, Y, b)
    <2>1. CASE Quiet
      <3>1. \A s \in Sess: MayPay(sess'[s], f) => MayPay(sess[s], f)
        BY <2>1, IdleTask DEF Quiet, SameTask, MayPay
      <3> QED BY <1>3, <2>1, <3>1 DEF Quiet, Room, Payers
    <2>2. CASE DayTurns BY <2>2 DEF DayTurns, Room, Payers, MayPay
    <2>3. ASSUME NEW s \in Sess, Begins(s) PROVE Room(n, m, X, Y, b)
      <3>1. m = n BY <2>3 DEF Begins
      <3>2. CASE MayPay(sess'[s], f)
        <4>1. ~fac[f].awarded BY <2>3, <3>2 DEF Begins, MayPay
        <4>2. n = 0 BY <1>2, <4>1 DEF IInv, AwardFlagMatchesBooks
        <4> QED BY <3>1, <4>2, <1>1, SessSet DEF Room
      <3>3. CASE ~MayPay(sess'[s], f)
        <4>1. Y \subseteq X BY <1>3, <2>3, <3>3 DEF Begins, Others, Payers
        <4> QED BY <3>1, <4>1 DEF Room
      <3> QED BY <3>2, <3>3
    <2>4. ASSUME NEW s \in Sess, Settles(s) PROVE Room(n, m, X, Y, b)
      <3>1. Y \subseteq X \ {s} BY <1>3, <2>4, IdleTask DEF Settles, Others, Payers
      <3>2. Adds(n, m, MayPay(sess[s], f)) BY <2>4 DEF Settles
      <3>3. MayPay(sess[s], f) => s \in X BY DEF Payers
      <3> QED BY <3>1, <3>2, <3>3 DEF Room, Adds
    <2> QED BY <2>1, <2>2, <2>3, <2>4, Shapes
  <1>5. n + Cardinality(X) <= b BY DEF AwardsOK
  <1>6. b \in Int BY SessSet
  <1> HIDE DEF n, m, X, Y, b
  <1>7. m + Cardinality(Y) <= b BY <1>1, <1>2, <1>4, <1>5, <1>6, StaysBounded
  <1> QED BY <1>7 DEF m, Y, b, AwardsOK

\* A limit leaves room for every session while the count is below it, and at midnight.
LEMMA BelowLimit ==
  ASSUME NEW limit \in Nat \ {0}, NEW m \in Nat, m < limit
  PROVE  m + Cardinality(Sess) <= limit + Rivals
  BY SessSet DEF Rivals

LEMMA ApprovalsStep ==
  ASSUME IInv, ApprovalsOK, [Next]_vars
  PROVE  ApprovalsOK'
  <1> DEFINE n == usage.approve
             m == usage'.approve
             X == Approvers
             Y == Approvers'
             b == ApproveLimit + Rivals
  <1>1. X \in SUBSET Sess /\ Y \in SUBSET Sess BY DEF Approvers
  <1>2. n \in Nat /\ m \in Nat /\ ApproveLimit \in Nat \ {0}
    <2>1. TypeOK /\ TypeOK' BY Inductive DEF IInv
    <2> QED BY <2>1, BoundsAssumption DEF TypeOK
  <1>3. Y = {s \in Sess: sess'[s].op = "approve"} BY DEF Approvers
  <1>4. Room(n, m, X, Y, b)
    <2>1. CASE Quiet
      <3>1. \A s \in Sess: sess'[s].op = "approve" => sess[s].op = "approve"
        BY <2>1, IdleTask DEF Quiet, SameTask
      <3> QED BY <1>3, <2>1, <3>1 DEF Quiet, Room, Approvers
    <2>2. CASE DayTurns BY <1>2, <2>2, BelowLimit DEF DayTurns, Room
    <2>3. ASSUME NEW s \in Sess, Begins(s) PROVE Room(n, m, X, Y, b)
      <3>1. m = n BY <2>3 DEF Begins
      <3>2. CASE sess'[s].op = "approve"
        <4>1. m < ApproveLimit BY <2>3, <3>1, <3>2 DEF Begins
        <4> QED BY <1>2, <4>1, BelowLimit DEF Room
      <3>3. CASE sess'[s].op # "approve"
        <4>1. Y \subseteq X BY <1>3, <2>3, <3>3 DEF Begins, Others, Approvers
        <4> QED BY <3>1, <4>1 DEF Room
      <3> QED BY <3>2, <3>3
    <2>4. ASSUME NEW s \in Sess, Settles(s) PROVE Room(n, m, X, Y, b)
      <3>1. Y \subseteq X \ {s} BY <1>3, <2>4, IdleTask DEF Settles, Others, Approvers
      <3>2. Adds(n, m, sess[s].op = "approve") BY <2>4 DEF Settles
      <3>3. sess[s].op = "approve" => s \in X BY DEF Approvers
      <3> QED BY <3>1, <3>2, <3>3 DEF Room, Adds
    <2> QED BY <2>1, <2>2, <2>3, <2>4, Shapes
  <1>5. n + Cardinality(X) <= b BY DEF ApprovalsOK
  <1>6. b \in Int BY <1>2, SessSet DEF Rivals
  <1> HIDE DEF n, m, X, Y, b
  <1>7. m + Cardinality(Y) <= b BY <1>1, <1>2, <1>4, <1>5, <1>6, StaysBounded
  <1> QED BY <1>7 DEF m, Y, b, ApprovalsOK, Rivals

LEMMA ConfirmsStep ==
  ASSUME IInv, ConfirmsOK, [Next]_vars
  PROVE  ConfirmsOK'
  <1> DEFINE n == usage.confirm
             m == usage'.confirm
             X == Confirmers
             Y == Confirmers'
             b == ConfirmLimit + Rivals
  <1>1. X \in SUBSET Sess /\ Y \in SUBSET Sess BY DEF Confirmers
  <1>2. n \in Nat /\ m \in Nat /\ ConfirmLimit \in Nat \ {0}
    <2>1. TypeOK /\ TypeOK' BY Inductive DEF IInv
    <2> QED BY <2>1, BoundsAssumption DEF TypeOK
  <1>3. Y = {s \in Sess: sess'[s].op = "confirm"} BY DEF Confirmers
  <1>4. Room(n, m, X, Y, b)
    <2>1. CASE Quiet
      <3>1. \A s \in Sess: sess'[s].op = "confirm" => sess[s].op = "confirm"
        BY <2>1, IdleTask DEF Quiet, SameTask
      <3> QED BY <1>3, <2>1, <3>1 DEF Quiet, Room, Confirmers
    <2>2. CASE DayTurns BY <1>2, <2>2, BelowLimit DEF DayTurns, Room
    <2>3. ASSUME NEW s \in Sess, Begins(s) PROVE Room(n, m, X, Y, b)
      <3>1. m = n BY <2>3 DEF Begins
      <3>2. CASE sess'[s].op = "confirm"
        <4>1. m < ConfirmLimit BY <2>3, <3>1, <3>2 DEF Begins
        <4> QED BY <1>2, <4>1, BelowLimit DEF Room
      <3>3. CASE sess'[s].op # "confirm"
        <4>1. Y \subseteq X BY <1>3, <2>3, <3>3 DEF Begins, Others, Confirmers
        <4> QED BY <3>1, <4>1 DEF Room
      <3> QED BY <3>2, <3>3
    <2>4. ASSUME NEW s \in Sess, Settles(s) PROVE Room(n, m, X, Y, b)
      <3>1. Y \subseteq X \ {s} BY <1>3, <2>4, IdleTask DEF Settles, Others, Confirmers
      <3>2. Adds(n, m, sess[s].op = "confirm") BY <2>4 DEF Settles
      <3>3. sess[s].op = "confirm" => s \in X BY DEF Confirmers
      <3> QED BY <3>1, <3>2, <3>3 DEF Room, Adds
    <2> QED BY <2>1, <2>2, <2>3, <2>4, Shapes
  <1>5. n + Cardinality(X) <= b BY DEF ConfirmsOK
  <1>6. b \in Int BY <1>2, SessSet DEF Rivals
  <1> HIDE DEF n, m, X, Y, b
  <1>7. m + Cardinality(Y) <= b BY <1>1, <1>2, <1>4, <1>5, <1>6, StaysBounded
  <1> QED BY <1>7 DEF m, Y, b, ConfirmsOK, Rivals

LEMMA RequestsStep ==
  ASSUME IInv, NEW j \in Seekers, RequestsOK(j), [Next]_vars
  PROVE  RequestsOK(j)'
  <1> DEFINE Mine(r) == r.op = "request" /\ r.seeker = j
             n == usage.request[j]
             m == usage'.request[j]
             X == Requesters(j)
             Y == Requesters(j)'
             b == RequestLimit + Rivals
  <1>1. X \in SUBSET Sess /\ Y \in SUBSET Sess BY DEF Requesters
  <1>2. n \in Nat /\ m \in Nat /\ RequestLimit \in Nat \ {0}
    <2>1. TypeOK /\ TypeOK' BY Inductive DEF IInv
    <2> QED BY <2>1, BoundsAssumption DEF TypeOK
  <1>3. Y = {s \in Sess: Mine(sess'[s])} BY DEF Requesters
  <1>4. Room(n, m, X, Y, b)
    <2>1. CASE Quiet
      <3>1. \A s \in Sess: Mine(sess'[s]) => Mine(sess[s])
        BY <2>1, IdleTask DEF Quiet, SameTask
      <3> QED BY <1>3, <2>1, <3>1 DEF Quiet, Room, Requesters
    <2>2. CASE DayTurns BY <1>2, <2>2, BelowLimit DEF DayTurns, Room
    <2>3. ASSUME NEW s \in Sess, Begins(s) PROVE Room(n, m, X, Y, b)
      <3>1. m = n BY <2>3 DEF Begins
      <3>2. CASE Mine(sess'[s])
        <4>1. m < RequestLimit BY <2>3, <3>1, <3>2 DEF Begins
        <4> QED BY <1>2, <4>1, BelowLimit DEF Room
      <3>3. CASE ~Mine(sess'[s])
        <4>1. Y \subseteq X BY <1>3, <2>3, <3>3 DEF Begins, Others, Requesters
        <4> QED BY <3>1, <4>1 DEF Room
      <3> QED BY <3>2, <3>3
    <2>4. ASSUME NEW s \in Sess, Settles(s) PROVE Room(n, m, X, Y, b)
      <3>1. Y \subseteq X \ {s} BY <1>3, <2>4, IdleTask DEF Settles, Others, Requesters
      <3>2. Adds(n, m, Mine(sess[s])) BY <2>4 DEF Settles
      <3>3. Mine(sess[s]) => s \in X BY DEF Requesters
      <3> QED BY <3>1, <3>2, <3>3 DEF Room, Adds
    <2> QED BY <2>1, <2>2, <2>3, <2>4, Shapes
  <1>5. n + Cardinality(X) <= b BY DEF RequestsOK
  <1>6. b \in Int BY <1>2, SessSet DEF Rivals
  <1> HIDE DEF n, m, X, Y, b
  <1>7. m + Cardinality(Y) <= b BY <1>1, <1>2, <1>4, <1>5, <1>6, StaysBounded
  <1> QED BY <1>7 DEF m, Y, b, RequestsOK, Rivals

\* The requests pending for a seeker and a listing, which only a commit adds to.
LEMMA PendingStep ==
  ASSUME IInv, NEW j, NEW l, PendingOK(j, l), [Next]_vars
  PROVE  PendingOK(j, l)'
  <1> DEFINE P == Pending(j, l)
             Q == Pending(j, l)'
             X == Askers(j, l)
             Y == Askers(j, l)'
             b == Cardinality(Sess)
  <1>1. X \in SUBSET Sess /\ Y \in SUBSET Sess BY DEF Askers
  <1>2. IsFiniteSet(P) /\ Cardinality(P) \in Nat /\ Cardinality(P) + Cardinality(X) <= b
    BY FS_CardinalityType DEF PendingOK
  <1>3. Y = {s \in Sess: Asks(sess'[s], j, l)} BY DEF Askers
  <1>4. Q = {f \in Fac: fac'[f].status = "requested" /\ fac'[f].seeker = j
                          /\ fac'[f].listing = l}
    BY DEF Pending
  <1>5. (\A f \in Fac: Remains(f)) => Q \subseteq P BY <1>4 DEF Remains, Pending
  <1>c. Cardinality(X) \in Nat /\ Cardinality(Y) \in Nat /\ b \in Nat /\ Cardinality(Y) <= b
    BY <1>1, SessSet
  <1>6. ASSUME Q \subseteq P, Y \subseteq X PROVE PendingOK(j, l)'
    <2>1. IsFiniteSet(Q) /\ Cardinality(Q) <= Cardinality(P) BY <1>2, <1>6, FS_Subset
    <2>2. Cardinality(Q) \in Nat BY <2>1, FS_CardinalityType
    <2>3. IsFiniteSet(X) BY <1>1, SessSet
    <2>4. Cardinality(Y) <= Cardinality(X) BY <1>6, <2>3, FS_Subset
    <2>5. Cardinality(Q) + Cardinality(Y) <= b BY <1>2, <1>c, <2>1, <2>2, <2>4
    <2> QED BY <2>1, <2>5 DEF PendingOK
  <1>7. CASE Quiet
    <2>1. \A s \in Sess: Asks(sess'[s], j, l) => Asks(sess[s], j, l)
      BY <1>7, IdleTask DEF Quiet, SameTask, Asks
    <2>2. Y \subseteq X BY <1>3, <2>1 DEF Askers
    <2> QED BY <1>5, <1>6, <1>7, <2>2 DEF Quiet
  <1>8. CASE DayTurns
    <2>1. Q = P /\ Y = X BY <1>8 DEF DayTurns, Pending, Askers, Asks
    <2> QED BY <1>6, <2>1
  <1>9. ASSUME NEW s \in Sess, Begins(s) PROVE PendingOK(j, l)'
    <2>1. Q = P BY <1>9 DEF Begins, Pending
    <2>2. CASE Asks(sess'[s], j, l)
      <3>1. P = {} BY <1>9, <2>2 DEF Begins, Asks
      <3>2. IsFiniteSet(Q) /\ Cardinality(Q) = 0 BY <2>1, <3>1, FS_EmptySet
      <3>3. Cardinality(Q) + Cardinality(Y) <= b BY <1>c, <3>2
      <3> QED BY <3>2, <3>3 DEF PendingOK
    <2>3. CASE ~Asks(sess'[s], j, l)
      <3>1. Y \subseteq X BY <1>3, <1>9, <2>3 DEF Begins, Others, Askers
      <3> QED BY <1>6, <2>1, <3>1
    <2> QED BY <2>2, <2>3
  <1>10. ASSUME NEW s \in Sess, Settles(s) PROVE PendingOK(j, l)'
    <2>1. Y \subseteq X \ {s} BY <1>3, <1>10, IdleTask DEF Settles, Others, Askers
    <2>2. CASE Q \subseteq P BY <1>6, <2>1, <2>2
    <2>3. CASE ~(Q \subseteq P)
      <3>1. PICK g \in Fac: /\ \A f \in Fac \ {g}: Remains(f)
                            /\ fac[g].status = "none"
                            /\ Asks(sess[s], fac'[g].seeker, fac'[g].listing)
        BY <1>5, <1>10, <2>3 DEF Settles
      <3>2. Q \subseteq P \cup {g} BY <1>4, <3>1 DEF Remains, Pending
      <3>3. g \in Q BY <2>3, <3>2
      <3>4. s \in X BY <1>4, <3>1, <3>3 DEF Askers
      <3>5. g \notin P BY <3>1 DEF Pending
      <3>6. IsFiniteSet(P \cup {g}) /\ Cardinality(P \cup {g}) = Cardinality(P) + 1
        BY <1>2, <3>5, FS_AddElement
      <3>7. IsFiniteSet(Q) /\ Cardinality(Q) <= Cardinality(P) + 1
        BY <3>2, <3>6, FS_Subset
      <3>8. Cardinality(Q) \in Nat BY <3>7, FS_CardinalityType
      <3>9. Cardinality(Y) <= Cardinality(X) - 1
        <4>1. IsFiniteSet(X) BY <1>1, SessSet
        <4>2. IsFiniteSet(X \ {s}) /\ Cardinality(X \ {s}) = Cardinality(X) - 1
          BY <3>4, <4>1, FS_RemoveElement
        <4>3. Cardinality(Y) <= Cardinality(X \ {s}) BY <2>1, <4>2, FS_Subset
        <4> QED BY <4>2, <4>3
      <3>10. Cardinality(Q) + Cardinality(Y) <= b BY <1>2, <1>c, <3>7, <3>8, <3>9
      <3> QED BY <3>7, <3>10 DEF PendingOK
    <2> QED BY <2>2, <2>3
  <1> QED BY <1>7, <1>8, <1>9, <1>10, Shapes
-----------------------------------------------------------------------------
\* Settlements: what an open session may still do to a row that has been settled.

\* A row that is pending, or not yet born, has no answer, and no session saw one.
LEMMA PendingUnanswered ==
  IInv => \A f \in Fac: ~Settled(f) => Answers(f) = 0
  <1> SUFFICES ASSUME IInv, NEW f \in Fac, ~Settled(f) PROVE Answers(f) = 0
    OBVIOUS
  <1>1. fac[f].status \in {"none", "requested"}
    <2>1. fac[f].status \in Statuses BY DEF IInv, TypeOK, FacRow
    <2> QED BY <2>1 DEF Settled, Statuses
  <1>2. ~fac[f].awarded /\ fac[f].relay = 0 /\ books[f].refunded = 0
    BY <1>1, PendingIsClean
  <1>3. \A s \in Sess: ~Honours(sess[s], f)
    BY DEF IInv, SessionsOK, SessionOK, RecordOK, Honours
  <1>4. ~Stands(f) BY <1>1, <1>2, <1>3 DEF Stands, Honoured
  <1> QED BY <1>1, <1>2, <1>4 DEF Answers

LEMMA PendingUnansweredNext ==
  IInv' => \A f \in Fac: ~Settled(f)' => Answers(f)' = 0
  <1>1. IInv' => (\A f \in Fac: ~Settled(f) => Answers(f) = 0)' BY PendingUnanswered, PTL
  <1> QED BY <1>1

\* What a step does to the answers of f.  It leaves them alone ...
SameAnswers(f) ==
    /\ books'[f].refunded = books[f].refunded
    /\ fac'[f].status = "approved" => fac[f].status = "approved"
    /\ fac'[f].status = "expired" => fac[f].status = "expired"
    /\ fac'[f].relay = fac[f].relay
    /\ fac'[f].awarded => fac[f].awarded \/ Stands(f)
Stays(s, f) == MaySettle(sess'[s], f) => MaySettle(sess[s], f)
StaysSeen(s, f) == Honours(sess'[s], f) => Honours(sess[s], f) \/ Stands(f)
Untouched(f) ==
    SameAnswers(f) /\ \A s \in Sess: Stays(s, f) /\ StaysSeen(s, f)
\* ... or one session that may settle it does so, one way, and ends ...
Answered(f) ==
    /\ \E s \in Settlers(f): sess'[s] = Idle /\ Others(s)
    /\ \/ /\ books'[f].refunded = books[f].refunded + 1
          /\ fac'[f].status = "declined"
          /\ fac'[f].relay = fac[f].relay /\ fac'[f].awarded = fac[f].awarded
       \/ books'[f].refunded = books[f].refunded /\ fac'[f].status = "approved"
       \/ /\ books'[f].refunded = books[f].refunded
          /\ fac'[f].status = "expired"
          /\ fac'[f].relay = fac[f].relay /\ fac'[f].awarded = fac[f].awarded
\* ... or a purge expires it while it is pending.
Purged(f) ==
    /\ ~Settled(f) /\ books'[f].refunded = books[f].refunded
    /\ fac'[f].status = "expired"
    /\ fac'[f].relay = fac[f].relay /\ fac'[f].awarded = fac[f].awarded
    /\ UNCHANGED sess /\ \E s \in Sess: sess[s].op = "idle"

LEMMA IdleAnswer == \A f: ~MaySettle(Idle, f) /\ ~Honours(Idle, f)
  BY DEF Idle, MaySettle, Honours

\* A step whose row, books and sessions are the same for f.
LEMMA SameRow ==
  ASSUME NEW f \in Fac, fac'[f] = fac[f], books'[f] = books[f],
         \A s \in Sess: Stays(s, f) /\ StaysSeen(s, f)
  PROVE  Untouched(f)
  BY DEF Untouched, SameAnswers

LEMMA ArriveAnswers ==
  ASSUME IInv, NEW s \in Sess, Arrive(s), NEW f \in Fac, Settled(f)'
  PROVE  Untouched(f) \/ Purged(f)
  <1>0. TypeOK /\ sess \in [Sess -> SessRec] BY DEF IInv, TypeOK
  <1>1. ASSUME NEW r, Becomes(s, r), ~MaySettle(r, f), Honours(r, f) => Stands(f),
               fac' = fac, books' = books
        PROVE  Untouched(f)
    <2>1. sess'[s] = r /\ \A t \in Sess \ {s}: sess'[t] = sess[t]
      BY <1>0, <1>1 DEF Becomes
    <2>2. \A t \in Sess: Stays(t, f) /\ StaysSeen(t, f)
      BY <1>1, <2>1 DEF Stays, StaysSeen
    <2> QED BY <1>1, <2>2, SameRow
  <1>2. ASSUME NEW j \in Seekers, NEW l \in listings, RequestRead(s, j, l)
        PROVE  Untouched(f)
    <2> DEFINE r == [Idle EXCEPT !.op = "request", !.seeker = j, !.listing = l]
    <2>1. Becomes(s, r) /\ fac' = fac /\ books' = books
      BY <1>2 DEF RequestRead, rowVars
    <2>2. ~MaySettle(r, f) /\ ~Honours(r, f) BY DEF MaySettle, Honours, Idle
    <2> QED BY <1>1, <2>1, <2>2
  <1>3. ASSUME NEW g \in Fac, ApproveRead(s, g) PROVE Untouched(f)
    <2> DEFINE r == [Idle EXCEPT !.op = "approve", !.f = g, !.seen = fac[g]]
    <2>1. Becomes(s, r) /\ fac' = fac /\ books' = books
      BY <1>3 DEF ApproveRead, rowVars
    <2>2. f # g BY <1>3, <2>1 DEF ApproveRead, Settled
    <2>3. ~MaySettle(r, f) /\ ~Honours(r, f) BY <2>2 DEF MaySettle, Honours, Idle
    <2> QED BY <1>1, <2>1, <2>3
  <1>4. ASSUME NEW g \in Fac, DeclineRead(s, g) PROVE Untouched(f)
    <2> DEFINE r == [Idle EXCEPT !.op = "decline", !.f = g, !.seen = fac[g]]
    <2>1. Becomes(s, r) /\ fac' = fac /\ books' = books
      BY <1>4 DEF DeclineRead, rowVars
    <2>2. f # g BY <1>4, <2>1 DEF DeclineRead, Settled
    <2>3. ~MaySettle(r, f) /\ ~Honours(r, f) BY <2>2 DEF MaySettle, Honours, Idle
    <2> QED BY <1>1, <2>1, <2>3
  <1>5. ASSUME NEW g \in Fac, ConfirmRead(s, g) PROVE Untouched(f)
    <2> DEFINE r == [Idle EXCEPT !.op = "confirm", !.f = g, !.seen = fac[g]]
    <2>1. Becomes(s, r) /\ fac' = fac /\ books' = books /\ fac[g].status = "approved"
      BY <1>5 DEF ConfirmRead, rowVars
    <2>2. ~MaySettle(r, f) /\ (Honours(r, f) => g = f) BY DEF MaySettle, Honours, Idle
    <2>3. Stands(g) BY <2>1 DEF Stands, Honoured
    <2> QED BY <1>1, <2>1, <2>2, <2>3
  <1>6. ASSUME NEW g \in Fac, NEW e \in Events, WebhookRead(s, g, e) PROVE Untouched(f)
    <2> DEFINE r == [Idle EXCEPT !.op = "webhook", !.f = g, !.seen = fac[g], !.ev = e]
    <2>1. Becomes(s, r) /\ fac' = fac /\ books' = books /\ <<fac[g].relay, e>> \in queue
      BY <1>6 DEF WebhookRead, rowVars
    <2>2. ~MaySettle(r, f) /\ (Honours(r, f) => g = f) BY DEF MaySettle, Honours, Idle
    <2>3. fac[g].relay # 0 BY <1>0, <2>1 DEF IInv, PostedOK, TypeOK
    <2>4. Stands(g) BY <2>3 DEF Stands, Honoured
    <2> QED BY <1>1, <2>1, <2>2, <2>4
  <1>7. ASSUME OptOutRead(s) PROVE Untouched(f)
    <2> DEFINE r == [Idle EXCEPT !.op = "optout", !.live = listings,
                         !.rows = {g \in Fac: fac[g].status = "requested"}]
    <2>1. Becomes(s, r) /\ fac' = fac /\ books' = books
      BY <1>7 DEF OptOutRead, rowVars
    <2>2. fac[f].status # "requested" BY <2>1 DEF Settled
    <2>3. ~MaySettle(r, f) /\ ~Honours(r, f) BY <2>2 DEF MaySettle, Honours, Idle
    <2> QED BY <1>1, <2>1, <2>3
  <1>8. ASSUME NEW op \in {"upload", "optin"}, RegenerateRead(s, op) PROVE Untouched(f)
    <2> DEFINE r == [Idle EXCEPT !.op = op, !.live = listings, !.who = Contacts \ purged]
    <2>1. Becomes(s, r) /\ fac' = fac /\ books' = books
      BY <1>8 DEF RegenerateRead, rowVars
    <2>2. ~MaySettle(r, f) /\ ~Honours(r, f) BY DEF MaySettle, Honours, Idle
    <2> QED BY <1>1, <2>1, <2>2
  <1>9. ASSUME NEW g \in Fac, RevokeToken(s, g) PROVE Untouched(f)
    <2>1. books' = books /\ sess' = sess /\ fac' = [fac EXCEPT ![g].token = 0]
      BY <1>9 DEF RevokeToken
    <2>2. /\ fac'[f].status = fac[f].status /\ fac'[f].relay = fac[f].relay
          /\ fac'[f].awarded = fac[f].awarded
      BY <1>0, <2>1 DEF TypeOK, FacRow
    <2> QED BY <2>1, <2>2 DEF Untouched, SameAnswers, Stays, StaysSeen
  <1>10. ASSUME NEW c \in Contacts, Purge(s, c) PROVE Untouched(f) \/ Purged(f)
    <2>1. /\ books' = books /\ sess' = sess /\ sess[s].op = "idle"
          /\ fac' = [g \in Fac |-> IF g \in PurgedRows(c)
                                   THEN [fac[g] EXCEPT !.status = "expired"] ELSE fac[g]]
      BY <1>10 DEF Purge, Starts
    <2>2. CASE f \in PurgedRows(c)
      <3>1. ~Settled(f) BY <2>2 DEF PurgedRows, Settled
      <3>2. /\ fac'[f].status = "expired" /\ fac'[f].relay = fac[f].relay
            /\ fac'[f].awarded = fac[f].awarded
        BY <1>0, <2>1, <2>2 DEF TypeOK, FacRow
      <3> QED BY <2>1, <3>1, <3>2 DEF Purged
    <2>3. CASE f \notin PurgedRows(c)
      <3>1. fac'[f] = fac[f] BY <2>1, <2>3
      <3> QED BY <2>1, <3>1, SameRow DEF Stays, StaysSeen
    <2> QED BY <2>2, <2>3
  <1> QED BY <1>2, <1>3, <1>4, <1>5, <1>6, <1>7, <1>8, <1>9, <1>10 DEF Arrive
\* The unit of work, column by column.
LEMMA MergeColumns ==
  ASSUME NEW db \in FacRow, NEW seen, NEW new
  PROVE  /\ Merge(db, seen, new).status = Written(db.status, seen.status, new.status)
         /\ Merge(db, seen, new).relay = Written(db.relay, seen.relay, new.relay)
         /\ Merge(db, seen, new).token = Written(db.token, seen.token, new.token)
         /\ Merge(db, seen, new).awarded = Written(db.awarded, seen.awarded, new.awarded)
  BY DEF Merge, FacRow

\* A commit of s that writes row g only.
LEMMA RowAnswers ==
  ASSUME IInv, NEW s \in Sess, Becomes(s, Idle), NEW g, NEW f \in Fac, f # g,
         NEW row, fac' = [fac EXCEPT ![g] = row],
         books' = [books EXCEPT ![g] = books'[g]] \/ books' = books
  PROVE  Untouched(f)
  <1>0. TypeOK /\ sess \in [Sess -> SessRec] BY DEF IInv, TypeOK
  <1>1. fac'[f] = fac[f] BY <1>0 DEF TypeOK
  <1>2. books'[f] = books[f] BY <1>0 DEF TypeOK
  <1>3. \A t \in Sess: sess'[t] = sess[t] \/ sess'[t] = Idle BY <1>0 DEF Becomes
  <1>4. \A t \in Sess: Stays(t, f) /\ StaysSeen(t, f)
    BY <1>3, IdleAnswer DEF Stays, StaysSeen
  <1> QED BY <1>1, <1>2, <1>4, SameRow

LEMMA ApproveAnswers ==
  ASSUME IInv, NEW s \in Sess, ApproveCommit(s), NEW f \in Fac
  PROVE  Untouched(f) \/ Answered(f)
  <1> DEFINE r == sess[s]
             new == Approved(r)
  <1>0. TypeOK /\ r \in SessRec /\ r.seen \in FacRow BY DEF IInv, TypeOK, SessRec
  <1>1. /\ r.op = "approve" /\ Becomes(s, Idle) /\ books' = books
        /\ fac' = [fac EXCEPT ![r.f] = Merge(@, r.seen, new)]
    BY DEF ApproveCommit, Doing
  <1>2. r.f \in Fac /\ r.seen.status = "requested"
    BY <1>1 DEF IInv, SessionsOK, SessionOK, RecordOK
  <1>3. new.status = "approved" BY <1>0 DEF Approved, FacRow
  <1>4. CASE f = r.f
    <2>1. fac[f] \in FacRow BY <1>0 DEF TypeOK
    <2>2. fac'[f] = Merge(fac[f], r.seen, new) BY <1>0, <1>1, <1>4 DEF TypeOK
    <2>3. fac'[f].status = Written(fac[f].status, r.seen.status, new.status)
      BY <2>1, <2>2, MergeColumns
    <2>4. fac'[f].status = "approved" BY <1>2, <1>3, <2>3 DEF Written
    <2>5. s \in Settlers(f) BY <1>1, <1>4 DEF Settlers, MaySettle
    <2>6. sess'[s] = Idle /\ Others(s) BY <1>0, <1>1, SessionUpdate
    <2> QED BY <1>1, <2>4, <2>5, <2>6 DEF Answered
  <1>5. CASE f # r.f
    <2> HIDE DEF r, new
    <2>1. fac' = [fac EXCEPT ![r.f] = Merge(fac[r.f], r.seen, new)] BY <1>1
    <2> QED BY <1>1, <1>5, <2>1, RowAnswers
  <1> QED BY <1>4, <1>5

LEMMA DeclineAnswers ==
  ASSUME IInv, NEW s \in Sess, DeclineCommit(s), NEW f \in Fac
  PROVE  Untouched(f) \/ Answered(f)
  <1> DEFINE r == sess[s]
             new == [r.seen EXCEPT !.status = "declined"]
  <1>0. TypeOK /\ r \in SessRec /\ r.seen \in FacRow BY DEF IInv, TypeOK, SessRec
  <1>1. /\ r.op = "decline" /\ Becomes(s, Idle)
        /\ books' = [books EXCEPT ![r.f].refunded = @ + 1]
        /\ fac' = [fac EXCEPT ![r.f] = Merge(@, r.seen, new)]
    BY DEF DeclineCommit, Doing
  <1>2. r.f \in Fac /\ r.seen.status = "requested"
    BY <1>1 DEF IInv, SessionsOK, SessionOK, RecordOK
  <1>3. /\ new.status = "declined" /\ new.relay = r.seen.relay
        /\ new.awarded = r.seen.awarded
    BY <1>0 DEF FacRow
  <1>4. CASE f = r.f
    <2>1. fac[f] \in FacRow BY <1>0 DEF TypeOK
    <2>2. fac'[f] = Merge(fac[f], r.seen, new) BY <1>0, <1>1, <1>4 DEF TypeOK
    <2> HIDE DEF new
    <2>3. /\ fac'[f].status = Written(fac[f].status, r.seen.status, new.status)
          /\ fac'[f].relay = Written(fac[f].relay, r.seen.relay, new.relay)
          /\ fac'[f].awarded = Written(fac[f].awarded, r.seen.awarded, new.awarded)
      BY <2>1, <2>2, MergeColumns
    <2>4. /\ fac'[f].status = "declined" /\ fac'[f].relay = fac[f].relay
          /\ fac'[f].awarded = fac[f].awarded
      BY <1>2, <1>3, <2>3 DEF Written
    <2>5. s \in Settlers(f) BY <1>1, <1>4 DEF Settlers, MaySettle
    <2>6. sess'[s] = Idle /\ Others(s) BY <1>0, <1>1, SessionUpdate
    <2>7. books'[f].refunded = books[f].refunded + 1 BY <1>0, <1>1, <1>4 DEF TypeOK
    <2> QED BY <2>4, <2>5, <2>6, <2>7 DEF Answered
  <1>5. CASE f # r.f
    <2>1. books' = [books EXCEPT ![r.f] = books'[r.f]] BY <1>0, <1>1, <1>2 DEF TypeOK
    <2> HIDE DEF r, new
    <2>2. fac' = [fac EXCEPT ![r.f] = Merge(fac[r.f], r.seen, new)] BY <1>1
    <2> QED BY <1>1, <1>5, <2>1, <2>2, RowAnswers
  <1> QED BY <1>4, <1>5

\* A confirmation and an event change no answer, and were counted when they read.
LEMMA PaysAnswers ==
  ASSUME IInv, NEW s \in Sess, Becomes(s, Idle), sess[s].op \in {"confirm", "webhook"},
         sess[s].f \in Fac, NEW seen, NEW new,
         fac' = [fac EXCEPT ![sess[s].f] = Merge(@, seen, new)],
         new.status = seen.status, new.relay = seen.relay,
         NEW amount, Award(sess[s].f, amount) \/ UNCHANGED <<books, earned>>,
         NEW f \in Fac
  PROVE  Untouched(f)
  <1> DEFINE g == sess[s].f
  <1>0. TypeOK /\ sess \in [Sess -> SessRec] BY DEF IInv, TypeOK
  <1>1. \/ books' = [books EXCEPT ![g].awarded = @ + 1] \/ books' = books
    BY DEF Award
  <1>2. CASE f = g
    <2>1. fac[f] \in FacRow BY <1>0 DEF TypeOK
    <2>2. fac'[f] = Merge(fac[f], seen, new) BY <1>0, <1>2 DEF TypeOK
    <2>3. /\ fac'[f].status = Written(fac[f].status, seen.status, new.status)
          /\ fac'[f].relay = Written(fac[f].relay, seen.relay, new.relay)
      BY <2>1, <2>2, MergeColumns
    <2>4. fac'[f].status = fac[f].status /\ fac'[f].relay = fac[f].relay
      BY <2>3 DEF Written
    <2>5. Stands(f) BY <1>2 DEF Stands, Honours
    <2>6. books'[f].refunded = books[f].refunded BY <1>0, <1>1 DEF TypeOK
    <2>7. \A t \in Sess: sess'[t] = sess[t] \/ sess'[t] = Idle BY <1>0 DEF Becomes
    <2>8. \A t \in Sess: Stays(t, f) /\ StaysSeen(t, f)
      BY <2>7, IdleAnswer DEF Stays, StaysSeen
    <2> QED BY <2>4, <2>5, <2>6, <2>8 DEF Untouched, SameAnswers
  <1>3. CASE f # g
    <2>1. books' = [books EXCEPT ![g] = books'[g]] \/ books' = books
      <3>1. CASE books' = [books EXCEPT ![g].awarded = @ + 1]
        <4>1. books'[g] = [books[g] EXCEPT !.awarded = @ + 1] BY <1>0, <3>1 DEF TypeOK
        <4> QED BY <3>1, <4>1
      <3> QED BY <1>1, <3>1
    <2> HIDE DEF g
    <2>2. fac' = [fac EXCEPT ![g] = Merge(fac[g], seen, new)] BY DEF g
    <2> QED BY <1>3, <2>1, <2>2, RowAnswers
  <1> QED BY <1>2, <1>3

LEMMA ConfirmAnswers ==
  ASSUME IInv, NEW s \in Sess, ConfirmCommit(s), NEW f \in Fac
  PROVE  Untouched(f)
  <1> DEFINE r == sess[s]
             new == ConfirmedRow(r)
  <1>0. r.seen \in FacRow BY DEF IInv, TypeOK, SessRec
  <1>1. /\ r.op = "confirm" /\ Becomes(s, Idle)
        /\ Award(r.f, DeliveryAward) \/ UNCHANGED <<books, earned>>
        /\ fac' = [fac EXCEPT ![r.f] = Merge(@, r.seen, new)]
    BY DEF ConfirmCommit, Doing, ConfirmedRow
  <1>2. r.f \in Fac BY <1>1 DEF IInv, SessionsOK, SessionOK, RecordOK
  <1>3. new.status = r.seen.status /\ new.relay = r.seen.relay
    BY <1>0 DEF FacRow, ConfirmedRow
  <1> HIDE DEF new
  <1> QED BY <1>1, <1>2, <1>3, PaysAnswers

LEMMA WebhookAnswers ==
  ASSUME IInv, NEW s \in Sess, WebhookCommit(s), NEW f \in Fac
  PROVE  Untouched(f)
  <1> DEFINE r == sess[s]
             new == HandledRow(r)
  <1>0. r.seen \in FacRow BY DEF IInv, TypeOK, SessRec
  <1>1. /\ r.op = "webhook" /\ Becomes(s, Idle)
        /\ Award(r.f, AwardOf(r.ev)) \/ UNCHANGED <<books, earned>>
        /\ fac' = [fac EXCEPT ![r.f] = Merge(@, r.seen, new)]
    BY DEF WebhookCommit, Doing, HandledRow
  <1>2. r.f \in Fac BY <1>1 DEF IInv, SessionsOK, SessionOK, RecordOK
  <1>3. new.status = r.seen.status /\ new.relay = r.seen.relay
    BY <1>0 DEF FacRow, HandledRow
  <1> HIDE DEF new
  <1> QED BY <1>1, <1>2, <1>3, PaysAnswers

LEMMA RequestAnswers ==
  ASSUME IInv, NEW s \in Sess, NEW g \in Fac, RequestCommit(s, g), NEW f \in Fac,
         Settled(f)'
  PROVE  Untouched(f)
  <1>0. TypeOK BY DEF IInv
  <1> DEFINE row == [Unborn EXCEPT !.status = "requested", !.seeker = sess[s].seeker,
                                   !.listing = sess[s].listing]
  <1>1. /\ Becomes(s, Idle) /\ fac' = [fac EXCEPT ![g] = row]
        /\ books' = [books EXCEPT ![g].charged = @ + 1]
    BY DEF RequestCommit
  <1>2. row.status = "requested" BY DEF Unborn
  <1>3. f # g BY <1>0, <1>1, <1>2 DEF TypeOK, Settled
  <1>4. books' = [books EXCEPT ![g] = books'[g]] BY <1>0, <1>1 DEF TypeOK
  <1> HIDE DEF row
  <1> QED BY <1>1, <1>3, <1>4, RowAnswers

LEMMA OptOutAnswers ==
  ASSUME IInv, NEW s \in Sess, OptOutCommit(s), NEW f \in Fac
  PROVE  Untouched(f) \/ Answered(f)
  <1>0. TypeOK /\ sess \in [Sess -> SessRec] BY DEF IInv, TypeOK
  <1>1. /\ sess[s].op = "optout" /\ Becomes(s, Idle) /\ books' = books
        /\ fac' = [g \in Fac |-> IF g \in sess[s].rows
                                 THEN [fac[g] EXCEPT !.status = "expired"] ELSE fac[g]]
    BY DEF OptOutCommit, Doing
  <1>2. sess'[s] = Idle /\ Others(s) BY <1>0, <1>1, SessionUpdate
  <1>3. CASE f \in sess[s].rows
    <2>1. /\ fac'[f].status = "expired" /\ fac'[f].relay = fac[f].relay
          /\ fac'[f].awarded = fac[f].awarded
      BY <1>0, <1>1, <1>3 DEF TypeOK, FacRow
    <2>2. s \in Settlers(f) BY <1>1, <1>3 DEF Settlers, MaySettle
    <2> QED BY <1>1, <1>2, <2>1, <2>2 DEF Answered
  <1>4. CASE f \notin sess[s].rows
    <2>1. fac'[f] = fac[f] BY <1>1, <1>4
    <2>2. \A t \in Sess: sess'[t] = sess[t] \/ sess'[t] = Idle BY <1>2 DEF Others
    <2>3. \A t \in Sess: Stays(t, f) /\ StaysSeen(t, f)
      BY <2>2, IdleAnswer DEF Stays, StaysSeen
    <2> QED BY <1>1, <2>1, <2>3, SameRow
  <1> QED BY <1>3, <1>4

\* The other steps write no row and no books, and only end sessions or let them go on.
LEMMA WorkAnswers ==
  ASSUME IInv, NEW s \in Sess, NEW f \in Fac,
         \/ ApproveLock(s) \/ RelaySkip(s) \/ RelaySend(s) \/ RelayRecord(s)
         \/ RelayRecordFails(s) \/ RegenerateCommit(s) \/ Abort(s)
  PROVE  Untouched(f)
  <1>0. TypeOK /\ sess \in [Sess -> SessRec] BY DEF IInv, TypeOK
  <1>1. fac' = fac /\ books' = books
    BY DEF ApproveLock, RelaySkip, RelaySend, RelayRecord, RelayRecordFails,
           RegenerateCommit, Abort, rowVars
  <1>2. ASSUME NEW r, Becomes(s, r),
               r = Idle \/ (r.op = sess[s].op /\ r.f = sess[s].f /\ r.rows = sess[s].rows)
        PROVE  Untouched(f)
    <2>1. sess'[s] = r /\ \A t \in Sess \ {s}: sess'[t] = sess[t]
      BY <1>0, <1>2 DEF Becomes
    <2>2. \A t \in Sess: Stays(t, f) /\ StaysSeen(t, f)
      BY <1>2, <2>1, IdleAnswer DEF Stays, StaysSeen, MaySettle, Honours
    <2> QED BY <1>1, <2>2, SameRow
  <1>3. sess[s] \in SessRec BY <1>0
  <1>4. CASE ApproveLock(s) BY <1>2, <1>3, <1>4 DEF ApproveLock, SessRec
  <1>5. CASE RelaySkip(s) BY <1>2, <1>3, <1>5 DEF RelaySkip, SessRec
  <1>6. CASE RelaySend(s) BY <1>2, <1>3, <1>6 DEF RelaySend, SessRec
  <1>7. CASE RelayRecord(s) BY <1>2, <1>3, <1>7 DEF RelayRecord, SessRec
  <1>8. CASE RelayRecordFails(s) \/ RegenerateCommit(s) \/ Abort(s)
    BY <1>2, <1>8 DEF RelayRecordFails, RegenerateCommit, Abort
  <1> QED BY <1>4, <1>5, <1>6, <1>7, <1>8

LEMMA StepAnswers ==
  ASSUME IInv, [Next]_vars, NEW f \in Fac, Settled(f)'
  PROVE  Untouched(f) \/ Answered(f) \/ Purged(f)
  <1>1. CASE UNCHANGED <<fac, books, sess>>
    BY <1>1, SameRow DEF Stays, StaysSeen
  <1>2. ASSUME NEW s \in Sess, Arrive(s) PROVE Untouched(f) \/ Purged(f)
    BY <1>2, ArriveAnswers
  <1>3. ASSUME NEW s \in Sess, Progress(s) PROVE Untouched(f) \/ Answered(f)
    BY <1>3, RequestAnswers, ApproveAnswers, DeclineAnswers, ConfirmAnswers,
       WebhookAnswers, OptOutAnswers, WorkAnswers DEF Progress
  <1>4. ASSUME NEW s \in Sess, Abort(s) PROVE Untouched(f) BY <1>4, WorkAnswers
  <1>5. CASE NextDay BY <1>1, <1>5 DEF NextDay
  <1>6. CASE \E n \in 1..attempts, e \in Events:
                \/ ResendIssues(n, e) \/ ResendRepeats(n, e)
                \/ \E s \in Sess: WebhookUnmatched(s, n, e)
    BY <1>1, <1>6 DEF ResendIssues, ResendRepeats, WebhookUnmatched, rowVars
  <1>7. CASE UNCHANGED vars BY <1>1, <1>7 DEF vars, rowVars
  <1> QED BY <1>2, <1>3, <1>4, <1>5, <1>6, <1>7 DEF Next

\* The count of answers, and of the sessions that may still give one.
LEMMA AnswersStep ==
  ASSUME IInv, NEW f \in Fac, AnswersOK(f), [Next]_vars
  PROVE  AnswersOK(f)'
  <1> DEFINE n == Answers(f)
             m == Answers(f)'
             X == Settlers(f)
             Y == Settlers(f)'
             b == Cardinality(Sess)
  <1>1. X \in SUBSET Sess /\ Y \in SUBSET Sess BY DEF Settlers
  <1>0. IInv' /\ TypeOK /\ TypeOK' BY Inductive DEF IInv
  <1>2. n \in Nat /\ m \in Nat
    <2>1. books[f].refunded \in Nat /\ books'[f].refunded \in Nat BY <1>0 DEF TypeOK
    <2> QED BY <2>1 DEF Answers
  <1>3. Y = {s \in Sess: MaySettle(sess'[s], f)} BY DEF Settlers
  <1>4. Room(n, m, X, Y, b)
    <2>1. CASE ~Settled(f)'
      <3>1. m = 0 BY <1>0, <2>1, PendingUnansweredNext
      <3> QED BY <1>1, <3>1, SessSet DEF Room
    <2>2. CASE Settled(f)' /\ Untouched(f)
      <3>1. Y \subseteq X BY <1>3, <2>2 DEF Untouched, Stays, Settlers
      <3>2. Stands(f)' => Stands(f)
        <4>1. Honoured(f)' => Stands(f)
          BY <2>2 DEF Untouched, SameAnswers, Honoured, Stands
        <4>2. ASSUME NEW s \in Sess, Honours(sess'[s], f) PROVE Stands(f)
          BY <2>2, <4>2 DEF Untouched, StaysSeen, Stands
        <4> QED BY <4>1, <4>2 DEF Stands
      <3>3. m <= n
        <4>1. books'[f].refunded = books[f].refunded /\ books[f].refunded \in Nat
          BY <1>0, <2>2 DEF Untouched, SameAnswers, TypeOK
        <4>2. fac'[f].status = "expired" => fac[f].status = "expired"
          BY <2>2 DEF Untouched, SameAnswers
        <4> QED BY <3>2, <4>1, <4>2 DEF Answers
      <3> QED BY <1>2, <3>1, <3>3 DEF Room
    <2>3. CASE Answered(f)
      <3>1. PICK s \in X: sess'[s] = Idle /\ Others(s) BY <2>3 DEF Answered
      <3>2. Y \subseteq X \ {s} BY <1>3, <3>1, IdleAnswer DEF Others, Settlers
      <3>3. (\E t \in Sess: Honours(sess'[t], f)) => Stands(f)
        BY <1>1, <3>1, IdleAnswer DEF Others, Stands
      <3>4. books[f].refunded \in Nat BY <1>0 DEF TypeOK
      <3>5. m <= n + 1
        <4>1. CASE fac'[f].status = "approved"
          BY <2>3, <3>4, <4>1 DEF Answered, Answers
        <4>2. CASE /\ fac'[f].relay = fac[f].relay /\ fac'[f].awarded = fac[f].awarded
                   /\ fac'[f].status \in {"declined", "expired"}
          <5>1. Stands(f)' => Stands(f) BY <3>3, <4>2 DEF Stands, Honoured
          <5> QED BY <2>3, <3>4, <4>2, <5>1 DEF Answered, Answers
        <4> QED BY <2>3, <4>1, <4>2 DEF Answered
      <3> HIDE DEF n, m, X, Y, b
      <3> QED BY <1>2, <3>1, <3>2, <3>5 DEF Room
    <2>4. CASE Purged(f)
      <3>1. n = 0 BY <2>4, PendingUnanswered DEF Purged
      <3>2. books[f].refunded = 0 /\ ~Stands(f) /\ books'[f].refunded = books[f].refunded
        <4>1. books[f].refunded \in Nat BY <1>0 DEF TypeOK
        <4> QED BY <2>4, <3>1, <4>1 DEF Answers, Purged
      <3>3. ~Stands(f)'
        <4>1. ~Honoured(f)' BY <2>4, <3>2 DEF Stands, Honoured, Purged
        <4>2. \A s \in Sess: ~Honours(sess'[s], f) BY <2>4, <3>2 DEF Stands, Purged
        <4> QED BY <4>1, <4>2 DEF Stands
      <3>4. m = 1 BY <2>4, <3>2, <3>3 DEF Answers, Purged
      <3>5. Y # Sess BY <1>3, <2>4 DEF Purged, MaySettle
      <3> QED BY <1>1, <3>4, <3>5, SessSet DEF Room
    <2> QED BY <2>1, <2>2, <2>3, <2>4, StepAnswers
  <1>5. n + Cardinality(X) <= b BY DEF AnswersOK
  <1>6. b \in Int BY SessSet
  <1> HIDE DEF n, m, X, Y, b
  <1>7. m + Cardinality(Y) <= b BY <1>1, <1>2, <1>4, <1>5, <1>6, StaysBounded
  <1> QED BY <1>7 DEF m, Y, b, AnswersOK
-----------------------------------------------------------------------------
\* The invariant is inductive.

LEMMA BoundsInitial == Init => BoundsInv
  <1> SUFFICES ASSUME Init PROVE BoundsInv OBVIOUS
  <1>1. \A s \in Sess: sess[s] = Idle BY DEF Init
  <1>2. Cardinality({}) = 0 /\ IsFiniteSet({}) BY FS_EmptySet
  <1>3. Cardinality(Sess) \in Nat /\ Cardinality(Sess) >= 1 BY SessSet
  <1>4. \A f \in Fac: Settlers(f) = {} /\ Payers(f) = {}
    BY <1>1, IdleTask, IdleAnswer DEF Settlers, Payers
  <1>b. \A f \in Fac: books[f].refunded = 0 /\ books[f].awarded = 0 BY DEF Init
  <1>5. ASSUME NEW f \in Fac PROVE AnswersOK(f) /\ AwardsOK(f)
    <2>1. Settlers(f) = {} /\ Payers(f) = {} BY <1>4
    <2>2. ~Settled(f) BY DEF Init, Unborn, Settled
    <2>3. Answers(f) = 0 BY <2>2, Initial, PendingUnanswered
    <2> QED BY <1>2, <1>3, <1>b, <2>1, <2>3 DEF AnswersOK, AwardsOK
  <1>6. Approvers = {} /\ Confirmers = {} BY <1>1, IdleTask DEF Approvers, Confirmers
  <1>7. ApprovalsOK /\ ConfirmsOK
    BY <1>2, <1>3, <1>6, BoundsAssumption DEF Init, ApprovalsOK, ConfirmsOK, Rivals
  <1>8. ASSUME NEW j \in Seekers PROVE RequestsOK(j)
    <2>1. Requesters(j) = {} BY <1>1, IdleTask DEF Requesters
    <2> QED BY <1>2, <1>3, <2>1, BoundsAssumption DEF Init, RequestsOK, Rivals
  <1>9. ASSUME NEW j, NEW l PROVE PendingOK(j, l)
    <2>1. Askers(j, l) = {} BY <1>1, IdleTask DEF Askers
    <2>2. Pending(j, l) = {} BY DEF Init, Pending, Unborn
    <2> QED BY <1>2, <1>3, <2>1, <2>2 DEF PendingOK
  <1> QED BY <1>5, <1>7, <1>8, <1>9 DEF BoundsInv

LEMMA BoundsStep == IInv /\ BoundsInv /\ [Next]_vars => BoundsInv'
  <1> SUFFICES ASSUME IInv, BoundsInv, [Next]_vars PROVE BoundsInv' OBVIOUS
  <1>1. \A f \in Fac: AnswersOK(f)' /\ AwardsOK(f)'
    BY AnswersStep, AwardsStep DEF BoundsInv
  <1>2. ApprovalsOK' /\ ConfirmsOK' BY ApprovalsStep, ConfirmsStep DEF BoundsInv
  <1>3. \A j \in Seekers: RequestsOK(j)' BY RequestsStep DEF BoundsInv
  <1>4. \A j \in Seekers \cup {None}, l \in Listing \cup {None}: PendingOK(j, l)'
    BY PendingStep DEF BoundsInv
  <1> QED BY <1>1, <1>2, <1>3, <1>4 DEF BoundsInv

LEMMA BoundsInvariance == Spec => [](IInv /\ BoundsInv)
  <1>1. IInv /\ BoundsInv /\ [Next]_vars => IInv' /\ BoundsInv' BY Inductive, BoundsStep
  <1>2. Init => IInv /\ BoundsInv BY Initial, BoundsInitial
  <1> QED BY <1>1, <1>2, PTL DEF Spec

\* update_facilitation, confirm_manual_send and the webhook read the row before they
\* lock it, and an opt-out before it expires it: an intro is refunded, approved or expired
\* in all at most once per session, and awarded at most once per session.
THEOREM SettlementsSound == Spec => []SettlementsBounded
  <1>1. IInv /\ BoundsInv => SettlementsBounded
    <2> SUFFICES ASSUME IInv, BoundsInv, NEW f \in Fac
                 PROVE  /\ books[f].refunded + (IF Honoured(f) THEN 1 ELSE 0)
                             + (IF fac[f].status = "expired" THEN 1 ELSE 0) <= 1 + Rivals
                        /\ books[f].awarded <= 1 + Rivals
      BY DEF SettlementsBounded
    <2>1. books[f].refunded \in Nat /\ books[f].awarded \in Nat BY DEF IInv, TypeOK
    <2>2. AnswersOK(f) /\ AwardsOK(f) BY DEF BoundsInv
    <2>3. Settlers(f) \in SUBSET Sess /\ Payers(f) \in SUBSET Sess
      BY DEF Settlers, Payers
    <2>4. /\ Cardinality(Settlers(f)) \in Nat /\ Cardinality(Payers(f)) \in Nat
          /\ Cardinality(Sess) \in Nat
      BY <2>3, SessSet
    <2>5. Answers(f) <= 1 + Rivals /\ books[f].awarded <= 1 + Rivals
      <3>1. Answers(f) \in Nat BY <2>1 DEF Answers
      <3> QED BY <2>1, <2>2, <2>4, <3>1 DEF AnswersOK, AwardsOK, Rivals
    <2>6. Honoured(f) => Stands(f) BY DEF Stands
    <2>7. Rivals \in Int BY <2>4 DEF Rivals
    <2> QED BY <2>1, <2>5, <2>6, <2>7 DEF Answers
  <1> QED BY <1>1, BoundsInvariance, PTL

\* The rate limits and the duplicate check count committed rows: they are overrun by at
\* most the other sessions.
THEOREM LimitsSound == Spec => []LimitsBounded
  <1>1. IInv /\ BoundsInv => LimitsBounded
    <2> SUFFICES ASSUME IInv, BoundsInv PROVE LimitsBounded OBVIOUS
    <2>1. /\ usage.approve \in Nat /\ usage.confirm \in Nat
          /\ usage.request \in [Seekers -> Nat] /\ fac \in [Fac -> FacRow]
      BY DEF IInv, TypeOK
    <2>2. \A X \in SUBSET Sess: Cardinality(X) \in Nat BY SessSet
    <2>3. Cardinality(Sess) \in Nat BY SessSet
    <2>4. usage.approve <= ApproveLimit + Rivals /\ usage.confirm <= ConfirmLimit + Rivals
      <3>1. ApprovalsOK /\ ConfirmsOK BY DEF BoundsInv
      <3>2. Approvers \in SUBSET Sess /\ Confirmers \in SUBSET Sess
        BY DEF Approvers, Confirmers
      <3>3. Cardinality(Approvers) \in Nat /\ Cardinality(Confirmers) \in Nat
        BY <2>2, <3>2
      <3> QED BY <2>1, <2>3, <3>1, <3>3, BoundsAssumption
           DEF ApprovalsOK, ConfirmsOK, Rivals
    <2>5. ASSUME NEW j \in Seekers PROVE usage.request[j] <= RequestLimit + Rivals
      <3>1. RequestsOK(j) BY DEF BoundsInv
      <3>2. Requesters(j) \in SUBSET Sess BY DEF Requesters
      <3>3. Cardinality(Requesters(j)) \in Nat BY <2>2, <3>2
      <3> QED BY <2>1, <2>3, <3>1, <3>3, BoundsAssumption DEF RequestsOK, Rivals
    <2>6. ASSUME NEW f \in Fac
          PROVE  Cardinality({g \in Fac: /\ fac[g].status = "requested"
                                         /\ fac[g].seeker = fac[f].seeker
                                         /\ fac[g].listing = fac[f].listing}) <= 1 + Rivals
      <3> DEFINE j == fac[f].seeker
                 l == fac[f].listing
      <3>1. j \in Seekers \cup {None} /\ l \in Listing \cup {None}
        BY <2>1 DEF FacRow
      <3>2. PendingOK(j, l) BY <3>1 DEF BoundsInv
      <3>3. Askers(j, l) \in SUBSET Sess BY DEF Askers
      <3>4. Cardinality(Askers(j, l)) \in Nat /\ Cardinality(Pending(j, l)) \in Nat
        BY <2>2, <3>2, <3>3, FS_CardinalityType DEF PendingOK
      <3> HIDE DEF j, l
      <3>5. Cardinality(Pending(j, l)) <= 1 + Rivals
        BY <2>3, <3>2, <3>4 DEF PendingOK, Rivals
      <3> QED BY <3>5 DEF Pending, j, l
    <2> QED BY <2>4, <2>5, <2>6 DEF LimitsBounded
  <1> QED BY <1>1, BoundsInvariance, PTL
-----------------------------------------------------------------------------
\* Credit on delivery.

\* An answered delivery is credited, or known to be lost.
CreditOK(n) ==
    <<n, "delivered">> \in posted \ queue =>
        n \in unpaid \/ \E f \in Fac: fac[f].relay = n /\ fac[f].awarded

\* What a session that handles an event read of the row still holds.
HandlerOK(r) ==
    r.op = "webhook" => /\ r.f \in Fac /\ r.seen.relay # 0
                        /\ fac[r.f].relay = r.seen.relay
                        /\ r.seen.awarded => fac[r.f].awarded

\* The inductive invariant.
CreditInv ==
    /\ \A n \in Nat \ {0}: CreditOK(n)
    /\ \A s \in Sess: HandlerOK(sess[s])

\* What a session does once it has read.
LEMMA ReadOps ==
  ASSUME sess \in [Sess -> SessRec], NEW s \in Sess
  PROVE  /\ \A j, l: RequestRead(s, j, l) => sess'[s].op = "request"
         /\ \A f: ApproveRead(s, f) => sess'[s].op = "approve"
         /\ \A f: DeclineRead(s, f) => sess'[s].op = "decline"
         /\ \A f: ConfirmRead(s, f) => sess'[s].op = "confirm"
         /\ \A f, e: WebhookRead(s, f, e) => sess'[s].op = "webhook"
         /\ OptOutRead(s) => sess'[s].op = "optout"
         /\ \A op: RegenerateRead(s, op) => sess'[s].op = op
  <1>1. ASSUME NEW rec, Becomes(s, rec) PROVE sess'[s] = rec BY <1>1 DEF Becomes
  <1>2. ASSUME NEW j, NEW l, RequestRead(s, j, l) PROVE sess'[s].op = "request"
    <2> DEFINE rec == [Idle EXCEPT !.op = "request", !.seeker = j, !.listing = l]
    <2>1. Becomes(s, rec) BY <1>2 DEF RequestRead
    <2>2. rec.op = "request" BY DEF Idle
    <2> HIDE DEF rec
    <2> QED BY <1>1, <2>1, <2>2
  <1>3. ASSUME NEW f, ApproveRead(s, f) PROVE sess'[s].op = "approve"
    <2> DEFINE rec == [Idle EXCEPT !.op = "approve", !.f = f, !.seen = fac[f]]
    <2>1. Becomes(s, rec) BY <1>3 DEF ApproveRead
    <2>2. rec.op = "approve" BY DEF Idle
    <2> HIDE DEF rec
    <2> QED BY <1>1, <2>1, <2>2
  <1>4. ASSUME NEW f, DeclineRead(s, f) PROVE sess'[s].op = "decline"
    <2> DEFINE rec == [Idle EXCEPT !.op = "decline", !.f = f, !.seen = fac[f]]
    <2>1. Becomes(s, rec) BY <1>4 DEF DeclineRead
    <2>2. rec.op = "decline" BY DEF Idle
    <2> HIDE DEF rec
    <2> QED BY <1>1, <2>1, <2>2
  <1>5. ASSUME NEW f, ConfirmRead(s, f) PROVE sess'[s].op = "confirm"
    <2> DEFINE rec == [Idle EXCEPT !.op = "confirm", !.f = f, !.seen = fac[f]]
    <2>1. Becomes(s, rec) BY <1>5 DEF ConfirmRead
    <2>2. rec.op = "confirm" BY DEF Idle
    <2> HIDE DEF rec
    <2> QED BY <1>1, <2>1, <2>2
  <1>6. ASSUME NEW f, NEW e, WebhookRead(s, f, e) PROVE sess'[s].op = "webhook"
    <2> DEFINE rec == [Idle EXCEPT !.op = "webhook", !.f = f, !.seen = fac[f], !.ev = e]
    <2>1. Becomes(s, rec) BY <1>6 DEF WebhookRead
    <2>2. rec.op = "webhook" BY DEF Idle
    <2> HIDE DEF rec
    <2> QED BY <1>1, <2>1, <2>2
  <1>7. ASSUME OptOutRead(s) PROVE sess'[s].op = "optout"
    <2> DEFINE rec == [Idle EXCEPT !.op = "optout", !.live = listings,
                                   !.rows = {f \in Fac: fac[f].status = "requested"}]
    <2>1. Becomes(s, rec) BY <1>7 DEF OptOutRead
    <2>2. rec.op = "optout" BY DEF Idle
    <2> HIDE DEF rec
    <2> QED BY <1>1, <2>1, <2>2
  <1>8. ASSUME NEW op, RegenerateRead(s, op) PROVE sess'[s].op = op
    <2> DEFINE rec == [Idle EXCEPT !.op = op, !.live = listings, !.who = Contacts \ purged]
    <2>1. Becomes(s, rec) BY <1>8 DEF RegenerateRead
    <2>2. rec.op = op BY DEF Idle
    <2> HIDE DEF rec
    <2> QED BY <1>1, <2>1, <2>2
  <1> QED BY <1>2, <1>3, <1>4, <1>5, <1>6, <1>7, <1>8

\* The steps of an approval before its commit leave it an approval.
LEMMA ApproveGoesOn ==
  ASSUME sess \in [Sess -> SessRec], NEW s \in Sess,
         ApproveLock(s) \/ RelaySkip(s) \/ RelaySend(s) \/ RelayRecord(s)
  PROVE  sess'[s].op = "approve" /\ \A t \in Sess \ {s}: sess'[t] = sess[t]
  <1>1. sess[s] \in SessRec /\ sess[s].op = "approve"
    BY DEF ApproveLock, RelaySkip, RelaySend, RelayRecord, Doing
  <1>2. ASSUME NEW rec, Becomes(s, rec), rec.op = "approve"
        PROVE  sess'[s].op = "approve" /\ \A t \in Sess \ {s}: sess'[t] = sess[t]
    BY <1>2 DEF Becomes
  <1>3. CASE ApproveLock(s)
    <2> DEFINE at == IF ContactOf(sess[s].seen) \in EmailContacts THEN "locked" ELSE "ready"
               rec == [sess[s] EXCEPT !.attempt = attempts + 1, !.at = at, !.rep = intros]
    <2>1. Becomes(s, rec) BY <1>3 DEF ApproveLock
    <2>2. rec.op = "approve" BY <1>1 DEF SessRec
    <2> HIDE DEF rec
    <2> QED BY <1>2, <2>1, <2>2
  <1>4. CASE RelaySkip(s)
    <2> DEFINE rec == [sess[s] EXCEPT !.at = "ready", !.rep = intros]
    <2>1. Becomes(s, rec) BY <1>4 DEF RelaySkip
    <2>2. rec.op = "approve" BY <1>1 DEF SessRec
    <2> HIDE DEF rec
    <2> QED BY <1>2, <2>1, <2>2
  <1>5. CASE RelaySend(s)
    <2> DEFINE out == [sess[s] EXCEPT !.at = "sent", !.msg = sess[s].attempt]
               refused == [sess[s] EXCEPT !.at = "sent"]
    <2>1. Becomes(s, out) \/ Becomes(s, refused) BY <1>5 DEF RelaySend
    <2>2. out.op = "approve" /\ refused.op = "approve" BY <1>1 DEF SessRec
    <2> HIDE DEF out, refused
    <2> QED BY <1>2, <2>1, <2>2
  <1>6. CASE RelayRecord(s)
    <2> DEFINE rec == [sess[s] EXCEPT !.at = "ready", !.logs = TRUE, !.on = day,
                                      !.rep = intros]
    <2>1. Becomes(s, rec) BY <1>6 DEF RelayRecord
    <2>2. rec.op = "approve" BY <1>1 DEF SessRec
    <2> HIDE DEF rec
    <2> QED BY <1>2, <2>1, <2>2
  <1> QED BY <1>3, <1>4, <1>5, <1>6

\* A credited intro stays so, and only an answer takes an event out of the queue.
LEMMA CreditKept ==
  ASSUME Kept, NEW n \in Nat \ {0}, CreditOK(n), unpaid \subseteq unpaid',
         <<n, "delivered">> \in posted' \ queue' => <<n, "delivered">> \in posted \ queue
  PROVE  CreditOK(n)'
  <1> SUFFICES ASSUME <<n, "delivered">> \in posted' \ queue', n \notin unpaid'
               PROVE  \E f \in Fac: fac'[f].relay = n /\ fac'[f].awarded
    BY DEF CreditOK
  <1>1. PICK f \in Fac: fac[f].relay = n /\ fac[f].awarded BY DEF CreditOK
  <1> QED BY <1>1 DEF Kept

\* A handled delivery credits its intro, or found it credited, or the cap refuses it.
LEMMA CreditHandled ==
  ASSUME IInv, Kept, CreditInv, NEW s \in Sess, WebhookCommit(s), NEW n \in Nat \ {0}
  PROVE  CreditOK(n)'
  <1> DEFINE r == sess[s]
             new == HandledRow(r)
             e == <<r.seen.relay, r.ev>>
  <1>0. TypeOK /\ r \in SessRec /\ r.seen \in FacRow BY DEF IInv, TypeOK, SessRec
  <1>1. /\ r.op = "webhook" /\ posted' = posted /\ queue' = queue \ {e}
        /\ fac' = [fac EXCEPT ![r.f] = Merge(@, r.seen, new)]
        /\ unpaid' = unpaid \cup (IF /\ r.ev = "delivered"
                                     /\ Pays(r) /\ ~AwardFits(AwardOf(r.ev))
                                  THEN {r.seen.relay} ELSE {})
    BY DEF WebhookCommit, Doing, HandledRow
  <1>2. CASE <<n, "delivered">> # e
    <2>1. CreditOK(n) BY DEF CreditInv
    <2>2. <<n, "delivered">> \in posted' \ queue' => <<n, "delivered">> \in posted \ queue
      BY <1>1, <1>2
    <2>3. unpaid \subseteq unpaid' BY <1>1
    <2> QED BY <2>1, <2>2, <2>3, CreditKept
  <1>3. CASE <<n, "delivered">> = e
    <2>1. r.seen.relay = n /\ r.ev = "delivered" BY <1>3
    <2>2. /\ r.f \in Fac /\ fac[r.f].relay = n /\ n # 0
          /\ r.seen.awarded => fac[r.f].awarded
      BY <1>1, <2>1 DEF CreditInv, HandlerOK
    <2>3. fac'[r.f].relay = n BY <2>2 DEF Kept
    <2>4. CASE fac[r.f].awarded
      <3>1. fac'[r.f].awarded BY <2>2, <2>4 DEF Kept
      <3> QED BY <2>2, <2>3, <3>1 DEF CreditOK
    <2>5. CASE ~fac[r.f].awarded
      <3>1. ~r.seen.awarded /\ Pays(r) BY <2>1, <2>2, <2>5 DEF Pays
      <3>2. CASE AwardFits(AwardOf(r.ev))
        <4>1. new.awarded = TRUE
          <5>1. new.awarded = (r.seen.awarded \/ (Pays(r) /\ AwardFits(AwardOf(r.ev))))
            BY <1>0 DEF HandledRow, FacRow
          <5> QED BY <3>1, <3>2, <5>1, Zenon
        <4>2. fac[r.f] \in FacRow BY <1>0, <2>2 DEF TypeOK
        <4> HIDE DEF new
        <4>3. fac'[r.f] = Merge(fac[r.f], r.seen, new) BY <1>0, <1>1, <2>2 DEF TypeOK
        <4>4. fac'[r.f].awarded = Written(fac[r.f].awarded, r.seen.awarded, new.awarded)
          BY <4>2, <4>3, MergeColumns
        <4>5. new.awarded # r.seen.awarded BY <3>1, <4>1, Zenon
        <4>6. fac'[r.f].awarded = TRUE BY <4>1, <4>4, <4>5, Zenon DEF Written
        <4> QED BY <2>2, <2>3, <4>6 DEF CreditOK
      <3>3. CASE ~AwardFits(AwardOf(r.ev))
        <4>1. n \in unpaid' BY <1>1, <2>1, <3>1, <3>3
        <4> QED BY <4>1 DEF CreditOK
      <3> QED BY <3>2, <3>3
    <2> QED BY <2>4, <2>5
  <1> QED BY <1>2, <1>3

\* What a session handling an event read of the row is never undone.
LEMMA HandlersKept ==
  ASSUME IInv, Kept, CreditInv, NEW t \in Sess,
         sess'[t] = sess[t] \/ sess'[t].op # "webhook"
  PROVE  HandlerOK(sess[t])'
  BY DEF CreditInv, HandlerOK, Kept

LEMMA CreditStep ==
  ASSUME IInv, CreditInv, [Next]_vars
  PROVE  CreditInv'
  <1>0. TypeOK /\ Kept /\ sess \in [Sess -> SessRec] BY Inductive DEF IInv, TypeOK
  <1>1. ASSUME UNCHANGED eventVars PROVE \A n \in Nat \ {0}: CreditOK(n)'
    BY <1>0, <1>1, CreditKept DEF CreditInv, eventVars
  <1>2. ASSUME NEW s \in Sess, NEW r, Becomes(s, r), r.op # "webhook"
        PROVE  \A t \in Sess: HandlerOK(sess[t])'
    <2>1. \A t \in Sess: sess'[t] = sess[t] \/ sess'[t].op # "webhook"
      BY <1>0, <1>2 DEF Becomes
    <2> QED BY <1>0, <2>1, HandlersKept
  <1>3. ASSUME UNCHANGED sess PROVE \A t \in Sess: HandlerOK(sess[t])'
    BY <1>0, <1>3, HandlersKept
  <1>4. ASSUME NEW s \in Sess, NEW f \in Fac, NEW e \in Events, WebhookRead(s, f, e)
        PROVE  CreditInv'
    <2> DEFINE r == [Idle EXCEPT !.op = "webhook", !.f = f, !.seen = fac[f], !.ev = e]
    <2>1. /\ Becomes(s, r) /\ UNCHANGED eventVars /\ fac' = fac
          /\ <<fac[f].relay, e>> \in queue
      BY <1>4 DEF WebhookRead, rowVars
    <2>2. fac[f].relay # 0 BY <1>0, <2>1 DEF IInv, PostedOK, TypeOK
    <2>3. r.op = "webhook" /\ r.f = f /\ r.seen = fac[f] BY DEF Idle
    <2> HIDE DEF r
    <2>4. sess'[s] = r /\ \A t \in Sess \ {s}: sess'[t] = sess[t]
      BY <1>0, <2>1 DEF Becomes
    <2>5. HandlerOK(sess[s])' BY <2>1, <2>2, <2>3, <2>4 DEF HandlerOK
    <2>6. \A t \in Sess \ {s}: HandlerOK(sess[t])' BY <1>0, <2>4, HandlersKept
    <2> QED BY <1>1, <2>1, <2>5, <2>6 DEF CreditInv
  <1>5. ASSUME NEW s \in Sess, WebhookCommit(s) PROVE CreditInv'
    <2>1. \A n \in Nat \ {0}: CreditOK(n)' BY <1>0, <1>5, CreditHandled
    <2>2. Becomes(s, Idle) BY <1>5 DEF WebhookCommit
    <2> QED BY <1>2, <2>1, <2>2, IdleTask DEF CreditInv
  <1>6. ASSUME NEW s \in Sess, Arrive(s),
               ~ \E f \in Fac, e \in Events: WebhookRead(s, f, e)
        PROVE  CreditInv'
    <2>1. UNCHANGED eventVars
      BY <1>6 DEF Arrive, RequestRead, ApproveRead, DeclineRead, ConfirmRead, RevokeToken,
                  OptOutRead, RegenerateRead, Purge
    <2>2. UNCHANGED sess \/ sess'[s].op # "webhook"
      <3>1. CASE \E f \in Fac: RevokeToken(s, f)
        BY <3>1 DEF RevokeToken
      <3>2. CASE \E c \in Contacts: Purge(s, c)
        BY <3>2 DEF Purge
      <3>3. CASE \E j \in Seekers, l \in listings: RequestRead(s, j, l)
        BY <1>0, <3>3, ReadOps
      <3>4. CASE \E f \in Fac: ApproveRead(s, f) \/ DeclineRead(s, f) \/ ConfirmRead(s, f)
        <4>1. sess'[s].op \in {"approve", "decline", "confirm"} BY <1>0, <3>4, ReadOps
        <4> QED BY <4>1
      <3>5. CASE OptOutRead(s) BY <1>0, <3>5, ReadOps
      <3>6. CASE \E op \in {"upload", "optin"}: RegenerateRead(s, op)
        <4>1. sess'[s].op \in {"upload", "optin"} BY <1>0, <3>6, ReadOps
        <4> QED BY <4>1
      <3> QED BY <1>6, <3>1, <3>2, <3>3, <3>4, <3>5, <3>6 DEF Arrive
    <2>3. \A t \in Sess: sess'[t] = sess[t] \/ sess'[t].op # "webhook"
      <3>1. UNCHANGED sess \/ \E r: Becomes(s, r)
        BY <1>6 DEF Arrive, RequestRead, ApproveRead, DeclineRead, ConfirmRead, RevokeToken,
                    OptOutRead, RegenerateRead, Purge
      <3> QED BY <1>0, <2>2, <3>1 DEF Becomes
    <2>4. \A t \in Sess: HandlerOK(sess[t])' BY <1>0, <2>3, HandlersKept
    <2> QED BY <1>1, <2>1, <2>4 DEF CreditInv
  <1>7. ASSUME NEW s \in Sess, Progress(s) \/ Abort(s), ~WebhookCommit(s)
        PROVE  CreditInv'
    <2>1. UNCHANGED eventVars
      BY <1>7 DEF Progress, Abort, RequestCommit, ApproveLock, RelaySkip, RelaySend,
                  RelayRecord, RelayRecordFails, ApproveCommit, DeclineCommit,
                  ConfirmCommit, OptOutCommit, RegenerateCommit
    <2>3. sess'[s].op # "webhook" /\ \A t \in Sess \ {s}: sess'[t] = sess[t]
      <3>1. CASE Becomes(s, Idle) BY <1>0, <3>1, IdleTask DEF Becomes
      <3>2. CASE ApproveLock(s) \/ RelaySkip(s) \/ RelaySend(s) \/ RelayRecord(s)
        BY <1>0, <3>2, ApproveGoesOn
      <3> QED BY <1>7, <3>1, <3>2
              DEF Progress, Abort, RequestCommit, RelayRecordFails, ApproveCommit,
                  DeclineCommit, ConfirmCommit, OptOutCommit, RegenerateCommit
    <2>4. \A t \in Sess: HandlerOK(sess[t])' BY <1>0, <2>3, HandlersKept
    <2> QED BY <1>1, <2>1, <2>4 DEF CreditInv
  <1>8. ASSUME NEW k \in 1..attempts, NEW e \in Events,
               \/ ResendIssues(k, e) \/ ResendRepeats(k, e)
               \/ \E s \in Sess: WebhookUnmatched(s, k, e)
        PROVE  CreditInv'
    <2>1. UNCHANGED sess BY <1>8 DEF ResendIssues, ResendRepeats, WebhookUnmatched
    <2>2. ASSUME NEW n \in Nat \ {0} PROVE CreditOK(n)'
      <3>1. CreditOK(n) BY DEF CreditInv
      <3>2. CASE ResendIssues(k, e) \/ ResendRepeats(k, e)
        BY <1>0, <3>1, <3>2, CreditKept DEF ResendIssues, ResendRepeats
      <3>3. ASSUME NEW s \in Sess, WebhookUnmatched(s, k, e) PROVE CreditOK(n)'
        <4>1. /\ posted' = posted /\ queue' = queue \ {<<k, e>>}
              /\ unpaid' = unpaid \cup (IF e = "delivered" THEN {k} ELSE {})
          BY <3>3 DEF WebhookUnmatched
        <4>2. CASE <<n, "delivered">> = <<k, e>> BY <4>1, <4>2 DEF CreditOK
        <4>3. CASE <<n, "delivered">> # <<k, e>>
          <5>1. /\ unpaid \subseteq unpaid'
                /\ <<n, "delivered">> \in posted' \ queue'
                      => <<n, "delivered">> \in posted \ queue
            BY <4>1, <4>3
          <5> QED BY <1>0, <3>1, <5>1, CreditKept
        <4> QED BY <4>2, <4>3
      <3> QED BY <1>8, <3>2, <3>3
    <2> QED BY <1>3, <2>1, <2>2 DEF CreditInv
  <1>9. CASE NextDay BY <1>1, <1>3, <1>9 DEF NextDay, CreditInv
  <1>10. CASE UNCHANGED vars BY <1>1, <1>3, <1>10 DEF vars, CreditInv
  <1> QED BY <1>4, <1>5, <1>6, <1>7, <1>8, <1>9, <1>10 DEF Next

LEMMA CreditInvariance == Spec => [](IInv /\ CreditInv)
  <1>1. Init => CreditInv BY IdleTask DEF Init, CreditInv, CreditOK, HandlerOK
  <1>2. IInv /\ CreditInv /\ [Next]_vars => IInv' /\ CreditInv' BY Inductive, CreditStep
  <1> QED BY <1>1, <1>2, Initial, PTL DEF Spec

\* However sessions race, Resend repeats and reorders, and whatever the daily cap: a
\* delivery whose event was answered is credited, unless no row carried the message id
\* when it came, or the cap refused the award.
THEOREM DeliveriesCredited == Spec => []CreditOnDelivery
  <1>1. IInv /\ CreditInv => CreditOnDelivery
    BY DEF IInv, TypeOK, CreditInv, CreditOK, CreditOnDelivery
  <1> QED BY <1>1, CreditInvariance, PTL
-----------------------------------------------------------------------------
\* Listings: whatever part of them the sessions of T are about to delete, what is left
\* and the listings these sessions will add are bounded together.

Within(L, K, cov, b) ==
    \A T \in SUBSET K:
        Cardinality(L \ UNION {cov[s]: s \in T}) + Cardinality(T) <= b

\* What a bound needs to know of its parts.
Counted(L, K) == IsFiniteSet(L) /\ K \in SUBSET Sess

LEMMA CountParts ==
  ASSUME NEW L, NEW K, Counted(L, K), NEW T \in SUBSET K, NEW C
  PROVE  /\ Cardinality(L \ C) \in Nat /\ Cardinality(T) \in Nat
         /\ IsFiniteSet(T) /\ IsFiniteSet(L \ C) /\ Cardinality(Sess) \in Nat
         /\ Cardinality(T) <= Cardinality(Sess)
  <1>1. T \in SUBSET Sess BY DEF Counted
  <1>2. IsFiniteSet(L \ C) BY FS_Subset DEF Counted
  <1> QED BY <1>1, <1>2, SessSet, FS_CardinalityType

\* Nothing is added, and no session comes in.
LEMMA WithinShrinks ==
  ASSUME NEW L, NEW M \in SUBSET L, NEW K, NEW J \in SUBSET K, NEW cov, NEW dov, NEW b \in Int,
         Counted(L, K), Within(L, K, cov, b), \A s \in J: dov[s] = cov[s]
  PROVE  Within(M, J, dov, b)
  <1> SUFFICES ASSUME NEW T \in SUBSET J
               PROVE  Cardinality(M \ UNION {dov[s]: s \in T}) + Cardinality(T) <= b
    BY DEF Within
  <1> DEFINE C == UNION {cov[s]: s \in T}
             D == UNION {dov[s]: s \in T}
  <1>1. C = D
    <2>1. \A s \in T: dov[s] = cov[s] OBVIOUS
    <2> QED BY <2>1
  <1>2. T \in SUBSET K OBVIOUS
  <1>3. Cardinality(L \ C) + Cardinality(T) <= b BY <1>2 DEF Within
  <1>4. M \ D \subseteq L \ C BY <1>1
  <1>5. /\ Cardinality(L \ C) \in Nat /\ Cardinality(T) \in Nat /\ IsFiniteSet(L \ C)
    BY <1>2, CountParts
  <1>6. IsFiniteSet(M \ D) /\ Cardinality(M \ D) <= Cardinality(L \ C)
    BY <1>4, <1>5, FS_Subset
  <1>7. Cardinality(M \ D) \in Nat BY <1>6, FS_CardinalityType
  <1> HIDE DEF C, D
  <1>8. Cardinality(M \ D) + Cardinality(T) <= b BY <1>3, <1>5, <1>6, <1>7
  <1> QED BY <1>8 DEF D

LEMMA OneMore ==
  ASSUME NEW S, NEW x, IsFiniteSet(S), Cardinality(S) \in Nat
  PROVE  IsFiniteSet(S \cup {x}) /\ Cardinality(S \cup {x}) <= Cardinality(S) + 1
  BY FS_AddElement

\* A session deletes what it saw, adds one listing and leaves.
Replaced(L, M, seen, x) == M \subseteq (L \ seen) \cup {x}

LEMMA WithinReplaced ==
  ASSUME NEW L, NEW s, NEW K, s \in K, NEW J \in SUBSET (K \ {s}),
         NEW cov, NEW dov, NEW x, NEW M, Replaced(L, M, cov[s], x), NEW b \in Int,
         Counted(L, K), Within(L, K, cov, b), \A t \in J: dov[t] = cov[t]
  PROVE  Within(M, J, dov, b)
  <1> SUFFICES ASSUME NEW T \in SUBSET J
               PROVE  Cardinality(M \ UNION {dov[t]: t \in T}) + Cardinality(T) <= b
    BY DEF Within
  <1> DEFINE U == T \cup {s}
             C == UNION {cov[t]: t \in U}
             D == UNION {dov[t]: t \in T}
  <1>1. U \in SUBSET K OBVIOUS
  <1>2. Cardinality(L \ C) + Cardinality(U) <= b BY <1>1 DEF Within
  <1>3. M \ D \subseteq (L \ C) \cup {x}
    <2>1. \A t \in T: dov[t] = cov[t] OBVIOUS
    <2>2. C \subseteq D \cup cov[s] BY <2>1
    <2> QED BY <2>2 DEF Replaced
  <1>4. Cardinality(L \ C) \in Nat /\ IsFiniteSet(L \ C) BY <1>1, CountParts
  <1>5. IsFiniteSet(T) /\ Cardinality(T) \in Nat
    <2>1. T \in SUBSET K OBVIOUS
    <2> QED BY <2>1, CountParts
  <1>6. Cardinality(U) = Cardinality(T) + 1
    <2>1. s \notin T OBVIOUS
    <2> QED BY <1>5, <2>1, FS_AddElement
  <1>7. /\ IsFiniteSet((L \ C) \cup {x})
        /\ Cardinality((L \ C) \cup {x}) <= Cardinality(L \ C) + 1
    <2> HIDE DEF C
    <2> QED BY <1>4, OneMore, Zenon
  <1>8. IsFiniteSet(M \ D) /\ Cardinality(M \ D) <= Cardinality((L \ C) \cup {x})
    BY <1>3, <1>7, FS_Subset
  <1>9. Cardinality(M \ D) \in Nat /\ Cardinality((L \ C) \cup {x}) \in Nat
    BY <1>7, <1>8, FS_CardinalityType
  <1> HIDE DEF U, C, D
  <1>10. Cardinality(M \ D) + Cardinality(T) <= b
    BY <1>2, <1>4, <1>5, <1>6, <1>7, <1>8, <1>9
  <1> QED BY <1>10 DEF D

\* A session deletes what it saw, adds nothing and leaves.
LEMMA WithinDeleted ==
  ASSUME NEW L, NEW s, NEW K, s \in K, NEW J \in SUBSET (K \ {s}),
         NEW cov, NEW dov, NEW M \in SUBSET (L \ cov[s]), NEW b \in Int,
         Counted(L, K), Within(L, K, cov, b), \A t \in J: dov[t] = cov[t]
  PROVE  Within(M, J, dov, b - 1)
  <1> SUFFICES ASSUME NEW T \in SUBSET J
               PROVE  Cardinality(M \ UNION {dov[t]: t \in T}) + Cardinality(T) <= b - 1
    BY DEF Within
  <1> DEFINE U == T \cup {s}
             C == UNION {cov[t]: t \in U}
             D == UNION {dov[t]: t \in T}
  <1>1. U \in SUBSET K OBVIOUS
  <1>2. Cardinality(L \ C) + Cardinality(U) <= b BY <1>1 DEF Within
  <1>3. M \ D \subseteq L \ C
    <2>1. \A t \in T: dov[t] = cov[t] OBVIOUS
    <2>2. C \subseteq D \cup cov[s] BY <2>1
    <2> QED BY <2>2
  <1>4. Cardinality(L \ C) \in Nat /\ IsFiniteSet(L \ C) BY <1>1, CountParts
  <1>5. IsFiniteSet(T) /\ Cardinality(T) \in Nat
    <2>1. T \in SUBSET K OBVIOUS
    <2> QED BY <2>1, CountParts
  <1>6. Cardinality(U) = Cardinality(T) + 1
    <2>1. s \notin T OBVIOUS
    <2> QED BY <1>5, <2>1, FS_AddElement
  <1>7. IsFiniteSet(M \ D) /\ Cardinality(M \ D) <= Cardinality(L \ C)
    BY <1>3, <1>4, FS_Subset
  <1>8. Cardinality(M \ D) \in Nat BY <1>7, FS_CardinalityType
  <1> HIDE DEF U, C, D
  <1>9. Cardinality(M \ D) + Cardinality(T) <= b - 1
    BY <1>2, <1>4, <1>5, <1>6, <1>7, <1>8
  <1> QED BY <1>9 DEF D

\* A session comes in, and is about to delete all there is.
LEMMA WithinJoined ==
  ASSUME NEW L, NEW s \in Sess, NEW K, NEW J \in SUBSET (K \cup {s}),
         NEW cov, NEW dov, L \subseteq dov[s],
         Counted(L, K), Within(L, K, cov, Cardinality(Sess)),
         \A t \in J \ {s}: dov[t] = cov[t]
  PROVE  Within(L, J, dov, Cardinality(Sess))
  <1> SUFFICES ASSUME NEW T \in SUBSET J
               PROVE  Cardinality(L \ UNION {dov[t]: t \in T}) + Cardinality(T)
                        <= Cardinality(Sess)
    BY DEF Within
  <1>1. CASE s \in T
    <2>1. L \ UNION {dov[t]: t \in T} = {} BY <1>1
    <2>2. T \in SUBSET Sess BY DEF Counted
    <2> QED BY <2>1, <2>2, SessSet, FS_EmptySet
  <1>2. CASE s \notin T
    <2>1. T \in SUBSET K BY <1>2
    <2>2. Cardinality(L \ UNION {cov[t]: t \in T}) + Cardinality(T) <= Cardinality(Sess)
      BY <2>1 DEF Within
    <2>3. \A t \in T: dov[t] = cov[t] BY <1>2
    <2>4. UNION {cov[t]: t \in T} = UNION {dov[t]: t \in T} BY <2>3
    <2> QED BY <2>2, <2>4
  <1> QED BY <1>1, <1>2

\* Nothing is listed, and some session is not about to add.
LEMMA WithinEmpty ==
  ASSUME NEW s \in Sess, NEW J \in SUBSET (Sess \ {s}), NEW dov
  PROVE  Within({}, J, dov, Rivals)
  <1> SUFFICES ASSUME NEW T \in SUBSET J
               PROVE  Cardinality({} \ UNION {dov[t]: t \in T}) + Cardinality(T) <= Rivals
    BY DEF Within
  <1>1. {} \ UNION {dov[t]: t \in T} = {} OBVIOUS
  <1>2. /\ IsFiniteSet(Sess \ {s}) /\ Cardinality(Sess \ {s}) = Cardinality(Sess) - 1
    BY BoundsAssumption, FS_RemoveElement
  <1>3. Cardinality(T) <= Cardinality(Sess \ {s}) BY <1>2, FS_Subset
  <1>4. Cardinality(T) \in Nat /\ Cardinality(Sess) \in Nat
    <2>1. T \in SUBSET Sess OBVIOUS
    <2> QED BY <2>1, SessSet
  <1> QED BY <1>1, <1>2, <1>3, <1>4, FS_EmptySet DEF Rivals

\* The bound is about what is listed.
LEMMA WithinBounds ==
  ASSUME NEW L, NEW K, NEW cov, NEW b \in Int, Counted(L, K), Within(L, K, cov, b)
  PROVE  Cardinality(L) <= b
  <1>1. {} \in SUBSET K OBVIOUS
  <1>2. L \ UNION {cov[s]: s \in {}} = L OBVIOUS
  <1>3. Cardinality(L \ UNION {cov[s]: s \in {}}) + Cardinality({}) <= b
    BY <1>1 DEF Within
  <1>4. Cardinality(L) \in Nat BY FS_CardinalityType DEF Counted
  <1> QED BY <1>2, <1>3, <1>4, FS_EmptySet
-----------------------------------------------------------------------------
\* The sessions that are about to write listings, those of them that do not restore the
\* consent, and those that list a contact again.
Listers == {s \in Sess: sess[s].op \in {"upload", "optin", "optout"}}
Uploaders == {s \in Sess: sess[s].op = "upload"}
Relisters(c) == {s \in Sess: sess[s].op \in {"upload", "optin"} /\ c \in sess[s].who}
Seen == [s \in Sess |-> sess[s].live]

ListedOK(c) ==
    /\ Within(Live(c), Listers, Seen, Cardinality(Sess))
    /\ ~optedIn => Within(Live(c), Uploaders, Seen, Rivals)
    /\ c \in purged => Within(Live(c), Relisters(c), Seen, Rivals)

\* The inductive invariant.
ListsInv == \A c \in Contacts: ListedOK(c)

LEMMA LiveFinite ==
  TypeOK => \A c \in Contacts: IsFiniteSet(Live(c))
  <1> SUFFICES ASSUME TypeOK, NEW c \in Contacts PROVE IsFiniteSet(Live(c))
    OBVIOUS
  <1> DEFINE G == 1..MaxGens
             I == {<<c, g>>: g \in G}
  <1>1. IsFiniteSet(G)
    <2>1. MaxGens \in Int /\ 1 \in Int BY IntroAssumption
    <2> QED BY <2>1, FS_Interval
  <1>2. IsFiniteSet(I)
    <2> DEFINE m == [g \in G |-> <<c, g>>]
    <2>1. m \in Surjection(G, I) BY DEF Surjection
    <2> HIDE DEF G, I, m
    <2> QED BY <1>1, <2>1, FS_Surjection
  <1>3. Live(c) \subseteq I BY DEF TypeOK, Listing, Live
  <1> QED BY <1>2, <1>3, FS_Subset

LEMMA ListsCounted ==
  ASSUME TypeOK, NEW c \in Contacts
  PROVE  /\ Counted(Live(c), Listers) /\ Counted(Live(c), Uploaders)
         /\ Counted(Live(c), Relisters(c))
         /\ Cardinality(Sess) \in Int /\ Rivals \in Int
  <1>1. IsFiniteSet(Live(c)) BY LiveFinite
  <1>2. Cardinality(Sess) \in Nat BY SessSet
  <1> QED BY <1>1, <1>2 DEF Counted, Listers, Uploaders, Relisters, Rivals

\* No listing is added, and no session comes in that would write one.
ListsQuiet ==
    /\ listings' \subseteq listings /\ optedIn' = optedIn /\ purged' = purged
    /\ \A t \in Sess: sess'[t] = sess[t] \/ sess'[t].op \notin {"upload", "optin", "optout"}

LEMMA QuietLists ==
  ASSUME TypeOK, ListsInv, ListsQuiet
  PROVE  ListsInv'
  <1> SUFFICES ASSUME NEW c \in Contacts PROVE ListedOK(c)'
    BY DEF ListsInv
  <1>1. ListedOK(c) BY DEF ListsInv
  <1>2. Live(c)' \in SUBSET Live(c) BY DEF ListsQuiet, Live
  <1>3. /\ Listers' \in SUBSET Listers /\ Uploaders' \in SUBSET Uploaders
        /\ Relisters(c)' \in SUBSET Relisters(c)
    BY DEF ListsQuiet, Listers, Uploaders, Relisters
  <1>4. \A t \in Listers': Seen'[t] = Seen[t] BY DEF ListsQuiet, Listers, Seen
  <1>5. Uploaders' \subseteq Listers' /\ Relisters(c)' \subseteq Listers'
    BY DEF Listers, Uploaders, Relisters
  <1>6. Within(Live(c)', Listers', Seen', Cardinality(Sess))
    BY <1>1, <1>2, <1>3, <1>4, ListsCounted, WithinShrinks DEF ListedOK
  <1>7. ASSUME ~optedIn' PROVE Within(Live(c)', Uploaders', Seen', Rivals)
    <2>1. Within(Live(c), Uploaders, Seen, Rivals) BY <1>1, <1>7 DEF ListedOK, ListsQuiet
    <2> QED BY <1>2, <1>3, <1>4, <1>5, <2>1, ListsCounted, WithinShrinks
  <1>8. ASSUME c \in purged' PROVE Within(Live(c)', Relisters(c)', Seen', Rivals)
    <2>1. Within(Live(c), Relisters(c), Seen, Rivals) BY <1>1, <1>8 DEF ListedOK, ListsQuiet
    <2> QED BY <1>2, <1>3, <1>4, <1>5, <2>1, ListsCounted, WithinShrinks
  <1> QED BY <1>6, <1>7, <1>8 DEF ListedOK

\* A regeneration, or an opt-out, reads what is listed.
LEMMA ReadLists ==
  ASSUME TypeOK, ListsInv, NEW s \in Sess, sess[s].op = "idle",
         OptOutRead(s) \/ \E op \in {"upload", "optin"}: RegenerateRead(s, op)
  PROVE  ListsInv'
  <1> SUFFICES ASSUME NEW c \in Contacts PROVE ListedOK(c)'
    BY DEF ListsInv
  <1>0. sess \in [Sess -> SessRec] BY DEF TypeOK
  <1>1. ListedOK(c) BY DEF ListsInv
  <1>2. /\ listings' = listings /\ optedIn' = optedIn /\ purged' = purged
        /\ \A t \in Sess \ {s}: sess'[t] = sess[t]
        /\ sess'[s].live = listings
        /\ \/ sess'[s].op = "optout" /\ optedIn
           \/ /\ sess'[s].op = (IF optedIn THEN "upload" ELSE "optin")
              /\ sess'[s].who = Contacts \ purged
    <2>1. CASE OptOutRead(s)
      <3>1. Becomes(s, [Idle EXCEPT !.op = "optout", !.live = listings,
                            !.rows = {f \in Fac: fac[f].status = "requested"}])
        BY <2>1 DEF OptOutRead
      <3>2. sess'[s].op = "optout" /\ sess'[s].live = listings
            /\ \A t \in Sess \ {s}: sess'[t] = sess[t]
        BY <1>0, <3>1 DEF Becomes, Idle
      <3> QED BY <2>1, <3>2 DEF OptOutRead, listVars
    <2>2. ASSUME NEW op \in {"upload", "optin"}, RegenerateRead(s, op)
          PROVE  /\ listings' = listings /\ optedIn' = optedIn /\ purged' = purged
                 /\ \A t \in Sess \ {s}: sess'[t] = sess[t]
                 /\ sess'[s].live = listings
                 /\ sess'[s].op = (IF optedIn THEN "upload" ELSE "optin")
                 /\ sess'[s].who = Contacts \ purged
      <3>1. Becomes(s, [Idle EXCEPT !.op = op, !.live = listings,
                            !.who = Contacts \ purged])
        BY <2>2 DEF RegenerateRead
      <3>2. /\ sess'[s].op = op /\ sess'[s].live = listings
            /\ sess'[s].who = Contacts \ purged
            /\ \A t \in Sess \ {s}: sess'[t] = sess[t]
        BY <1>0, <3>1 DEF Becomes, Idle
      <3> QED BY <2>2, <3>2 DEF RegenerateRead, listVars
    <2> QED BY <2>1, <2>2
  <1>3. Live(c)' = Live(c) /\ Live(c) \subseteq Seen'[s] BY <1>2 DEF Live, Seen
  <1>4. Listers' \in SUBSET (Listers \cup {s}) BY <1>2 DEF Listers
  <1>5. \A t \in Sess \ {s}: Seen'[t] = Seen[t] BY <1>2 DEF Seen
  <1>6. Within(Live(c)', Listers', Seen', Cardinality(Sess))
    <2>1. \A t \in Listers' \ {s}: Seen'[t] = Seen[t] BY <1>5 DEF Listers
    <2> QED BY <1>1, <1>3, <1>4, <2>1, ListsCounted, WithinJoined DEF ListedOK
  <1>7. ASSUME ~optedIn' PROVE Within(Live(c)', Uploaders', Seen', Rivals)
    <2>1. Within(Live(c), Uploaders, Seen, Rivals) BY <1>1, <1>2, <1>7 DEF ListedOK
    <2>2. Uploaders' \in SUBSET Uploaders /\ s \notin Uploaders'
      BY <1>2, <1>7 DEF Uploaders
    <2>3. \A t \in Uploaders': Seen'[t] = Seen[t] BY <1>5, <2>2 DEF Uploaders
    <2> QED BY <1>3, <2>1, <2>2, <2>3, ListsCounted, WithinShrinks
  <1>8. ASSUME c \in purged' PROVE Within(Live(c)', Relisters(c)', Seen', Rivals)
    <2>1. Within(Live(c), Relisters(c), Seen, Rivals) BY <1>1, <1>2, <1>8 DEF ListedOK
    <2>2. Relisters(c)' \in SUBSET Relisters(c) /\ s \notin Relisters(c)'
      BY <1>2, <1>8 DEF Relisters
    <2>3. \A t \in Relisters(c)': Seen'[t] = Seen[t] BY <1>5, <2>2 DEF Relisters
    <2> QED BY <1>3, <2>1, <2>2, <2>3, ListsCounted, WithinShrinks
  <1> QED BY <1>6, <1>7, <1>8 DEF ListedOK

\* A regeneration replaces the listings it saw by one per contact it read.
LEMMA RegenerateLists ==
  ASSUME TypeOK, ListsInv, NEW s \in Sess, RegenerateCommit(s)
  PROVE  ListsInv'
  <1> SUFFICES ASSUME NEW c \in Contacts PROVE ListedOK(c)'
    BY DEF ListsInv
  <1>0. sess \in [Sess -> SessRec] BY DEF TypeOK
  <1>1. ListedOK(c) BY DEF ListsInv
  <1>2. /\ sess[s].op \in {"upload", "optin"} /\ purged' = purged
        /\ listings' = (listings \ sess[s].live)
                         \cup {<<d, gens[d] + 1>>: d \in sess[s].who}
        /\ optedIn' = (optedIn \/ sess[s].op = "optin")
        /\ sess'[s] = Idle /\ \A t \in Sess \ {s}: sess'[t] = sess[t]
    BY <1>0 DEF RegenerateCommit, Becomes
  <1> DEFINE x == <<c, gens[c] + 1>>
  <1>3. Replaced(Live(c), Live(c)', Seen[s], x) BY <1>2 DEF Live, Seen, Replaced
  <1>4. c \notin sess[s].who => Live(c)' \subseteq Live(c) BY <1>2 DEF Live
  <1>5. /\ Listers' \in SUBSET (Listers \ {s}) /\ Uploaders' \in SUBSET (Uploaders \ {s})
        /\ Relisters(c)' \in SUBSET (Relisters(c) \ {s}) /\ s \in Listers
    BY <1>2, IdleTask DEF Listers, Uploaders, Relisters
  <1>6. \A t \in Sess \ {s}: Seen'[t] = Seen[t] BY <1>2 DEF Seen
  <1>7. /\ \A t \in Listers': Seen'[t] = Seen[t]
        /\ \A t \in Uploaders': Seen'[t] = Seen[t]
        /\ \A t \in Relisters(c)': Seen'[t] = Seen[t]
    BY <1>5, <1>6 DEF Listers, Uploaders, Relisters
  <1> HIDE DEF x
  <1>8. Within(Live(c)', Listers', Seen', Cardinality(Sess))
    <2>1. Counted(Live(c), Listers) /\ Cardinality(Sess) \in Int BY ListsCounted
    <2>2. Within(Live(c), Listers, Seen, Cardinality(Sess)) BY <1>1 DEF ListedOK
    <2>3. s \in Listers /\ Listers' \in SUBSET (Listers \ {s}) BY <1>5
    <2>4. \A t \in Listers': Seen'[t] = Seen[t] BY <1>7
    <2> QED BY <1>3, <2>1, <2>2, <2>3, <2>4, WithinReplaced, Zenon
  <1>9. ASSUME ~optedIn' PROVE Within(Live(c)', Uploaders', Seen', Rivals)
    <2>1. ~optedIn /\ s \in Uploaders BY <1>2, <1>9, Zenon DEF Uploaders
    <2>2. Within(Live(c), Uploaders, Seen, Rivals) BY <1>1, <2>1 DEF ListedOK
    <2>3. Counted(Live(c), Uploaders) /\ Rivals \in Int BY ListsCounted
    <2>4. Uploaders' \in SUBSET (Uploaders \ {s}) BY <1>5
    <2>5. \A t \in Uploaders': Seen'[t] = Seen[t] BY <1>7
    <2> QED BY <1>3, <2>1, <2>2, <2>3, <2>4, <2>5, WithinReplaced, Zenon
  <1>10. ASSUME c \in purged' PROVE Within(Live(c)', Relisters(c)', Seen', Rivals)
    <2>1. Within(Live(c), Relisters(c), Seen, Rivals) BY <1>1, <1>2, <1>10 DEF ListedOK
    <2>2. CASE c \in sess[s].who
      <3>1. s \in Relisters(c) BY <1>2, <2>2 DEF Relisters
      <3>2. Counted(Live(c), Relisters(c)) /\ Rivals \in Int BY ListsCounted
      <3>3. Relisters(c)' \in SUBSET (Relisters(c) \ {s}) BY <1>5
      <3>4. \A t \in Relisters(c)': Seen'[t] = Seen[t] BY <1>7
      <3> QED BY <1>3, <2>1, <3>1, <3>2, <3>3, <3>4, WithinReplaced, Zenon
    <2>3. CASE c \notin sess[s].who
      <3>1. Relisters(c)' \in SUBSET Relisters(c) BY <1>5
      <3> QED BY <1>4, <1>7, <2>1, <2>3, <3>1, ListsCounted, WithinShrinks
    <2> QED BY <2>2, <2>3
  <1> QED BY <1>8, <1>9, <1>10 DEF ListedOK

\* An opt-out deletes the listings it saw, and leaves room for one less.
LEMMA OptOutLists ==
  ASSUME TypeOK, ListsInv, NEW s \in Sess, OptOutCommit(s)
  PROVE  ListsInv'
  <1> SUFFICES ASSUME NEW c \in Contacts PROVE ListedOK(c)'
    BY DEF ListsInv
  <1>0. sess \in [Sess -> SessRec] BY DEF TypeOK
  <1>1. ListedOK(c) BY DEF ListsInv
  <1>2. /\ sess[s].op = "optout" /\ purged' = purged /\ listings' = listings \ sess[s].live
        /\ sess'[s] = Idle /\ \A t \in Sess \ {s}: sess'[t] = sess[t]
    BY <1>0 DEF OptOutCommit, Doing, Becomes
  <1>3. Live(c)' \in SUBSET (Live(c) \ Seen[s]) /\ Live(c)' \in SUBSET Live(c)
    BY <1>2 DEF Live, Seen
  <1>4. /\ Listers' \in SUBSET Listers /\ Uploaders' \in SUBSET (Listers \ {s})
        /\ Relisters(c)' \in SUBSET Relisters(c) /\ s \in Listers
        /\ s \notin Listers' /\ s \notin Relisters(c)'
    BY <1>2, IdleTask DEF Listers, Uploaders, Relisters
  <1>5. \A t \in Sess \ {s}: Seen'[t] = Seen[t] BY <1>2 DEF Seen
  <1>6. /\ \A t \in Listers': Seen'[t] = Seen[t]
        /\ \A t \in Uploaders': Seen'[t] = Seen[t]
        /\ \A t \in Relisters(c)': Seen'[t] = Seen[t]
    BY <1>4, <1>5 DEF Listers, Uploaders, Relisters
  <1>7. Within(Live(c)', Listers', Seen', Cardinality(Sess))
    BY <1>1, <1>3, <1>4, <1>6, ListsCounted, WithinShrinks DEF ListedOK
  <1>8. Within(Live(c)', Uploaders', Seen', Rivals)
    <2>1. Within(Live(c)', Uploaders', Seen', Cardinality(Sess) - 1)
      BY <1>1, <1>3, <1>4, <1>6, ListsCounted, WithinDeleted DEF ListedOK
    <2> QED BY <2>1 DEF Rivals
  <1>9. ASSUME c \in purged' PROVE Within(Live(c)', Relisters(c)', Seen', Rivals)
    <2>1. Within(Live(c), Relisters(c), Seen, Rivals) BY <1>1, <1>2, <1>9 DEF ListedOK
    <2> QED BY <1>3, <1>4, <1>6, <2>1, ListsCounted, WithinShrinks
  <1> QED BY <1>7, <1>8, <1>9 DEF ListedOK

\* A purge unlists its contact; the session that purges does not list it again.
LEMMA PurgeLists ==
  ASSUME TypeOK, ListsInv, NEW s \in Sess, NEW d \in Contacts, Purge(s, d)
  PROVE  ListsInv'
  <1> SUFFICES ASSUME NEW c \in Contacts PROVE ListedOK(c)'
    BY DEF ListsInv
  <1>1. ListedOK(c) BY DEF ListsInv
  <1>2. /\ sess[s].op = "idle" /\ purged' = purged \cup {d} /\ optedIn' = optedIn
        /\ listings' = {l \in listings: l[1] # d} /\ sess' = sess
    BY DEF Purge, Starts
  <1>3. Live(c)' \in SUBSET Live(c) /\ (c = d => Live(c)' = {}) BY <1>2 DEF Live
  <1>4. /\ Listers' = Listers /\ Uploaders' = Uploaders
        /\ Relisters(c)' = Relisters(c) /\ Seen' = Seen
        /\ Relisters(c) \in SUBSET (Sess \ {s})
    BY <1>2 DEF Listers, Uploaders, Relisters, Seen
  <1>5. Within(Live(c)', Listers', Seen', Cardinality(Sess))
    BY <1>1, <1>3, <1>4, ListsCounted, WithinShrinks DEF ListedOK
  <1>6. ASSUME ~optedIn' PROVE Within(Live(c)', Uploaders', Seen', Rivals)
    <2>1. Within(Live(c), Uploaders, Seen, Rivals) BY <1>1, <1>2, <1>6 DEF ListedOK
    <2> QED BY <1>3, <1>4, <2>1, ListsCounted, WithinShrinks
  <1>7. ASSUME c \in purged' PROVE Within(Live(c)', Relisters(c)', Seen', Rivals)
    <2>1. CASE c = d BY <1>3, <1>4, <2>1, WithinEmpty
    <2>2. CASE c # d
      <3>1. Within(Live(c), Relisters(c), Seen, Rivals)
        BY <1>1, <1>2, <1>7, <2>2 DEF ListedOK
      <3> QED BY <1>3, <1>4, <3>1, ListsCounted, WithinShrinks
    <2> QED BY <2>1, <2>2
  <1> QED BY <1>5, <1>6, <1>7 DEF ListedOK

LEMMA ListsStep ==
  ASSUME IInv, ListsInv, [Next]_vars
  PROVE  ListsInv'
  <1>0. TypeOK /\ sess \in [Sess -> SessRec] BY DEF IInv, TypeOK
  <1>1. CASE UNCHANGED <<listVars, sess>>
    BY <1>0, <1>1, QuietLists DEF listVars, ListsQuiet
  <1>2. ASSUME NEW s \in Sess, Arrive(s) PROVE ListsInv'
    <2>1. CASE OptOutRead(s) \/ \E op \in {"upload", "optin"}: RegenerateRead(s, op)
      BY <1>0, <2>1, ReadLists DEF OptOutRead, RegenerateRead, Starts
    <2>2. CASE \E c \in Contacts: Purge(s, c) BY <1>0, <2>2, PurgeLists
    <2>3. CASE \E f \in Fac: RevokeToken(s, f) BY <1>1, <2>3 DEF RevokeToken
    <2>4. CASE \/ \E j \in Seekers, l \in listings: RequestRead(s, j, l)
               \/ \E f \in Fac: ApproveRead(s, f) \/ DeclineRead(s, f) \/ ConfirmRead(s, f)
               \/ \E f \in Fac, e \in Events: WebhookRead(s, f, e)
      <3>1. UNCHANGED listVars
        BY <2>4 DEF RequestRead, ApproveRead, DeclineRead, ConfirmRead, WebhookRead
      <3>2. sess'[s].op \notin {"upload", "optin", "optout"}
        <4>1. sess'[s].op \in {"request", "approve", "decline", "confirm", "webhook"}
          BY <1>0, <2>4, ReadOps
        <4> QED BY <4>1
      <3>3. \A t \in Sess \ {s}: sess'[t] = sess[t]
        <4>1. \E r: Becomes(s, r)
          BY <2>4 DEF RequestRead, ApproveRead, DeclineRead, ConfirmRead, WebhookRead
        <4> QED BY <1>0, <4>1 DEF Becomes
      <3> QED BY <1>0, <3>1, <3>2, <3>3, QuietLists DEF listVars, ListsQuiet
    <2> QED BY <1>2, <2>1, <2>2, <2>3, <2>4 DEF Arrive
  <1>3. ASSUME NEW s \in Sess, Progress(s) \/ Abort(s) PROVE ListsInv'
    <2>1. CASE RegenerateCommit(s) BY <1>0, <2>1, RegenerateLists
    <2>2. CASE OptOutCommit(s) BY <1>0, <2>2, OptOutLists
    <2>3. CASE ~RegenerateCommit(s) /\ ~OptOutCommit(s)
      <3>1. UNCHANGED listVars
        BY <1>3, <2>3 DEF Progress, Abort, RequestCommit, ApproveLock, RelaySkip, RelaySend,
              RelayRecord, RelayRecordFails, ApproveCommit, DeclineCommit, ConfirmCommit,
              WebhookCommit
      <3>3. /\ sess'[s].op \notin {"upload", "optin", "optout"}
            /\ \A t \in Sess \ {s}: sess'[t] = sess[t]
        <4>1. CASE Becomes(s, Idle) BY <1>0, <4>1, IdleTask DEF Becomes
        <4>2. CASE ApproveLock(s) \/ RelaySkip(s) \/ RelaySend(s) \/ RelayRecord(s)
          BY <1>0, <4>2, ApproveGoesOn
        <4> QED BY <1>3, <2>3, <4>1, <4>2
                DEF Progress, Abort, RequestCommit, RelayRecordFails, ApproveCommit,
                    DeclineCommit, ConfirmCommit, WebhookCommit
      <3> QED BY <1>0, <3>1, <3>3, QuietLists DEF listVars, ListsQuiet
    <2> QED BY <2>1, <2>2, <2>3
  <1>4. CASE \E n \in 1..attempts, e \in Events:
                \/ ResendIssues(n, e) \/ ResendRepeats(n, e)
                \/ \E s \in Sess: WebhookUnmatched(s, n, e)
    BY <1>1, <1>4 DEF ResendIssues, ResendRepeats, WebhookUnmatched
  <1>5. CASE NextDay BY <1>1, <1>5 DEF NextDay
  <1>6. CASE UNCHANGED vars BY <1>1, <1>6 DEF vars
  <1> QED BY <1>2, <1>3, <1>4, <1>5, <1>6 DEF Next

LEMMA ListsInitial == Init => ListsInv
  <1> SUFFICES ASSUME Init, NEW c \in Contacts PROVE ListedOK(c)
    BY DEF ListsInv
  <1>1. Listers = {} /\ optedIn /\ c \notin purged BY IdleTask DEF Init, Listers
  <1>2. Live(c) = {<<c, 1>>} BY DEF Init, Live
  <1>3. Cardinality({<<c, 1>>}) = 1 /\ Cardinality({}) = 0
    BY FS_Singleton, FS_EmptySet
  <1>4. Cardinality(Sess) \in Nat /\ Cardinality(Sess) >= 1 BY SessSet
  <1>5. \A T \in SUBSET Listers: T = {} BY <1>1
  <1>6. Live(c) \ UNION {Seen[s]: s \in {}} = {<<c, 1>>} BY <1>2
  <1>7. Within(Live(c), Listers, Seen, Cardinality(Sess))
    <2> SUFFICES ASSUME NEW T \in SUBSET Listers
                 PROVE  Cardinality(Live(c) \ UNION {Seen[s]: s \in T}) + Cardinality(T)
                          <= Cardinality(Sess)
      BY DEF Within
    <2>1. T = {} BY <1>5
    <2> QED BY <1>3, <1>4, <1>6, <2>1
  <1> QED BY <1>1, <1>7 DEF ListedOK

LEMMA ListsInvariance == Spec => [](IInv /\ ListsInv)
  <1>1. IInv /\ ListsInv /\ [Next]_vars => IInv' /\ ListsInv' BY Inductive, ListsStep
  <1> QED BY <1>1, Initial, ListsInitial, PTL DEF Spec

\* generate_marketplace_listings deletes the listings it read: beside a rival it adds to
\* the rival's, and after an opt-out only a rival that had read the consent lists again.
THEOREM ConsentKept == Spec => []ListingsFollowConsent
  <1>1. IInv /\ ListsInv => ListingsFollowConsent
    <2> SUFFICES ASSUME IInv, ListsInv, NEW c \in Contacts
                 PROVE  Cardinality(Live(c)) <= IF optedIn THEN 1 + Rivals ELSE Rivals
      BY DEF ListingsFollowConsent
    <2>1. TypeOK /\ ListedOK(c) BY DEF IInv, ListsInv
    <2>2. Cardinality(Live(c)) <= Cardinality(Sess)
      BY <2>1, ListsCounted, WithinBounds DEF ListedOK
    <2>3. ~optedIn => Cardinality(Live(c)) <= Rivals
      BY <2>1, ListsCounted, WithinBounds DEF ListedOK
    <2>4. Cardinality(Sess) \in Int BY <2>1, ListsCounted
    <2> QED BY <2>2, <2>3, <2>4 DEF Rivals
  <1> QED BY <1>1, ListsInvariance, PTL

\* A suppressed contact is listed again only by regenerations that read it before the
\* purge, once each, and never where there is no rival.
THEOREM SuppressionKept == Spec => []ListingsFollowSuppression
  <1>1. IInv /\ ListsInv => ListingsFollowSuppression
    <2> SUFFICES ASSUME IInv, ListsInv, NEW c \in purged
                 PROVE  Cardinality(Live(c)) <= Rivals
      BY DEF ListingsFollowSuppression
    <2>1. TypeOK /\ c \in Contacts BY DEF IInv, TypeOK
    <2>2. ListedOK(c) BY <2>1 DEF ListsInv
    <2> QED BY <2>1, <2>2, ListsCounted, WithinBounds DEF ListedOK
  <1> QED BY <1>1, ListsInvariance, PTL
-----------------------------------------------------------------------------
\* One session at a time: what an approval has read is what is stored until it ends.

Alone(s) == \A t \in Sess: t = s
LinkOK(f) == fac[f].relay # 0 => fac[f].token \in {0, fac[f].relay}
SeesRow(r) == r.op = "approve" => fac[r.f] = r.seen

\* The inductive invariant.
LinkInv ==
    /\ \A f \in Fac: LinkOK(f)
    /\ \A s \in Sess: SeesRow(sess[s])

\* A step keeps the link of a row, or revokes it.
LinkKept(f) == fac'[f].relay = fac[f].relay /\ fac'[f].token \in {0, fac[f].token}

LEMMA OneSession ==
  ASSUME Cardinality(Sess) = 1
  PROVE  \A s \in Sess: Alone(s)
  <1>1. \E x: Sess = {x} BY BoundsAssumption, FS_Singleton
  <1> QED BY <1>1 DEF Alone

\* A session that ends, and keeps every link.
LEMMA LinksKept ==
  ASSUME LinkInv, \A f \in Fac: LinkKept(f),
         \A t \in Sess: sess'[t].op # "approve" \/ fac'[sess'[t].f] = sess'[t].seen
  PROVE  LinkInv'
  <1>1. \A f \in Fac: LinkOK(f)' BY DEF LinkInv, LinkOK, LinkKept
  <1> QED BY <1>1 DEF LinkInv, SeesRow

LEMMA LinksRead ==
  ASSUME TypeOK, LinkInv, fac' = fac, NEW s \in Sess, NEW r, Becomes(s, r),
         r.op = "approve" => fac[r.f] = r.seen
  PROVE  LinkInv'
  <1>1. \A t \in Sess: SeesRow(sess'[t]) BY DEF TypeOK, Becomes, LinkInv, SeesRow
  <1> QED BY <1>1 DEF LinkInv, LinkOK, SeesRow

\* A commit that writes neither the message id nor the token of its row.
LEMMA LinksMerged ==
  ASSUME IInv, LinkInv, NEW s \in Sess, Alone(s), Becomes(s, Idle), NEW g \in Fac,
         NEW seen, NEW new, new.relay = seen.relay, new.token = seen.token,
         fac' = [fac EXCEPT ![g] = Merge(@, seen, new)]
  PROVE  LinkInv'
  <1>0. TypeOK /\ fac \in [Fac -> FacRow] /\ fac[g] \in FacRow BY DEF IInv, TypeOK
  <1>1. fac'[g] = Merge(fac[g], seen, new) /\ \A f \in Fac \ {g}: fac'[f] = fac[f]
    BY <1>0
  <1>2. /\ fac'[g].relay = Written(fac[g].relay, seen.relay, new.relay)
        /\ fac'[g].token = Written(fac[g].token, seen.token, new.token)
    BY <1>0, <1>1, MergeColumns
  <1>3. LinkKept(g) BY <1>2 DEF Written, LinkKept
  <1>4. \A f \in Fac: LinkKept(f) BY <1>1, <1>3 DEF LinkKept
  <1>5. sess'[s] = Idle BY <1>0, SessionUpdate
  <1>6. \A t \in Sess: sess'[t].op # "approve" BY <1>5, IdleTask DEF Alone
  <1> QED BY <1>4, <1>6, LinksKept

LEMMA LinksArrive ==
  ASSUME IInv, LinkInv, NEW s \in Sess, Alone(s), Arrive(s)
  PROVE  LinkInv'
  <1>0. TypeOK /\ fac \in [Fac -> FacRow] /\ sess \in [Sess -> SessRec]
    BY DEF IInv, TypeOK
  <1>1. ASSUME NEW f \in Fac, ApproveRead(s, f) PROVE LinkInv'
    <2> DEFINE r == [Idle EXCEPT !.op = "approve", !.f = f, !.seen = fac[f]]
    <2>1. Becomes(s, r) /\ fac' = fac BY <1>1 DEF ApproveRead, rowVars
    <2>2. fac[r.f] = r.seen BY DEF Idle
    <2> HIDE DEF r
    <2> QED BY <1>0, <2>1, <2>2, LinksRead
  <1>2. ASSUME fac' = fac, NEW r, Becomes(s, r), r.op # "approve" PROVE LinkInv'
    BY <1>0, <1>2, LinksRead
  <1>3. ASSUME sess' = sess, sess[s].op = "idle", \A f \in Fac: LinkKept(f) PROVE LinkInv'
    <2>1. \A t \in Sess: sess'[t].op # "approve" BY <1>3 DEF Alone
    <2> QED BY <1>3, <2>1, LinksKept
  <1>4. ASSUME NEW j \in Seekers, NEW l \in listings, RequestRead(s, j, l) PROVE LinkInv'
    <2> DEFINE r == [Idle EXCEPT !.op = "request", !.seeker = j, !.listing = l]
    <2>1. Becomes(s, r) /\ fac' = fac BY <1>4 DEF RequestRead, rowVars
    <2>2. r.op # "approve" BY DEF Idle
    <2> HIDE DEF r
    <2> QED BY <1>2, <2>1, <2>2
  <1>5. ASSUME NEW f \in Fac, DeclineRead(s, f) \/ ConfirmRead(s, f) PROVE LinkInv'
    <2>1. PICK op \in {"decline", "confirm"}:
                  Becomes(s, [Idle EXCEPT !.op = op, !.f = f, !.seen = fac[f]])
      BY <1>5 DEF DeclineRead, ConfirmRead
    <2> DEFINE r == [Idle EXCEPT !.op = op, !.f = f, !.seen = fac[f]]
    <2>2. r.op # "approve" BY DEF Idle
    <2>3. Becomes(s, r) BY <2>1
    <2>4. fac' = fac BY <1>5 DEF DeclineRead, ConfirmRead, rowVars
    <2> HIDE DEF r
    <2> QED BY <1>2, <2>2, <2>3, <2>4
  <1>6. ASSUME NEW f \in Fac, NEW e \in Events, WebhookRead(s, f, e) PROVE LinkInv'
    <2> DEFINE r == [Idle EXCEPT !.op = "webhook", !.f = f, !.seen = fac[f], !.ev = e]
    <2>1. Becomes(s, r) /\ fac' = fac BY <1>6 DEF WebhookRead, rowVars
    <2>2. r.op # "approve" BY DEF Idle
    <2> HIDE DEF r
    <2> QED BY <1>2, <2>1, <2>2
  <1>7. ASSUME OptOutRead(s) PROVE LinkInv'
    <2> DEFINE r == [Idle EXCEPT !.op = "optout", !.live = listings,
                         !.rows = {f \in Fac: fac[f].status = "requested"}]
    <2>1. Becomes(s, r) /\ fac' = fac BY <1>7 DEF OptOutRead, rowVars
    <2>2. r.op # "approve" BY DEF Idle
    <2> HIDE DEF r
    <2> QED BY <1>2, <2>1, <2>2
  <1>8. ASSUME NEW op \in {"upload", "optin"}, RegenerateRead(s, op) PROVE LinkInv'
    <2> DEFINE r == [Idle EXCEPT !.op = op, !.live = listings, !.who = Contacts \ purged]
    <2>1. Becomes(s, r) /\ fac' = fac BY <1>8 DEF RegenerateRead, rowVars
    <2>2. r.op # "approve" BY DEF Idle
    <2> HIDE DEF r
    <2> QED BY <1>2, <2>1, <2>2
  <1>9. ASSUME NEW g \in Fac, RevokeToken(s, g) PROVE LinkInv'
    <2>1. fac' = [fac EXCEPT ![g].token = 0] /\ sess' = sess /\ sess[s].op = "idle"
      BY <1>9 DEF RevokeToken, Starts
    <2>2. \A f \in Fac: LinkKept(f) BY <1>0, <2>1 DEF LinkKept, FacRow
    <2> QED BY <1>3, <2>1, <2>2
  <1>10. ASSUME NEW c \in Contacts, Purge(s, c) PROVE LinkInv'
    <2>1. /\ \A f \in Fac: fac'[f] = fac[f] \/ fac'[f] = [fac[f] EXCEPT !.status = "expired"]
          /\ sess' = sess /\ sess[s].op = "idle"
      BY <1>10 DEF Purge, Starts
    <2>2. \A f \in Fac: LinkKept(f)
      <3> SUFFICES ASSUME NEW f \in Fac PROVE LinkKept(f) OBVIOUS
      <3>1. fac[f] \in FacRow BY <1>0
      <3>2. CASE fac'[f] = fac[f] BY <3>2 DEF LinkKept
      <3>3. CASE fac'[f] = [fac[f] EXCEPT !.status = "expired"]
        BY <3>1, <3>3 DEF LinkKept, FacRow
      <3> QED BY <2>1, <3>2, <3>3
    <2> QED BY <1>3, <2>1, <2>2
  <1> QED BY <1>1, <1>4, <1>5, <1>6, <1>7, <1>8, <1>9, <1>10 DEF Arrive

\* The approval writes the message id and the token of one attempt, over none.
LEMMA LinksApprove ==
  ASSUME IInv, LinkInv, NEW s \in Sess, Alone(s), ApproveCommit(s)
  PROVE  LinkInv'
  <1> DEFINE r == sess[s]
             new == Approved(r)
  <1>0. TypeOK /\ r \in SessRec /\ r.seen \in FacRow /\ fac \in [Fac -> FacRow]
    BY DEF IInv, TypeOK, SessRec
  <1>1. /\ r.op = "approve" /\ r.at = "ready" /\ Becomes(s, Idle)
        /\ fac' = [fac EXCEPT ![r.f] = Merge(@, r.seen, new)]
    BY DEF ApproveCommit, Doing
  <1>2. r.f \in Fac /\ r.seen.relay = 0 /\ (r.msg # 0 => r.msg = r.attempt)
    BY <1>1 DEF IInv, SessionsOK, SessionOK, RecordOK, MessageOK
  <1>3. fac[r.f] = r.seen BY <1>1 DEF LinkInv, SeesRow
  <1>4. new.relay # 0 => new.token = new.relay
    BY <1>0, <1>2 DEF Approved, FacRow
  <1>g. PICK g \in Fac: g = r.f BY <1>2
  <1> HIDE DEF r, new
  <1>5. fac'[g] = Merge(fac[g], r.seen, new) /\ \A f \in Fac \ {g}: fac'[f] = fac[f]
    BY <1>0, <1>1, <1>g
  <1>6. /\ fac'[g].relay = Written(fac[g].relay, r.seen.relay, new.relay)
        /\ fac'[g].token = Written(fac[g].token, r.seen.token, new.token)
    BY <1>0, <1>5, MergeColumns
  <1>7. fac'[g].relay = new.relay /\ fac'[g].token = new.token
    BY <1>g, <1>3, <1>6 DEF Written
  <1>8. LinkOK(g)' BY <1>4, <1>7 DEF LinkOK
  <1>9. \A f \in Fac: LinkOK(f)' BY <1>5, <1>8 DEF LinkInv, LinkOK
  <1>10. sess'[s] = Idle BY <1>0, <1>1, SessionUpdate
  <1>11. \A t \in Sess: sess'[t].op # "approve" BY <1>10, IdleTask DEF Alone
  <1> QED BY <1>9, <1>11 DEF LinkInv, SeesRow

LEMMA LinksProgress ==
  ASSUME IInv, LinkInv, NEW s \in Sess, Alone(s), Progress(s) \/ Abort(s)
  PROVE  LinkInv'
  <1>0. TypeOK /\ fac \in [Fac -> FacRow] /\ sess \in [Sess -> SessRec]
    BY DEF IInv, TypeOK
  <1>1. ASSUME NEW r, Becomes(s, r), fac' = fac, r.op = sess[s].op, r.f = sess[s].f,
               r.seen = sess[s].seen
        PROVE  LinkInv'
    <2>1. r.op = "approve" => fac[r.f] = r.seen BY <1>1 DEF LinkInv, SeesRow
    <2> QED BY <1>0, <1>1, <2>1, LinksRead
  <1>2. ASSUME Becomes(s, Idle), \A f \in Fac: LinkKept(f) PROVE LinkInv'
    <2>1. sess'[s] = Idle BY <1>0, <1>2, SessionUpdate
    <2>2. \A t \in Sess: sess'[t].op # "approve" BY <2>1, IdleTask DEF Alone
    <2> QED BY <1>2, <2>2, LinksKept
  <1>r. sess[s] \in SessRec BY <1>0
  <1>3. CASE ApproveLock(s) BY <1>1, <1>r, <1>3 DEF ApproveLock, SessRec
  <1>4. CASE RelaySkip(s) BY <1>1, <1>r, <1>4 DEF RelaySkip, SessRec, rowVars
  <1>5. CASE RelaySend(s) BY <1>1, <1>r, <1>5 DEF RelaySend, SessRec, rowVars
  <1>6. CASE RelayRecord(s) BY <1>1, <1>r, <1>6 DEF RelayRecord, SessRec, rowVars
  <1>7. CASE RelayRecordFails(s) \/ RegenerateCommit(s) \/ Abort(s)
    <2>1. Becomes(s, Idle) /\ fac' = fac
      BY <1>7 DEF RelayRecordFails, RegenerateCommit, Abort, rowVars
    <2> QED BY <1>2, <2>1 DEF LinkKept
  <1>8. CASE ApproveCommit(s) BY <1>8, LinksApprove
  <1>9. ASSUME NEW g \in Fac, RequestCommit(s, g) PROVE LinkInv'
    <2> DEFINE row == [Unborn EXCEPT !.status = "requested", !.seeker = sess[s].seeker,
                                     !.listing = sess[s].listing]
    <2>1. Becomes(s, Idle) /\ fac' = [fac EXCEPT ![g] = row] BY <1>9 DEF RequestCommit
    <2>2. row.relay = 0 BY DEF Unborn
    <2> HIDE DEF row
    <2>3. fac'[g].relay = 0 /\ \A f \in Fac \ {g}: fac'[f] = fac[f] BY <1>0, <2>1, <2>2
    <2>4. \A f \in Fac: LinkOK(f)' BY <2>3 DEF LinkInv, LinkOK
    <2>5. sess'[s] = Idle BY <1>0, <2>1, SessionUpdate
    <2>6. \A t \in Sess: sess'[t].op # "approve" BY <2>5, IdleTask DEF Alone
    <2> QED BY <2>4, <2>6 DEF LinkInv, SeesRow
  <1> DEFINE r == sess[s]
  <1>10. r.seen \in FacRow BY <1>r DEF SessRec
  <1>11. r.op \in {"decline", "confirm", "webhook"} => r.f \in Fac
    BY DEF IInv, SessionsOK, SessionOK, RecordOK
  <1>12. CASE DeclineCommit(s)
    <2> DEFINE new == [r.seen EXCEPT !.status = "declined"]
    <2>1. /\ Becomes(s, Idle) /\ r.op = "decline"
          /\ fac' = [fac EXCEPT ![r.f] = Merge(@, r.seen, new)]
      BY <1>12 DEF DeclineCommit, Doing
    <2>2. new.relay = r.seen.relay /\ new.token = r.seen.token BY <1>10 DEF FacRow
    <2> HIDE DEF r, new
    <2> QED BY <1>11, <2>1, <2>2, LinksMerged
  <1>13. CASE ConfirmCommit(s)
    <2> DEFINE new == ConfirmedRow(r)
    <2>1. /\ Becomes(s, Idle) /\ r.op = "confirm"
          /\ fac' = [fac EXCEPT ![r.f] = Merge(@, r.seen, new)]
      BY <1>13 DEF ConfirmCommit, Doing, ConfirmedRow
    <2>2. new.relay = r.seen.relay /\ new.token = r.seen.token
      BY <1>10 DEF FacRow, ConfirmedRow
    <2> HIDE DEF r, new
    <2> QED BY <1>11, <2>1, <2>2, LinksMerged
  <1>14. CASE WebhookCommit(s)
    <2> DEFINE new == HandledRow(r)
    <2>1. /\ Becomes(s, Idle) /\ r.op = "webhook"
          /\ fac' = [fac EXCEPT ![r.f] = Merge(@, r.seen, new)]
      BY <1>14 DEF WebhookCommit, Doing, HandledRow
    <2>2. new.relay = r.seen.relay /\ new.token = r.seen.token
      BY <1>10 DEF FacRow, HandledRow
    <2> HIDE DEF r, new
    <2> QED BY <1>11, <2>1, <2>2, LinksMerged
  <1>15. CASE OptOutCommit(s)
    <2>1. /\ Becomes(s, Idle)
          /\ \A f \in Fac: fac'[f] = fac[f] \/ fac'[f] = [fac[f] EXCEPT !.status = "expired"]
      BY <1>15 DEF OptOutCommit
    <2>2. \A f \in Fac: LinkKept(f) BY <1>0, <2>1 DEF LinkKept, FacRow
    <2> QED BY <1>2, <2>1, <2>2
  <1> QED BY <1>3, <1>4, <1>5, <1>6, <1>7, <1>8, <1>9, <1>12, <1>13, <1>14, <1>15
          DEF Progress

LEMMA LinksStep ==
  ASSUME Cardinality(Sess) = 1, IInv, LinkInv, [Next]_vars
  PROVE  LinkInv'
  <1>0. \A s \in Sess: Alone(s) BY OneSession
  <1>1. CASE UNCHANGED <<fac, sess>> BY <1>1 DEF LinkInv, LinkOK, SeesRow
  <1>2. ASSUME NEW s \in Sess, Arrive(s) \/ Progress(s) \/ Abort(s) PROVE LinkInv'
    BY <1>0, <1>2, LinksArrive, LinksProgress
  <1>3. CASE \/ NextDay \/ UNCHANGED vars
             \/ \E n \in 1..attempts, e \in Events:
                   \/ ResendIssues(n, e) \/ ResendRepeats(n, e)
                   \/ \E s \in Sess: WebhookUnmatched(s, n, e)
    BY <1>1, <1>3 DEF NextDay, vars, ResendIssues, ResendRepeats, WebhookUnmatched, rowVars
  <1> QED BY <1>2, <1>3 DEF Next

\* With one session at a time, the link of a recorded relay mail opens its intro, through
\* mails that went out before a rollback and approvals that were tried again.
THEOREM LinksLive ==
  ASSUME Cardinality(Sess) = 1
  PROVE  Spec => []MailedLinkIsLive
  <1>1. Init => LinkInv BY IdleTask DEF Init, LinkInv, LinkOK, SeesRow, Unborn
  <1>2. IInv /\ LinkInv /\ [Next]_vars => IInv' /\ LinkInv' BY Inductive, LinksStep
  <1>3. LinkInv => MailedLinkIsLive BY DEF LinkInv, LinkOK, MailedLinkIsLive
  <1> QED BY <1>1, <1>2, <1>3, Initial, PTL DEF Spec
=============================================================================
