---------------------------- MODULE BillingProofs ----------------------------
(***************************************************************************)
(* Proofs about the Stripe webhook and the referral codes, for every       *)
(* number of payers, checkouts, codes and sessions and for every bound on  *)
(* repeated deliveries: what is granted, which tier results, and how far   *)
(* the checks that two sessions pass together can be overrun.              *)
(***************************************************************************)
EXTENDS Billing, FiniteSetTheorems, TLAPS

\* The sessions that do something about an event, an owner, a code.
Holding(e) == {s \in Sess: Doing(s, "stripe") /\ sess[s].ev = e}
Creating(u) == {s \in Sess: Doing(s, "create") /\ sess[s].user = u}
Redeeming(c) == {s \in Sess: Doing(s, "redeem") /\ sess[s].code = c}

SessRec == [op: {"idle", "stripe", "create", "redeem"}, ev: Event \cup {None},
            seen: UserRow \cup {None}, user: Users \cup {None},
            code: Codes \cup {None}, uses: Nat]

\* What a session has read and relies on.
SessionOK(s) ==
    /\ Doing(s, "stripe") => sess[s].ev \in issued
    /\ Doing(s, "create") => sess[s].user \in Users
    /\ Doing(s, "redeem") =>
        /\ sess[s].code \in Codes /\ sess[s].user \in Users
        /\ codes[sess[s].code].live
        /\ codes[sess[s].code].owner # sess[s].user

TypeInv ==
    /\ TypeOK
    /\ sess \in [Sess -> SessRec]
    /\ \A s \in Sess: SessionOK(s)

\* Webhook deliveries: every grant and every delivery under way is accounted for.
EventOK(e) == \/ e.kind = "checkout" /\ e.co \in Checkouts
              \/ e.kind # "checkout" /\ e.co = None
GrantInv ==
    /\ \A e \in issued: EventOK(e)
    /\ \A e, f \in issued: e.co \in Checkouts /\ e.co = f.co => e = f
    /\ \A e \in issued: e.kind = "checkout" =>
           grants[e.co] + Cardinality(Holding(e)) <= 1 + dups[e.user]
    /\ \A c \in Checkouts: grants[c] > 0 => \E e \in acked: e.co = c

\* Subscriptions: what Stripe has issued of each payer's plan, what has been answered,
\* and what the one session that holds an event of it has read.
PlanEvents(u) == {e \in issued: e.user = u /\ AboutPlan(e)}
Answered(u, kind) == \E e \in acked: e.user = u /\ e.kind = kind
Issued(u, kind) == \E e \in issued: e.user = u /\ e.kind = kind
IssuedOK(u) ==
    /\ subs[u] = "active" <=> Issued(u, "created") /\ ~Issued(u, "deleted")
    /\ Issued(u, "deleted") => Issued(u, "created")
    /\ subs[u] = "none" => ~Issued(u, "created")
    /\ \A e, f \in PlanEvents(u): e.kind = f.kind => e = f
HolderOK(s, u) ==
    Doing(s, "stripe") /\ sess[s].ev \in PlanEvents(u) =>
        /\ sess[s].ev \notin acked
        /\ sess[s].seen # None
        /\ sess[s].seen.tier = users[u].tier
        /\ sess[s].ev.kind = "deleted" => Answered(u, "created")
        /\ \A t \in Sess: Doing(t, "stripe") /\ sess[t].ev \in PlanEvents(u) => t = s
Steady(u) ==
    /\ users[u].tier = "pro" <=> Answered(u, "created") /\ ~Answered(u, "deleted")
    /\ Answered(u, "deleted") => Answered(u, "created")
    /\ \A s \in Sess: HolderOK(s, u)
PlanInv ==
    /\ \A u \in Payers: IssuedOK(u)
    /\ \A u \in Payers \ tangled: Steady(u)

\* Codes: those that exist and those that sessions are about to insert.
CreateInv ==
    \A u \in Users:
        /\ IsFiniteSet(ActiveCodes(u))
        /\ Cardinality(ActiveCodes(u)) + Cardinality(Creating(u)) <= Cardinality(Sess)

\* Redemptions: conversions made and under way.
RedeemInv ==
    \A c \in Codes:
        /\ IsFiniteSet(Redeemers(c))
        /\ codes[c].uses <= MaxUses /\ codes[c].uses <= Cardinality(Redeemers(c))
        /\ codes[c].uses = 0 => Redeemers(c) = {}
        /\ MaxUses = 1 =>
              Cardinality(Redeemers(c)) + Cardinality(Redeeming(c)) <= Cardinality(Sess)
        /\ codes[c].owner \notin Redeemers(c)
        /\ Redeemers(c) # {} => codes[c].live
        /\ \A s \in Redeeming(c): /\ sess[s].uses < MaxUses
                                  /\ sess[s].uses <= Cardinality(Redeemers(c))

\* The inductive invariant.
IInv == TypeInv /\ GrantInv /\ PlanInv /\ CreateInv /\ RedeemInv
-----------------------------------------------------------------------------
\* Rows and records.

LEMMA IdleType ==
  /\ Idle \in SessRec /\ Idle.op = "idle"
  /\ NoCode \in CodeRow /\ NoCode.owner = None /\ ~NoCode.live /\ NoCode.uses = 0
  BY DEF Idle, SessRec, NoCode, CodeRow

HandlerRec(e, x) == [Idle EXCEPT !.op = "stripe", !.ev = e, !.seen = x]
CreateRec(u) == [Idle EXCEPT !.op = "create", !.user = u]
RedeemRec(u, c, n) ==
    [Idle EXCEPT !.op = "redeem", !.user = u, !.code = c, !.uses = n]

LEMMA OpenTypes ==
  /\ \A e \in Event, x \in UserRow \cup {None}:
       LET r == HandlerRec(e, x)
       IN  r \in SessRec /\ r.op = "stripe" /\ r.ev = e /\ r.seen = x
  /\ \A u \in Users:
       LET r == CreateRec(u) IN r \in SessRec /\ r.op = "create" /\ r.user = u
  /\ \A u \in Users, c \in Codes, n \in Nat:
       LET r == RedeemRec(u, c, n)
       IN  r \in SessRec /\ r.op = "redeem" /\ r.user = u /\ r.code = c /\ r.uses = n
  BY DEF Idle, SessRec, HandlerRec, CreateRec, RedeemRec

\* What a handler leaves in its session, and what its UPDATE leaves in the table.
LEMMA MergeType ==
  ASSUME NEW e \in Event, NEW db \in UserRow, NEW seen \in UserRow
  PROVE  /\ Merge(db, seen, After(e, seen)) \in UserRow
         /\ ~AboutPlan(e) => Merge(db, seen, After(e, seen)).tier = db.tier
         /\ AboutPlan(e) /\ seen.tier = db.tier =>
              (Merge(db, seen, After(e, seen)).tier = "pro" <=> e.kind = "created")
  <1>1. After(e, seen) \in UserRow
        /\ After(e, seen).tier = (IF e.kind = "created" THEN "pro"
                                  ELSE IF e.kind = "deleted" THEN "free" ELSE seen.tier)
    <2>1. CASE e.kind = "checkout" BY <2>1 DEF After, UserRow
    <2>2. CASE e.kind = "created" BY <2>2 DEF After, UserRow
    <2>3. CASE e.kind = "deleted" BY <2>3 DEF After, UserRow
    <2>4. CASE e.kind = "updated" BY <2>4 DEF After, UserRow
    <2> QED BY <2>1, <2>2, <2>3, <2>4 DEF Event, Kinds
  <1>2. /\ db.tier \in {"free", "pro"} /\ db.cust \in BOOLEAN
        /\ seen.tier \in {"free", "pro"} /\ After(e, seen).cust \in BOOLEAN
    BY <1>1 DEF UserRow
  <1>3. (IF After(e, seen).cust = seen.cust THEN db.cust ELSE After(e, seen).cust)
           \in BOOLEAN
    BY <1>2, Zenon
  <1>4. Merge(db, seen, After(e, seen)) \in UserRow
    BY <1>1, <1>2, <1>3 DEF Merge, UserRow
  <1>5. Merge(db, seen, After(e, seen)).tier
          = IF After(e, seen).tier = seen.tier THEN db.tier ELSE After(e, seen).tier
    BY DEF Merge
  <1> QED BY <1>1, <1>2, <1>4, <1>5 DEF AboutPlan

\* A step of one session.
Changes(s, r) == r \in SessRec /\ Becomes(s, r)

LEMMA SessionChange ==
  ASSUME TypeInv, NEW s \in Sess, NEW r, Changes(s, r)
  PROVE  /\ sess' \in [Sess -> SessRec]
         /\ sess'[s] = r
         /\ \A t \in Sess \ {s}: sess'[t] = sess[t]
  BY DEF TypeInv, Changes, Becomes

\* Payments and codes share no row, and no session.
StripeSame ==
    \A t \in Sess:
        /\ Doing(t, "stripe")' <=> Doing(t, "stripe")
        /\ Doing(t, "stripe") => sess'[t] = sess[t]
CodeSame ==
    \A t \in Sess:
        /\ Doing(t, "create")' <=> Doing(t, "create")
        /\ Doing(t, "redeem")' <=> Doing(t, "redeem")
        /\ Doing(t, "create") \/ Doing(t, "redeem") => sess'[t] = sess[t]
StripeStep ==
    \/ StripeActs
    \/ \E s \in Sess:
        \/ \E e \in issued: Deliver(s, e)
        \/ HandlerCommit(s)
        \/ HandlerFail(s)
CodeStep ==
    \/ \E c \in Codes: CodeExpires(c)
    \/ \E s \in Sess:
        \/ \E u \in Owners: CreateRead(s, u)
        \/ \E u \in Users, c \in Codes: RedeemRead(s, u, c)
        \/ \E c \in Codes: CreateCommit(s, c)
        \/ RedeemCommit(s)
        \/ ReferralAbort(s)

LEMMA TwoKinds == [Next]_vars => StripeStep \/ CodeStep \/ UNCHANGED vars
  <1>1. ASSUME NEW s \in Sess,
               \/ \E e \in issued: Deliver(s, e)
               \/ HandlerCommit(s)
               \/ HandlerFail(s)
        PROVE  StripeStep
    BY <1>1 DEF StripeStep
  <1>2. ASSUME NEW s \in Sess,
               \/ \E u \in Owners: CreateRead(s, u)
               \/ \E u \in Users, c \in Codes: RedeemRead(s, u, c)
               \/ \E c \in Codes: CreateCommit(s, c)
               \/ RedeemCommit(s)
               \/ ReferralAbort(s)
        PROVE  CodeStep
    <2>1. CASE \E u \in Owners: CreateRead(s, u) BY <2>1 DEF CodeStep
    <2>2. CASE \E u \in Users, c \in Codes: RedeemRead(s, u, c) BY <2>2 DEF CodeStep
    <2>3. CASE \E c \in Codes: CreateCommit(s, c) BY <2>3 DEF CodeStep
    <2>4. CASE RedeemCommit(s) \/ ReferralAbort(s) BY <2>4 DEF CodeStep
    <2> QED BY <1>2, <2>1, <2>2, <2>3, <2>4
  <1>3. StripeActs => StripeStep BY DEF StripeStep
  <1>4. (\E c \in Codes: CodeExpires(c)) => CodeStep BY DEF CodeStep
  <1> QED BY <1>1, <1>2, <1>3, <1>4 DEF Next

LEMMA SessionMoves ==
  ASSUME TypeInv, NEW s \in Sess, NEW r, Becomes(s, r)
  PROVE  /\ sess[s].op # "stripe" /\ r.op # "stripe" => StripeSame
         /\ sess[s].op \notin {"create", "redeem"} /\ r.op \notin {"create", "redeem"}
              => CodeSame
  <1>1. ASSUME NEW t \in Sess
        PROVE  sess'[t] = IF t = s THEN r ELSE sess[t]
    BY DEF TypeInv, Becomes
  <1>2. ASSUME sess[s].op # "stripe", r.op # "stripe" PROVE StripeSame
    <2>1. ASSUME NEW t \in Sess
          PROVE  /\ Doing(t, "stripe")' <=> Doing(t, "stripe")
                 /\ Doing(t, "stripe") => sess'[t] = sess[t]
      <3>1. CASE t = s BY <1>1, <1>2, <3>1 DEF Doing
      <3>2. CASE t # s BY <1>1, <3>2 DEF Doing
      <3> QED BY <3>1, <3>2
    <2> QED BY <2>1 DEF StripeSame, Doing
  <1>3. ASSUME sess[s].op \notin {"create", "redeem"}, r.op \notin {"create", "redeem"}
        PROVE  CodeSame
    <2>1. ASSUME NEW t \in Sess
          PROVE  /\ Doing(t, "create")' <=> Doing(t, "create")
                 /\ Doing(t, "redeem")' <=> Doing(t, "redeem")
                 /\ Doing(t, "create") \/ Doing(t, "redeem") => sess'[t] = sess[t]
      <3>1. CASE t = s BY <1>1, <1>3, <3>1 DEF Doing
      <3>2. CASE t # s BY <1>1, <3>2 DEF Doing
      <3> QED BY <3>1, <3>2
    <2> QED BY <2>1 DEF CodeSame, Doing
  <1> QED BY <1>2, <1>3

LEMMA CodeStepFrame ==
  ASSUME TypeInv, CodeStep
  PROVE  UNCHANGED stripeVars /\ StripeSame
  <1>1. CASE \E c \in Codes: CodeExpires(c)
    BY <1>1 DEF CodeExpires, StripeSame, Doing
  <1>2. ASSUME NEW s \in Sess, NEW u \in Owners, CreateRead(s, u)
        PROVE  UNCHANGED stripeVars /\ StripeSame
    <2>1. CreateRec(u).op = "create" BY OpenTypes, BillingAssumption
    <2> QED BY <1>2, <2>1, SessionMoves DEF CreateRead, Starts, CreateRec
  <1>3. ASSUME NEW s \in Sess, NEW u \in Users, NEW c \in Codes, RedeemRead(s, u, c)
        PROVE  UNCHANGED stripeVars /\ StripeSame
    <2>1. codes[c].uses \in Nat BY DEF TypeInv, TypeOK, CodeRow
    <2>2. RedeemRec(u, c, codes[c].uses).op = "redeem" BY <2>1, OpenTypes
    <2> QED BY <1>3, <2>2, SessionMoves DEF RedeemRead, Starts, RedeemRec
  <1>4. ASSUME NEW s \in Sess,
               (\E c \in Codes: CreateCommit(s, c)) \/ RedeemCommit(s) \/ ReferralAbort(s)
        PROVE  UNCHANGED stripeVars /\ StripeSame
    BY <1>4, IdleType, SessionMoves DEF CreateCommit, RedeemCommit, ReferralAbort, Doing,
                                        stripeVars, codeVars
  <1> QED BY <1>1, <1>2, <1>3, <1>4 DEF CodeStep

LEMMA StripeStepFrame ==
  ASSUME TypeInv, StripeStep
  PROVE  UNCHANGED codeVars /\ CodeSame
  <1>1. CASE StripeActs
    BY <1>1 DEF StripeActs, Pay, Subscribe, EndSubscription, ChangeSubscription,
                Subscribes, CodeSame, Doing
  <1>2. ASSUME NEW s \in Sess, NEW e \in issued, Deliver(s, e)
        PROVE  UNCHANGED codeVars /\ CodeSame
    <2> DEFINE x == IF Resolves(e) THEN users[e.user] ELSE None
    <2>1. HandlerRec(e, x).op = "stripe"
      <3>1. e \in Event /\ x \in UserRow \cup {None}
        BY DEF TypeInv, TypeOK, Event
      <3> QED BY <3>1, OpenTypes
    <2>2. Becomes(s, HandlerRec(e, x)) /\ sess[s].op = "idle" /\ UNCHANGED codeVars
      BY <1>2 DEF Deliver, HandlerRec, Starts
    <2> QED BY <2>1, <2>2, SessionMoves
  <1>3. ASSUME NEW s \in Sess, HandlerCommit(s) \/ HandlerFail(s)
        PROVE  UNCHANGED codeVars /\ CodeSame
    BY <1>3, IdleType, SessionMoves DEF HandlerCommit, HandlerFail, Doing
  <1> QED BY <1>1, <1>2, <1>3 DEF StripeStep

LEMMA HoldersFinite ==
  /\ \A e: IsFiniteSet(Holding(e)) /\ Cardinality(Holding(e)) \in Nat
                                   /\ Cardinality(Holding(e)) <= Cardinality(Sess)
  /\ \A u: IsFiniteSet(Creating(u)) /\ Cardinality(Creating(u)) \in Nat
                                    /\ Cardinality(Creating(u)) <= Cardinality(Sess)
  /\ \A c: IsFiniteSet(Redeeming(c)) /\ Cardinality(Redeeming(c)) \in Nat
                                     /\ Cardinality(Redeeming(c)) <= Cardinality(Sess)
  /\ Cardinality(Sess) \in Nat
  <1>1. \A T \in SUBSET Sess: /\ IsFiniteSet(T) /\ Cardinality(T) \in Nat
                              /\ Cardinality(T) <= Cardinality(Sess)
    BY BillingAssumption, FS_Subset, FS_CardinalityType
  <1>2. /\ \A e: Holding(e) \in SUBSET Sess
        /\ \A u: Creating(u) \in SUBSET Sess
        /\ \A c: Redeeming(c) \in SUBSET Sess
    BY DEF Holding, Creating, Redeeming
  <1>3. Cardinality(Sess) \in Nat BY BillingAssumption, FS_CardinalityType
  <1> QED BY <1>1, <1>2, <1>3
-----------------------------------------------------------------------------
\* Type correctness.

LEMMA TypeInit == Init => TypeInv
  <1> SUFFICES ASSUME Init PROVE TypeInv OBVIOUS
  <1>1. \A s \in Sess: sess[s] = Idle /\ sess[s].op = "idle" BY IdleType DEF Init
  <1>2. sess \in [Sess -> SessRec] BY IdleType DEF Init
  <1>3. TypeOK
    BY <1>1, IdleType, BillingAssumption DEF Init, TypeOK, UserRow, Subscription, Event
  <1> QED BY <1>1, <1>2, <1>3 DEF TypeInv, SessionOK, Doing

\* A session whose tables did not change under it, or only grew, may go on.
LEMMA TypeOfStep ==
  ASSUME TypeInv, NEW s \in Sess, NEW r, Changes(s, r),
         issued \subseteq issued',
         r.op = "stripe" => r.ev \in issued',
         r.op = "create" => r.user \in Users,
         r.op = "redeem" => /\ r.code \in Codes /\ r.user \in Users
                            /\ codes'[r.code].live /\ codes'[r.code].owner # r.user,
         \A c \in Codes: codes[c].live => /\ codes'[c].live
                                          /\ codes'[c].owner = codes[c].owner
  PROVE  /\ sess' \in [Sess -> SessRec]
         /\ \A t \in Sess: SessionOK(t)'
         /\ \A t \in Sess: /\ sess'[t].op = "stripe" => sess'[t].ev \in issued'
                           /\ sess'[t].op = "redeem" => codes'[sess'[t].code].live
  <1>1. /\ sess' \in [Sess -> SessRec] /\ sess'[s] = r
        /\ \A t \in Sess \ {s}: sess'[t] = sess[t]
    BY SessionChange
  <1>2. SessionOK(s)' BY <1>1 DEF SessionOK, Doing
  <1>3. ASSUME NEW t \in Sess \ {s} PROVE SessionOK(t)'
    <2>1. SessionOK(t) /\ sess'[t] = sess[t] BY <1>1 DEF TypeInv
    <2> QED BY <2>1 DEF SessionOK, Doing
  <1>4. \A t \in Sess: SessionOK(t)' BY <1>2, <1>3
  <1> QED BY <1>1, <1>4 DEF SessionOK, Doing

LEMMA SubscribesType ==
  ASSUME TypeInv, NEW u \in Payers, NEW k \in {"created", "updated", "deleted"},
         NEW a, NEW b \in Subscription, Subscribes(u, k, a, b)
  PROVE  TypeInv'
  <1>1. PICK m \in BOOLEAN:
          issued' = issued \cup {[kind |-> k, user |-> u, co |-> None, meta |-> m]}
    BY DEF Subscribes
  <1>2. issued' \subseteq Event /\ issued \subseteq issued'
    BY <1>1 DEF Event, Kinds, TypeInv, TypeOK
  <1>3. subs' \in [Payers -> Subscription] BY DEF Subscribes, TypeInv, TypeOK
  <1>4. TypeOK'
    BY <1>2, <1>3 DEF Subscribes, TypeInv, TypeOK, codeVars
  <1>5. \A s \in Sess: SessionOK(s)'
    BY <1>2 DEF Subscribes, TypeInv, SessionOK, Doing, codeVars
  <1> QED BY <1>4, <1>5 DEF TypeInv, Subscribes

LEMMA TypeStep == TypeInv /\ [Next]_vars => TypeInv'
  <1> SUFFICES ASSUME TypeInv, [Next]_vars PROVE TypeInv' OBVIOUS
  <1>t. TypeOK BY DEF TypeInv
  <1>r. \A s \in Sess: sess[s] \in SessRec /\ SessionOK(s) BY DEF TypeInv
  <1>1. ASSUME NEW u \in Payers, NEW c \in Checkouts, Pay(u, c) PROVE TypeInv'
    <2> DEFINE e == [kind |-> "checkout", user |-> u, co |-> c, meta |-> TRUE]
    <2>0. e \in Event /\ issued' = issued \cup {e} BY <1>1 DEF Pay, Event, Kinds
    <2> HIDE DEF e
    <2>1. issued' \subseteq Event /\ issued \subseteq issued' BY <2>0, <1>t DEF TypeOK
    <2>2. TypeOK' BY <1>1, <1>t, <2>1 DEF Pay, TypeOK, codeVars
    <2>3. \A s \in Sess: SessionOK(s)'
      BY <1>1, <1>r, <2>1 DEF Pay, SessionOK, Doing, codeVars
    <2> QED BY <1>1, <2>2, <2>3 DEF TypeInv, Pay
  <1>2. ASSUME NEW u \in Payers, Subscribe(u) \/ EndSubscription(u) \/ ChangeSubscription(u)
        PROVE TypeInv'
    BY <1>2, SubscribesType
       DEF Subscribe, EndSubscription, ChangeSubscription, Subscription
  <1>3. ASSUME NEW s \in Sess, NEW e \in issued, Deliver(s, e) PROVE TypeInv'
    <2> DEFINE x == IF Resolves(e) THEN users[e.user] ELSE None
    <2> DEFINE r == HandlerRec(e, x)
    <2>1. e \in Event /\ e.user \in Payers BY <1>t DEF TypeOK, Event
    <2>2. x \in UserRow \cup {None} BY <1>t, <2>1 DEF TypeOK
    <2>3. r \in SessRec /\ r.op = "stripe" /\ r.ev = e BY <2>1, <2>2, OpenTypes
    <2>4. Changes(s, r) /\ issued' = issued /\ codes' = codes
      BY <1>3, <2>3 DEF Deliver, Changes, codeVars, HandlerRec
    <2> HIDE DEF r
    <2>5. /\ sess' \in [Sess -> SessRec] /\ \A t \in Sess: SessionOK(t)'
          /\ \A t \in Sess: /\ sess'[t].op = "stripe" => sess'[t].ev \in issued'
                            /\ sess'[t].op = "redeem" => codes'[sess'[t].code].live
      BY <2>3, <2>4, TypeOfStep
    <2>6. dups' \in [Payers -> 0..MaxDups]
      <3>1. CASE UNCHANGED dups BY <3>1, <1>t DEF TypeOK
      <3>2. CASE dups[e.user] < MaxDups /\ dups' = [dups EXCEPT ![e.user] = @ + 1]
        BY <3>2, <1>t, <2>1, BillingAssumption DEF TypeOK
      <3> QED BY <3>1, <3>2, <1>3 DEF Deliver
    <2>7. tangled' \subseteq Payers BY <1>3, <1>t, <2>1 DEF Deliver, TypeOK
    <2>8. TypeOK' BY <1>3, <1>t, <2>5, <2>6, <2>7 DEF Deliver, TypeOK, codeVars
    <2> QED BY <2>5, <2>8 DEF TypeInv
  <1>4. ASSUME NEW s \in Sess, HandlerCommit(s) PROVE TypeInv'
    <2> DEFINE e == sess[s].ev
    <2> DEFINE seen == sess[s].seen
    <2>1. e \in issued /\ e \in Event /\ e.user \in Payers /\ seen \in UserRow \cup {None}
      BY <1>4, <1>r, <1>t DEF HandlerCommit, SessionOK, TypeOK, Event, SessRec
    <2>2. users' \in [Payers -> UserRow]
      <3>1. CASE seen = None BY <3>1, <1>4, <1>t DEF HandlerCommit, TypeOK
      <3>2. CASE seen # None
        <4>1. users[e.user] \in UserRow /\ seen \in UserRow
          BY <3>2, <2>1, <1>t DEF TypeOK
        <4>2. Merge(users[e.user], seen, After(e, seen)) \in UserRow
          BY <4>1, <2>1, MergeType
        <4>3. users' = [users EXCEPT ![e.user]
                           = Merge(users[e.user], seen, After(e, seen))]
          BY <3>2, <1>4 DEF HandlerCommit
        <4> QED BY <4>2, <4>3, <1>t DEF TypeOK
      <3> QED BY <3>1, <3>2
    <2>3. grants' \in [Checkouts -> Nat]
      <3> DEFINE g == Granted(e, seen)
      <3>1. g \in Nat BY DEF Granted
      <3>2. \/ grants' = [grants EXCEPT ![e.co] = @ + g]
            \/ grants' = grants
        BY <1>4 DEF HandlerCommit
      <3> HIDE DEF g, e
      <3> QED BY <3>1, <3>2, <1>t DEF TypeOK
    <2>4. /\ sess' \in [Sess -> SessRec] /\ \A t \in Sess: SessionOK(t)'
          /\ \A t \in Sess: /\ sess'[t].op = "stripe" => sess'[t].ev \in issued'
                            /\ sess'[t].op = "redeem" => codes'[sess'[t].code].live
      <3>1. Changes(s, Idle) /\ issued' = issued /\ codes' = codes
        BY <1>4, IdleType DEF HandlerCommit, Changes, codeVars
      <3> QED BY <3>1, IdleType, TypeOfStep
    <2>5. acked' \subseteq issued' BY <1>4, <1>t, <2>1 DEF HandlerCommit, TypeOK
    <2>6. TypeOK'
      BY <1>4, <1>t, <2>2, <2>3, <2>4, <2>5 DEF HandlerCommit, TypeOK, codeVars
    <2> QED BY <2>4, <2>6 DEF TypeInv
  <1>5. ASSUME NEW s \in Sess, HandlerFail(s) \/ ReferralAbort(s) PROVE TypeInv'
    <2>1. Changes(s, Idle) /\ UNCHANGED <<stripeVars, codeVars>>
      BY <1>5, IdleType DEF HandlerFail, ReferralAbort, Changes
    <2>2. /\ sess' \in [Sess -> SessRec] /\ \A t \in Sess: SessionOK(t)'
          /\ \A t \in Sess: /\ sess'[t].op = "stripe" => sess'[t].ev \in issued'
                            /\ sess'[t].op = "redeem" => codes'[sess'[t].code].live
      BY <2>1, IdleType, TypeOfStep DEF stripeVars, codeVars
    <2> QED BY <2>1, <2>2, <1>t DEF TypeInv, TypeOK, stripeVars, codeVars
  <1>6. ASSUME NEW s \in Sess, NEW u \in Owners, CreateRead(s, u) PROVE TypeInv'
    <2> DEFINE r == CreateRec(u)
    <2>1. u \in Users BY BillingAssumption
    <2>2. r \in SessRec /\ r.op = "create" /\ r.user = u BY <2>1, OpenTypes
    <2>3. Changes(s, r) /\ UNCHANGED <<stripeVars, codeVars>>
      BY <1>6, <2>2 DEF CreateRead, Changes, CreateRec
    <2> HIDE DEF r
    <2>4. /\ sess' \in [Sess -> SessRec] /\ \A t \in Sess: SessionOK(t)'
          /\ \A t \in Sess: /\ sess'[t].op = "stripe" => sess'[t].ev \in issued'
                            /\ sess'[t].op = "redeem" => codes'[sess'[t].code].live
      BY <2>1, <2>2, <2>3, TypeOfStep DEF stripeVars, codeVars
    <2> QED BY <2>3, <2>4, <1>t DEF TypeInv, TypeOK, stripeVars, codeVars
  <1>7. ASSUME NEW s \in Sess, NEW c \in Codes, CreateCommit(s, c) PROVE TypeInv'
    <2>1. sess[s].user \in Users BY <1>7, <1>r DEF CreateCommit, SessionOK
    <2>2. codes' = [codes EXCEPT ![c] = [NoCode EXCEPT !.owner = sess[s].user,
                                                       !.live = TRUE]]
      BY <1>7 DEF CreateCommit
    <2>3. [NoCode EXCEPT !.owner = sess[s].user, !.live = TRUE] \in CodeRow
      BY <2>1 DEF NoCode, CodeRow
    <2>4. codes' \in [Codes -> CodeRow] BY <2>2, <2>3, <1>t DEF TypeOK
    <2>5. ~codes[c].live BY <1>7, IdleType DEF CreateCommit
    <2>6. \A d \in Codes: codes[d].live => /\ codes'[d].live
                                           /\ codes'[d].owner = codes[d].owner
      BY <2>2, <2>5, <1>t DEF TypeOK
    <2>7. Changes(s, Idle) /\ UNCHANGED <<stripeVars, joined>>
      BY <1>7, IdleType DEF CreateCommit, Changes
    <2>8. /\ sess' \in [Sess -> SessRec] /\ \A t \in Sess: SessionOK(t)'
          /\ \A t \in Sess: /\ sess'[t].op = "stripe" => sess'[t].ev \in issued'
                            /\ sess'[t].op = "redeem" => codes'[sess'[t].code].live
      BY <2>6, <2>7, IdleType, TypeOfStep DEF stripeVars
    <2> QED BY <2>4, <2>7, <2>8, <1>t DEF TypeInv, TypeOK, stripeVars
  <1>8. ASSUME NEW s \in Sess, NEW u \in Users, NEW c \in Codes, RedeemRead(s, u, c)
        PROVE TypeInv'
    <2> DEFINE r == RedeemRec(u, c, codes[c].uses)
    <2>1. codes[c].uses \in Nat BY <1>t DEF TypeOK, CodeRow
    <2>2. r \in SessRec /\ r.op = "redeem" /\ r.user = u /\ r.code = c BY <2>1, OpenTypes
    <2>3. Changes(s, r) /\ UNCHANGED <<stripeVars, codeVars>>
      BY <1>8, <2>2 DEF RedeemRead, Changes, RedeemRec
    <2> HIDE DEF r
    <2>4. codes[c].live /\ codes[c].owner # u BY <1>8 DEF RedeemRead
    <2>5. /\ sess' \in [Sess -> SessRec] /\ \A t \in Sess: SessionOK(t)'
          /\ \A t \in Sess: /\ sess'[t].op = "stripe" => sess'[t].ev \in issued'
                            /\ sess'[t].op = "redeem" => codes'[sess'[t].code].live
      BY <2>2, <2>3, <2>4, TypeOfStep DEF stripeVars, codeVars
    <2> QED BY <2>3, <2>5, <1>t DEF TypeInv, TypeOK, stripeVars, codeVars
  <1>9. ASSUME NEW s \in Sess, RedeemCommit(s) PROVE TypeInv'
    <2>1. sess[s].code \in Codes /\ sess[s].user \in Users /\ sess[s].uses + 1 \in Nat
      BY <1>9, <1>r DEF RedeemCommit, SessionOK, SessRec
    <2>2. codes' = [codes EXCEPT ![sess[s].code].uses = sess[s].uses + 1]
          /\ joined' \subseteq Codes \X Users
      BY <1>9, <1>t, <2>1 DEF RedeemCommit, TypeOK
    <2>3. codes' \in [Codes -> CodeRow]
          /\ \A d \in Codes: /\ codes'[d].live = codes[d].live
                             /\ codes'[d].owner = codes[d].owner
      BY <2>1, <2>2, <1>t DEF TypeOK, CodeRow
    <2>4. Changes(s, Idle) /\ UNCHANGED stripeVars
      BY <1>9, IdleType DEF RedeemCommit, Changes
    <2>5. /\ sess' \in [Sess -> SessRec] /\ \A t \in Sess: SessionOK(t)'
          /\ \A t \in Sess: /\ sess'[t].op = "stripe" => sess'[t].ev \in issued'
                            /\ sess'[t].op = "redeem" => codes'[sess'[t].code].live
      BY <2>3, <2>4, IdleType, TypeOfStep DEF stripeVars
    <2> QED BY <2>2, <2>3, <2>4, <2>5, <1>t DEF TypeInv, TypeOK, stripeVars
  <1>10. ASSUME NEW c \in Codes, CodeExpires(c) PROVE TypeInv'
    <2>1. codes' = [codes EXCEPT ![c].expired = TRUE] /\ UNCHANGED <<stripeVars, joined, sess>>
      BY <1>10 DEF CodeExpires
    <2>2. codes' \in [Codes -> CodeRow]
          /\ \A d \in Codes: /\ codes'[d].live = codes[d].live
                             /\ codes'[d].owner = codes[d].owner
      BY <2>1, <1>t DEF TypeOK, CodeRow
    <2>3. \A t \in Sess: SessionOK(t)'
      BY <2>1, <2>2, <1>r DEF SessionOK, Doing, stripeVars
    <2>4. \A t \in Sess: sess[t].op = "redeem" => codes'[sess[t].code].live
      BY <2>2, <1>r DEF SessionOK, Doing
    <2> QED BY <2>1, <2>2, <2>3, <2>4, <1>t DEF TypeInv, TypeOK, stripeVars
  <1>11. CASE UNCHANGED vars
    BY <1>11, <1>t, <1>r
       DEF TypeInv, TypeOK, SessionOK, Doing, vars, stripeVars, codeVars, ActiveCodes
  <1> QED BY <1>1, <1>2, <1>3, <1>4, <1>5, <1>6, <1>7, <1>8, <1>9, <1>10, <1>11
             DEF Next, StripeActs
-----------------------------------------------------------------------------
\* Grants follow deliveries.

LEMMA GrantInit == Init /\ TypeInv => GrantInv
  BY DEF Init, GrantInv

\* Neither the tables nor the sessions of the webhook change.
LEMMA GrantFrame ==
  ASSUME GrantInv, UNCHANGED stripeVars, StripeSame
  PROVE  GrantInv'
  <1>1. \A e: Holding(e)' = Holding(e) BY DEF StripeSame, Holding, Doing
  <1> QED BY <1>1 DEF GrantInv, EventOK, stripeVars

\* A new event that is not a checkout changes nothing that is counted.
LEMMA GrantSubscribes ==
  ASSUME TypeInv, GrantInv, NEW u \in Payers, NEW k \in {"created", "updated", "deleted"},
         NEW a, NEW b, Subscribes(u, k, a, b)
  PROVE  GrantInv'
  <1>1. PICK m \in BOOLEAN:
          issued' = issued \cup {[kind |-> k, user |-> u, co |-> None, meta |-> m]}
    BY DEF Subscribes
  <1> DEFINE n == [kind |-> k, user |-> u, co |-> None, meta |-> m]
  <1>2. n.kind # "checkout" /\ n.co = None OBVIOUS
  <1> HIDE DEF n
  <1>3. issued' = issued \cup {n} BY <1>1 DEF n
  <1>4. \A e: Holding(e)' = Holding(e) BY DEF Subscribes, Holding, Doing
  <1>5. n.co \notin Checkouts BY <1>2, BillingAssumption
  <1>6. grants' = grants /\ acked' = acked /\ dups' = dups BY DEF Subscribes
  <1>7. \A e \in issued': EventOK(e)' BY <1>2, <1>3 DEF GrantInv, EventOK
  <1>8. \A e, f \in issued': e.co \in Checkouts /\ e.co = f.co => e = f
    BY <1>3, <1>5 DEF GrantInv
  <1>9. \A e \in issued': e.kind = "checkout" =>
           grants'[e.co] + Cardinality(Holding(e)') <= 1 + dups'[e.user]
    BY <1>2, <1>3, <1>4, <1>6 DEF GrantInv
  <1> QED BY <1>6, <1>7, <1>8, <1>9 DEF GrantInv

LEMMA GrantStep == TypeInv /\ GrantInv /\ [Next]_vars => GrantInv'
  <1> SUFFICES ASSUME TypeInv, GrantInv, [Next]_vars PROVE GrantInv' OBVIOUS
  <1>t. TypeOK BY DEF TypeInv
  <1>1. ASSUME NEW u \in Payers, NEW c \in Checkouts, Pay(u, c) PROVE GrantInv'
    <2> DEFINE n == [kind |-> "checkout", user |-> u, co |-> c, meta |-> TRUE]
    <2>1. n.kind = "checkout" /\ n.co = c /\ n.user = u /\ issued' = issued \cup {n}
      BY <1>1 DEF Pay
    <2> HIDE DEF n
    <2>2. /\ \A e \in issued: e.co # c
          /\ grants' = grants /\ acked' = acked /\ dups' = dups /\ sess' = sess
      BY <1>1 DEF Pay
    <2>3. \A e: Holding(e)' = Holding(e) BY <2>2 DEF Holding, Doing
    <2>4. grants[c] = 0
      BY <2>2, <1>t DEF GrantInv, TypeOK
    <2>5. Holding(n) = {}
      <3>1. \A s \in Holding(n): n \in issued
        BY DEF Holding, TypeInv, SessionOK
      <3> QED BY <3>1, <2>1, <2>2
    <2>6. Cardinality(Holding(n)) = 0 BY <2>5, FS_EmptySet
    <2>7. dups[u] \in Nat BY <1>t, BillingAssumption DEF TypeOK
    <2>8. \A e \in issued': EventOK(e)' BY <2>1 DEF GrantInv, EventOK
    <2>9. \A e, f \in issued': e.co \in Checkouts /\ e.co = f.co => e = f
      BY <2>1, <2>2 DEF GrantInv
    <2>10. \A e \in issued': e.kind = "checkout" =>
             grants'[e.co] + Cardinality(Holding(e)') <= 1 + dups'[e.user]
      BY <2>1, <2>2, <2>3, <2>4, <2>6, <2>7 DEF GrantInv
    <2> QED BY <2>2, <2>8, <2>9, <2>10 DEF GrantInv
  <1>2. ASSUME NEW u \in Payers, Subscribe(u) \/ EndSubscription(u) \/ ChangeSubscription(u)
        PROVE GrantInv'
    BY <1>2, GrantSubscribes
       DEF Subscribe, EndSubscription, ChangeSubscription, Subscription
  <1>3. ASSUME NEW s \in Sess, NEW e \in issued, Deliver(s, e) PROVE GrantInv'
    <2> DEFINE x == IF Resolves(e) THEN users[e.user] ELSE None
    <2>1. e \in Event /\ e.user \in Payers /\ x \in UserRow \cup {None}
      BY <1>t DEF TypeOK, Event
    <2>2. Changes(s, HandlerRec(e, x)) /\ sess[s].op = "idle"
      BY <1>3, <2>1, OpenTypes DEF Deliver, Changes, HandlerRec, Starts
    <2>3. /\ sess'[s].op = "stripe" /\ sess'[s].ev = e
          /\ \A t \in Sess \ {s}: sess'[t] = sess[t]
      BY <2>1, <2>2, SessionChange, OpenTypes
    <2>4. /\ grants' = grants /\ acked' = acked /\ issued' = issued
      BY <1>3 DEF Deliver
    <2>5. \A f: f # e => Holding(f)' = Holding(f)
      BY <2>2, <2>3 DEF Holding, Doing
    <2>6. Holding(e)' = Holding(e) \cup {s} /\ s \notin Holding(e)
      BY <2>2, <2>3 DEF Holding, Doing
    <2>7. Cardinality(Holding(e)') = Cardinality(Holding(e)) + 1
      BY <2>6, FS_AddElement, HoldersFinite
    <2>8. \A v \in Payers: /\ dups[v] \in Nat /\ dups'[v] \in Nat
                           /\ dups[v] <= dups'[v]
                           /\ (e \in acked \/ InHand(e)) /\ v = e.user
                                => dups'[v] = dups[v] + 1
      <3>1. \A v \in Payers: dups[v] \in Nat BY <1>t, BillingAssumption DEF TypeOK
      <3>2. CASE e \in acked \/ InHand(e)
        <4>1. dups' = [dups EXCEPT ![e.user] = @ + 1] BY <3>2, <1>3 DEF Deliver
        <4> QED BY <3>1, <3>2, <4>1, <1>t DEF TypeOK
      <3>3. CASE ~(e \in acked \/ InHand(e))
        <4>1. dups' = dups BY <3>3, <1>3 DEF Deliver
        <4> QED BY <3>1, <3>3, <4>1
      <3> QED BY <3>2, <3>3
    <2>9. e.kind = "checkout" =>
            grants[e.co] + Cardinality(Holding(e)') <= 1 + dups'[e.user]
      <3> SUFFICES ASSUME e.kind = "checkout"
                   PROVE  grants[e.co] + Cardinality(Holding(e)') <= 1 + dups'[e.user]
        OBVIOUS
      <3>1. grants[e.co] + Cardinality(Holding(e)) <= 1 + dups[e.user] BY DEF GrantInv
      <3>2. e.co \in Checkouts /\ grants[e.co] \in Nat
        BY <1>t DEF GrantInv, EventOK, TypeOK
      <3>3. CASE e \in acked \/ InHand(e)
        BY <3>1, <3>2, <3>3, <2>1, <2>7, <2>8, HoldersFinite
      <3>4. CASE ~(e \in acked \/ InHand(e))
        <4>1. grants[e.co] = 0
          <5>1. ASSUME grants[e.co] > 0 PROVE FALSE
            <6>1. PICK f \in acked: f.co = e.co BY <3>2, <5>1 DEF GrantInv
            <6>2. f = e BY <6>1, <3>2, <1>t DEF GrantInv, TypeOK
            <6> QED BY <6>1, <6>2, <3>4
          <5> QED BY <5>1, <3>2
        <4>2. Holding(e) = {} BY <3>4 DEF Holding, InHand
        <4>3. Cardinality(Holding(e)) = 0 BY <4>2, FS_EmptySet
        <4> QED BY <4>1, <4>3, <2>1, <2>7, <2>8
      <3> QED BY <3>3, <3>4
    <2>10. \A f \in issued: f.kind = "checkout" =>
             grants[f.co] + Cardinality(Holding(f)') <= 1 + dups'[f.user]
      <3>1. ASSUME NEW f \in issued, f # e, f.kind = "checkout"
            PROVE  grants[f.co] + Cardinality(Holding(f)') <= 1 + dups'[f.user]
        <4>1. grants[f.co] + Cardinality(Holding(f)) <= 1 + dups[f.user]
          BY <3>1 DEF GrantInv
        <4>2. f.user \in Payers /\ f.co \in Checkouts /\ grants[f.co] \in Nat
          BY <3>1, <1>t DEF TypeOK, Event, GrantInv, EventOK
        <4>3. Holding(f)' = Holding(f) /\ Cardinality(Holding(f)) \in Nat
          BY <2>5, <3>1, HoldersFinite
        <4> QED BY <4>1, <4>2, <4>3, <2>8
      <3> QED BY <3>1, <2>9
    <2> QED BY <2>4, <2>10 DEF GrantInv, EventOK
  <1>4. ASSUME NEW s \in Sess, HandlerCommit(s) PROVE GrantInv'
    <2>0. PICK e \in issued: e = sess[s].ev
      BY <1>4 DEF HandlerCommit, TypeInv, SessionOK
    <2> DEFINE g == Granted(e, sess[s].seen)
    <2>1. e \in issued /\ Doing(s, "stripe") BY <1>4 DEF HandlerCommit
    <2>2. Changes(s, Idle) BY <1>4, IdleType DEF HandlerCommit, Changes
    <2>3. sess'[s].op = "idle" /\ \A t \in Sess \ {s}: sess'[t] = sess[t]
      BY <2>2, SessionChange, IdleType
    <2>4. issued' = issued /\ dups' = dups /\ acked' = acked \cup {e}
      BY <1>4, <2>0 DEF HandlerCommit
    <2>5. g \in 0..1 BY DEF Granted
    <2>6. grants' = IF e.kind = "checkout" THEN [grants EXCEPT ![e.co] = @ + g] ELSE grants
      BY <1>4, <2>0 DEF HandlerCommit
    <2>7. \A f: f # e => Holding(f)' = Holding(f) BY <2>0, <2>3 DEF Holding, Doing
    <2>8. Holding(e)' = Holding(e) \ {s} /\ s \in Holding(e)
      BY <2>0, <2>1, <2>3 DEF Holding, Doing
    <2>9. Cardinality(Holding(e)') = Cardinality(Holding(e)) - 1
      BY <2>8, FS_RemoveElement, HoldersFinite
    <2> HIDE DEF g
    <2>10. ASSUME NEW f \in issued, f.kind = "checkout"
           PROVE  grants'[f.co] + Cardinality(Holding(f)') <= 1 + dups[f.user]
      <3>1. /\ grants[f.co] + Cardinality(Holding(f)) <= 1 + dups[f.user]
            /\ f.co \in Checkouts /\ f.user \in Payers
        BY <2>10, <1>t DEF GrantInv, EventOK, TypeOK, Event
      <3>2. grants[f.co] \in Nat /\ dups[f.user] \in Nat
        BY <3>1, <1>t, BillingAssumption DEF TypeOK
      <3>3. CASE f = e
        <4>1. grants'[f.co] = grants[f.co] + g
          BY <2>6, <2>10, <3>1, <3>3, <1>t DEF TypeOK
        <4> QED BY <4>1, <3>1, <3>2, <3>3, <2>5, <2>9, HoldersFinite
      <3>4. CASE f # e
        <4>1. e.kind = "checkout" => e.co # f.co
          BY <2>1, <3>1, <3>4 DEF GrantInv
        <4>2. grants'[f.co] = grants[f.co] BY <4>1, <2>6, <3>1, <1>t DEF TypeOK
        <4>3. Holding(f)' = Holding(f) BY <2>7, <3>4
        <4> QED BY <3>1, <4>2, <4>3
      <3> QED BY <3>3, <3>4
    <2>11. ASSUME NEW c \in Checkouts, grants'[c] > 0 PROVE \E f \in acked': f.co = c
      <3>1. CASE e.kind = "checkout" /\ e.co = c BY <3>1, <2>4
      <3>2. CASE ~(e.kind = "checkout" /\ e.co = c)
        <4>1. grants'[c] = grants[c] BY <3>2, <2>6, <1>t DEF TypeOK
        <4> QED BY <4>1, <2>4, <2>11 DEF GrantInv
      <3> QED BY <3>1, <3>2
    <2> QED BY <2>4, <2>10, <2>11 DEF GrantInv, EventOK
  <1>5. ASSUME NEW s \in Sess, HandlerFail(s) PROVE GrantInv'
    <2>1. Changes(s, Idle) /\ UNCHANGED stripeVars
      BY <1>5, IdleType DEF HandlerFail, Changes
    <2>2. sess'[s].op = "idle" /\ \A t \in Sess \ {s}: sess'[t] = sess[t]
      BY <2>1, SessionChange, IdleType
    <2>3. ASSUME NEW f PROVE Cardinality(Holding(f)') <= Cardinality(Holding(f))
      <3>1. Holding(f)' \in SUBSET Holding(f) BY <2>2 DEF Holding, Doing
      <3> QED BY <3>1, FS_Subset, HoldersFinite
    <2>4. ASSUME NEW f \in issued, f.kind = "checkout"
          PROVE  grants[f.co] + Cardinality(Holding(f)') <= 1 + dups[f.user]
      <3>1. /\ grants[f.co] + Cardinality(Holding(f)) <= 1 + dups[f.user]
            /\ f.co \in Checkouts /\ f.user \in Payers
        BY <2>4, <1>t DEF GrantInv, EventOK, TypeOK, Event
      <3>2. grants[f.co] \in Nat /\ dups[f.user] \in Nat
        BY <3>1, <1>t, BillingAssumption DEF TypeOK
      <3>3. Cardinality(Holding(f)') \in Nat /\ Cardinality(Holding(f)) \in Nat
        <4>1. Holding(f)' \in SUBSET Sess BY DEF Holding
        <4> QED BY <4>1, BillingAssumption, FS_Subset, FS_CardinalityType, HoldersFinite
      <3> QED BY <2>3, <3>1, <3>2, <3>3
    <2> QED BY <2>1, <2>4 DEF GrantInv, EventOK, stripeVars
  <1>6. CASE CodeStep BY <1>6, CodeStepFrame, GrantFrame
  <1>7. CASE UNCHANGED vars
    <2>1. UNCHANGED stripeVars /\ StripeSame
      BY <1>7 DEF vars, StripeSame, Doing
    <2> QED BY <2>1, GrantFrame
  <1> QED BY <1>1, <1>2, <1>3, <1>4, <1>5, <1>6, <1>7, TwoKinds DEF StripeStep, StripeActs
-----------------------------------------------------------------------------
\* The tier follows the subscription.

LEMMA PlanInit == Init /\ TypeInv => PlanInv
  <1> SUFFICES ASSUME Init, TypeInv PROVE PlanInv OBVIOUS
  <1>1. ASSUME NEW u \in Payers PROVE IssuedOK(u)
    BY DEF Init, IssuedOK, Issued, PlanEvents
  <1>2. ASSUME NEW u \in Payers PROVE Steady(u)
    <2>1. users[u].tier = "free" BY DEF Init
    <2>2. \A s \in Sess: HolderOK(s, u) BY DEF Init, HolderOK, PlanEvents
    <2> QED BY <2>1, <2>2 DEF Init, Steady, Answered
  <1> QED BY <1>1, <1>2 DEF PlanInv

LEMMA PlanFrame ==
  ASSUME PlanInv, UNCHANGED stripeVars, StripeSame
  PROVE  PlanInv'
  <1>1. ASSUME NEW u \in Payers PROVE IssuedOK(u)'
    <2>1. IssuedOK(u) BY DEF PlanInv
    <2> QED BY <2>1 DEF IssuedOK, Issued, PlanEvents, AboutPlan, stripeVars
  <1>2. ASSUME NEW u \in Payers \ tangled PROVE Steady(u)'
    <2>1. Steady(u) BY DEF PlanInv
    <2>2. PlanEvents(u)' = PlanEvents(u) BY DEF PlanEvents, AboutPlan, stripeVars
    <2>3. ASSUME NEW s \in Sess PROVE HolderOK(s, u)'
      <3>1. HolderOK(s, u) BY <2>1 DEF Steady
      <3>2. \A t \in Sess: /\ Doing(t, "stripe")' <=> Doing(t, "stripe")
                           /\ Doing(t, "stripe") => sess'[t] = sess[t]
        BY DEF StripeSame
      <3>3. Answered(u, "created")' <=> Answered(u, "created")
        BY DEF Answered, stripeVars
      <3> QED BY <3>1, <3>2, <3>3, <2>2 DEF HolderOK, stripeVars
    <2> QED BY <2>1, <2>3 DEF Steady, Answered, stripeVars
  <1> QED BY <1>1, <1>2 DEF PlanInv, stripeVars

\* Stripe issues an event n: no session holds it and none has answered it.  The tier
\* rests on what was answered, so only the account of what is issued is at stake.
LEMMA PlanIssues ==
  ASSUME TypeInv, PlanInv, NEW n \in Event, n \notin issued \/ ~AboutPlan(n),
         issued' = issued \cup {n},
         UNCHANGED <<users, acked, tangled, sess>>,
         AboutPlan(n) => ~Issued(n.user, n.kind),
         n.kind = "created" => ~Issued(n.user, "deleted"),
         \A u \in Payers: IssuedOK(u)'
  PROVE  PlanInv'
  <1>1. ASSUME NEW u \in Payers \ tangled PROVE Steady(u)'
    <2>1. Steady(u) BY DEF PlanInv
    <2>2. ASSUME NEW s \in Sess, Doing(s, "stripe"), sess[s].ev \in PlanEvents(u)'
          PROVE  sess[s].ev \in PlanEvents(u)
      BY <2>2 DEF PlanEvents, AboutPlan, TypeInv, SessionOK
    <2>3. ASSUME NEW s \in Sess PROVE HolderOK(s, u)'
      <3>1. HolderOK(s, u) BY <2>1 DEF Steady
      <3>2. Answered(u, "created")' <=> Answered(u, "created") BY DEF Answered
      <3> QED BY <3>1, <3>2, <2>2 DEF HolderOK, Doing
    <2> QED BY <2>1, <2>3 DEF Steady, Answered
  <1> QED BY <1>1 DEF PlanInv

LEMMA PlanSubscribes ==
  ASSUME TypeInv, PlanInv, NEW u \in Payers, NEW k \in {"created", "updated", "deleted"},
         NEW a, NEW b, Subscribes(u, k, a, b),
         \/ k = "created" /\ a = "none" /\ b = "active"
         \/ k = "deleted" /\ a = "active" /\ b = "ended"
         \/ k = "updated" /\ a = "active" /\ b = "active"
  PROVE  PlanInv'
  <1>1. PICK m \in BOOLEAN:
          issued' = issued \cup {[kind |-> k, user |-> u, co |-> None, meta |-> m]}
    BY DEF Subscribes
  <1> DEFINE n == [kind |-> k, user |-> u, co |-> None, meta |-> m]
  <1>2. n \in Event /\ n.kind = k /\ n.user = u BY DEF Event, Kinds
  <1> HIDE DEF n
  <1>3. issued' = issued \cup {n} BY <1>1 DEF n
  <1>4. \A v \in Payers: IssuedOK(v) BY DEF PlanInv
  <1>5. /\ subs[u] = a
        /\ \A v \in Payers: subs'[v] = IF v = u THEN b ELSE subs[v]
    BY DEF Subscribes, TypeInv, TypeOK
  <1>6. /\ \A v, j: Issued(v, j)' <=> Issued(v, j) \/ (v = u /\ j = k)
        /\ \A v \in Payers: PlanEvents(v)' \subseteq PlanEvents(v) \cup {n}
    BY <1>2, <1>3 DEF Issued, PlanEvents, AboutPlan
  <1>7. /\ AboutPlan(n) => ~Issued(u, k)
        /\ k = "created" => ~Issued(u, "deleted")
    BY <1>2, <1>4, <1>5 DEF IssuedOK, AboutPlan
  <1>8. ASSUME NEW v \in Payers PROVE IssuedOK(v)'
    <2>1. IssuedOK(v) /\ IssuedOK(u) BY <1>4
    <2>2. ASSUME NEW e \in PlanEvents(v)', NEW f \in PlanEvents(v)', e.kind = f.kind
          PROVE  e = f
      <3>1. e \in PlanEvents(v) \cup {n} /\ f \in PlanEvents(v) \cup {n} BY <1>6
      <3>2. CASE v = u
        <4>1. \A g \in PlanEvents(v)': g.kind = k /\ g # n => FALSE
          <5>1. ASSUME NEW g \in PlanEvents(v)', g.kind = k, g # n PROVE FALSE
            <6>1. g \in issued /\ g.user = u /\ AboutPlan(g)
              BY <5>1, <1>3, <3>2 DEF PlanEvents, AboutPlan
            <6>2. AboutPlan(n) BY <5>1, <6>1, <1>2 DEF AboutPlan
            <6> QED BY <6>1, <6>2, <5>1, <1>7 DEF Issued
          <5> QED BY <5>1
        <4> QED BY <4>1, <3>1, <2>1, <2>2, <1>2 DEF IssuedOK
      <3>3. CASE v # u
        <4>1. n \notin PlanEvents(v)' BY <3>3, <1>2 DEF PlanEvents
        <4> QED BY <4>1, <3>1, <2>1, <2>2 DEF IssuedOK
      <3> QED BY <3>2, <3>3
    <2>3. /\ subs'[v] = "active" <=> Issued(v, "created")' /\ ~Issued(v, "deleted")'
          /\ Issued(v, "deleted")' => Issued(v, "created")'
          /\ subs'[v] = "none" => ~Issued(v, "created")'
      BY <2>1, <1>5, <1>6 DEF IssuedOK
    <2> QED BY <2>2, <2>3 DEF IssuedOK
  <1>9. n \notin issued \/ ~AboutPlan(n) BY <1>2, <1>7 DEF Issued
  <1>10. UNCHANGED <<users, acked, tangled, sess>> BY DEF Subscribes
  <1> QED BY <1>2, <1>3, <1>7, <1>8, <1>9, <1>10, PlanIssues

LEMMA PlanStep == TypeInv /\ PlanInv /\ [Next]_vars => PlanInv'
  <1> SUFFICES ASSUME TypeInv, PlanInv, [Next]_vars PROVE PlanInv' OBVIOUS
  <1>t. TypeOK BY DEF TypeInv
  <1>i. \A v \in Payers: IssuedOK(v) BY DEF PlanInv
  <1>1. ASSUME NEW u \in Payers, NEW c \in Checkouts, Pay(u, c) PROVE PlanInv'
    <2> DEFINE n == [kind |-> "checkout", user |-> u, co |-> c, meta |-> TRUE]
    <2>1. n \in Event /\ n.kind = "checkout" /\ issued' = issued \cup {n}
      BY <1>1 DEF Pay, Event, Kinds
    <2> HIDE DEF n
    <2>2. ~AboutPlan(n) BY <2>1 DEF AboutPlan
    <2>3. UNCHANGED <<users, acked, tangled, sess, subs>> BY <1>1 DEF Pay
    <2>4. ASSUME NEW v \in Payers PROVE IssuedOK(v)'
      <3>1. PlanEvents(v)' = PlanEvents(v) BY <2>1, <2>2 DEF PlanEvents, AboutPlan
      <3>2. /\ Issued(v, "created")' <=> Issued(v, "created")
            /\ Issued(v, "deleted")' <=> Issued(v, "deleted")
        BY <2>1 DEF Issued
      <3> QED BY <1>i, <2>3, <3>1, <3>2 DEF IssuedOK
    <2> QED BY <2>1, <2>2, <2>3, <2>4, PlanIssues
  <1>2. ASSUME NEW u \in Payers, Subscribe(u) \/ EndSubscription(u) \/ ChangeSubscription(u)
        PROVE PlanInv'
    BY <1>2, PlanSubscribes DEF Subscribe, EndSubscription, ChangeSubscription
  <1>3. ASSUME NEW s \in Sess, NEW e \in issued, Deliver(s, e) PROVE PlanInv'
    <2> DEFINE x == IF Resolves(e) THEN users[e.user] ELSE None
    <2>1. e \in Event /\ e.user \in Payers /\ x \in UserRow \cup {None}
      BY <1>t DEF TypeOK, Event
    <2>2. Changes(s, HandlerRec(e, x)) /\ sess[s].op = "idle"
      BY <1>3, <2>1, OpenTypes DEF Deliver, Changes, HandlerRec, Starts
    <2>3. /\ sess'[s].op = "stripe" /\ sess'[s].ev = e /\ sess'[s].seen = x
          /\ \A t \in Sess \ {s}: sess'[t] = sess[t]
      BY <2>1, <2>2, SessionChange, OpenTypes
    <2>4. UNCHANGED <<users, acked, issued, subs>> BY <1>3 DEF Deliver
    <2>5. ASSUME NEW v \in Payers PROVE IssuedOK(v)'
      BY <1>i, <2>4 DEF IssuedOK, Issued, PlanEvents, AboutPlan
    <2>6. ASSUME NEW u \in Payers \ tangled' PROVE Steady(u)'
      <3>1. Steady(u) /\ u \notin tangled
        <4>1. u \notin tangled BY <1>3, <2>6 DEF Deliver
        <4> QED BY <4>1 DEF PlanInv
      <3>2. PlanEvents(u)' = PlanEvents(u) BY <2>4 DEF PlanEvents, AboutPlan
      <3>3. \A k: Answered(u, k)' <=> Answered(u, k) BY <2>4 DEF Answered
      <3>4. CASE e \notin PlanEvents(u)
        <4>1. ASSUME NEW t \in Sess PROVE HolderOK(t, u)'
          <5>1. HolderOK(t, u) BY <3>1 DEF Steady
          <5>2. \A r \in Sess: Doing(r, "stripe")' /\ sess'[r].ev \in PlanEvents(u)
                                 => r # s /\ Doing(r, "stripe") /\ sess'[r] = sess[r]
            BY <2>3, <3>4 DEF Doing
          <5> QED BY <5>1, <5>2, <3>2, <3>3, <2>4 DEF HolderOK
        <4> QED BY <4>1, <3>1, <3>3, <2>4 DEF Steady
      <3>5. CASE e \in PlanEvents(u)
        <4>1. e.user = u /\ AboutPlan(e) BY <3>5 DEF PlanEvents
        <4>2. ~Tangles(e) /\ Resolves(e)
          BY <1>3, <2>6, <4>1 DEF Deliver
        <4>3. /\ e \notin acked /\ ~InHand(e)
              /\ \A f \in issued: AboutPlan(f) /\ f.user = u /\ f # e
                   => ~InHand(f) /\ ~(e.kind = "deleted" /\ f \notin acked)
          BY <4>1, <4>2 DEF Tangles
        <4>4. \A t \in Sess: ~(Doing(t, "stripe") /\ sess[t].ev \in PlanEvents(u))
          BY <4>3 DEF InHand, PlanEvents
        <4>5. x = users[u] /\ x \in UserRow /\ x # None
          BY <4>1, <4>2, <1>t, BillingAssumption DEF TypeOK
        <4>6. e.kind = "deleted" => Answered(u, "created")
          <5>1. SUFFICES ASSUME e.kind = "deleted" PROVE Answered(u, "created") OBVIOUS
          <5>2. Issued(u, "created")
            BY <5>1, <4>1, <1>i DEF Issued, IssuedOK
          <5>3. PICK f \in issued: f.user = u /\ f.kind = "created" BY <5>2 DEF Issued
          <5>4. f \in acked BY <4>3, <5>1, <5>3 DEF AboutPlan
          <5> QED BY <5>3, <5>4 DEF Answered
        <4>7. ASSUME NEW t \in Sess PROVE HolderOK(t, u)'
          <5>1. CASE t = s
            <6>1. \A r \in Sess: Doing(r, "stripe")' /\ sess'[r].ev \in PlanEvents(u)
                                   => r = s
              BY <2>3, <4>4 DEF Doing
            <6> QED BY <5>1, <6>1, <2>3, <2>4, <3>2, <3>3, <4>3, <4>5, <4>6 DEF HolderOK
          <5>2. CASE t # s
            <6>1. ~(Doing(t, "stripe")' /\ sess'[t].ev \in PlanEvents(u))
              BY <5>2, <2>3, <4>4 DEF Doing
            <6> QED BY <6>1, <3>2 DEF HolderOK
          <5> QED BY <5>1, <5>2
        <4> QED BY <4>7, <3>1, <3>3, <2>4 DEF Steady
      <3> QED BY <3>4, <3>5
    <2> QED BY <2>5, <2>6 DEF PlanInv
  <1>4. ASSUME NEW s \in Sess, HandlerCommit(s) PROVE PlanInv'
    <2>0. PICK e \in issued: e = sess[s].ev
      BY <1>4 DEF HandlerCommit, TypeInv, SessionOK
    <2>1. PICK seen \in UserRow \cup {None}: seen = sess[s].seen
      BY DEF TypeInv, SessRec
    <2>2. e \in Event /\ e.user \in Payers /\ Doing(s, "stripe")
      BY <1>4, <1>t DEF HandlerCommit, TypeOK, Event
    <2>3. Changes(s, Idle) BY <1>4, IdleType DEF HandlerCommit, Changes
    <2>4. sess'[s].op = "idle" /\ \A t \in Sess \ {s}: sess'[t] = sess[t]
      BY <2>3, SessionChange, IdleType
    <2>5. UNCHANGED <<issued, subs, tangled>> /\ acked' = acked \cup {e}
      BY <1>4, <2>0 DEF HandlerCommit
    <2>6. \A v \in Payers: users'[v] =
             IF seen # None /\ v = e.user
             THEN Merge(users[v], seen, After(e, seen)) ELSE users[v]
      BY <1>4, <2>0, <2>1, <1>t DEF HandlerCommit, TypeOK
    <2>7. ASSUME NEW v \in Payers PROVE IssuedOK(v)'
      BY <1>i, <2>5 DEF IssuedOK, Issued, PlanEvents, AboutPlan
    <2>8. ASSUME NEW u \in Payers \ tangled PROVE Steady(u)'
      <3>1. Steady(u) BY DEF PlanInv
      <3>2. PlanEvents(u)' = PlanEvents(u) BY <2>5 DEF PlanEvents, AboutPlan
      <3>3. \A t \in Sess: Doing(t, "stripe")' => /\ t # s /\ Doing(t, "stripe")
                                                  /\ sess'[t] = sess[t]
        BY <2>4 DEF Doing
      <3>4. users[u] \in UserRow /\ IssuedOK(u) BY <1>t, <1>i DEF TypeOK
      <3>5. CASE e \notin PlanEvents(u)
        <4>1. users'[u].tier = users[u].tier
          <5>1. CASE e.user = u /\ seen # None
            <6>1. ~AboutPlan(e) BY <3>5, <5>1 DEF PlanEvents
            <6> QED BY <6>1, <5>1, <2>1, <2>2, <2>6, <3>4, MergeType
          <5>2. CASE ~(e.user = u /\ seen # None) BY <5>2, <2>6
          <5> QED BY <5>1, <5>2
        <4>2. /\ Answered(u, "created")' <=> Answered(u, "created")
              /\ Answered(u, "deleted")' <=> Answered(u, "deleted")
          BY <3>5, <2>5 DEF Answered, PlanEvents, AboutPlan
        <4>3. ASSUME NEW t \in Sess PROVE HolderOK(t, u)'
          <5>1. HolderOK(t, u) BY <3>1 DEF Steady
          <5>2. Doing(t, "stripe")' /\ sess'[t].ev \in PlanEvents(u)
                  => sess'[t].ev # e
            BY <3>5
          <5> QED BY <5>1, <5>2, <4>1, <4>2, <3>2, <3>3, <2>5 DEF HolderOK
        <4> QED BY <4>1, <4>2, <4>3, <3>1 DEF Steady
      <3>6. CASE e \in PlanEvents(u)
        <4>1. e.user = u /\ AboutPlan(e) BY <3>6 DEF PlanEvents
        <4>2. HolderOK(s, u) BY <3>1 DEF Steady
        <4>3. /\ e \notin acked /\ seen # None /\ seen.tier = users[u].tier
              /\ e.kind = "deleted" => Answered(u, "created")
              /\ \A t \in Sess: Doing(t, "stripe") /\ sess[t].ev \in PlanEvents(u) => t = s
          BY <4>2, <3>6, <2>0, <2>1, <2>2 DEF HolderOK
        <4>4. users'[u].tier = "pro" <=> e.kind = "created"
          BY <4>1, <4>3, <2>1, <2>2, <2>6, <3>4, MergeType
        <4>5. e.kind = "created" => /\ Answered(u, "created")'
                                    /\ ~Answered(u, "deleted")
                                    /\ ~Answered(u, "deleted")'
          <5>1. SUFFICES ASSUME e.kind = "created"
                         PROVE  /\ Answered(u, "created")' /\ ~Answered(u, "deleted")
                                /\ ~Answered(u, "deleted")'
            OBVIOUS
          <5>2. ~Answered(u, "created")
            <6>1. ASSUME NEW f \in acked, f.user = u, f.kind = "created" PROVE FALSE
              <7>1. f \in PlanEvents(u) BY <6>1, <1>t DEF TypeOK, PlanEvents, AboutPlan
              <7> QED BY <7>1, <6>1, <5>1, <3>4, <3>6, <4>3 DEF IssuedOK
            <6> QED BY <6>1 DEF Answered
          <5>3. ~Answered(u, "deleted") BY <5>2, <3>1 DEF Steady
          <5> QED BY <5>1, <5>3, <4>1, <2>5 DEF Answered
        <4>6. e.kind = "deleted" => Answered(u, "deleted")' /\ Answered(u, "created")'
          BY <4>1, <4>3, <2>5 DEF Answered
        <4>7. e.kind \in {"created", "deleted"} BY <4>1 DEF AboutPlan
        <4>8. \A t \in Sess: HolderOK(t, u)'
          BY <4>3, <3>2, <3>3 DEF HolderOK
        <4> QED BY <4>4, <4>5, <4>6, <4>7, <4>8 DEF Steady
      <3> QED BY <3>5, <3>6
    <2> QED BY <2>5, <2>7, <2>8 DEF PlanInv
  <1>5. ASSUME NEW s \in Sess, HandlerFail(s) PROVE PlanInv'
    <2>1. Changes(s, Idle) /\ UNCHANGED stripeVars
      BY <1>5, IdleType DEF HandlerFail, Changes
    <2>2. sess'[s].op = "idle" /\ \A t \in Sess \ {s}: sess'[t] = sess[t]
      BY <2>1, SessionChange, IdleType
    <2>3. \A t \in Sess: Doing(t, "stripe")' => Doing(t, "stripe") /\ sess'[t] = sess[t]
      BY <2>2 DEF Doing
    <2>4. ASSUME NEW v \in Payers PROVE IssuedOK(v)'
      BY <1>i, <2>1 DEF IssuedOK, Issued, PlanEvents, AboutPlan, stripeVars
    <2>5. ASSUME NEW u \in Payers \ tangled PROVE Steady(u)'
      <3>1. Steady(u) BY DEF PlanInv
      <3>2. PlanEvents(u)' = PlanEvents(u) BY <2>1 DEF PlanEvents, AboutPlan, stripeVars
      <3>3. \A k: Answered(u, k)' <=> Answered(u, k) BY <2>1 DEF Answered, stripeVars
      <3>4. ASSUME NEW t \in Sess PROVE HolderOK(t, u)'
        <4>1. HolderOK(t, u) BY <3>1 DEF Steady
        <4> QED BY <4>1, <3>2, <3>3, <2>1, <2>3 DEF HolderOK, stripeVars
      <3> QED BY <3>1, <3>3, <3>4, <2>1 DEF Steady, stripeVars
    <2> QED BY <2>1, <2>4, <2>5 DEF PlanInv, stripeVars
  <1>6. CASE CodeStep BY <1>6, CodeStepFrame, PlanFrame
  <1>7. CASE UNCHANGED vars
    <2>1. UNCHANGED stripeVars /\ StripeSame
      BY <1>7 DEF vars, StripeSame, Doing
    <2> QED BY <2>1, PlanFrame
  <1> QED BY <1>1, <1>2, <1>3, <1>4, <1>5, <1>6, <1>7, TwoKinds DEF StripeStep, StripeActs
-----------------------------------------------------------------------------
\* Codes of one owner.

LEMMA CreateInit == Init /\ TypeInv => CreateInv
  <1> SUFFICES ASSUME Init, TypeInv, NEW u \in Users
               PROVE  /\ IsFiniteSet(ActiveCodes(u))
                      /\ Cardinality(ActiveCodes(u)) + Cardinality(Creating(u))
                           <= Cardinality(Sess)
    BY DEF CreateInv
  <1>1. ActiveCodes(u) = {} BY IdleType DEF Init, ActiveCodes
  <1> QED BY <1>1, FS_EmptySet, HoldersFinite

\* No code is created, and no session begins to create one.
LEMMA CreateFrame ==
  ASSUME TypeInv, CreateInv, \A u \in Users: ActiveCodes(u)' = ActiveCodes(u),
         \A u \in Users: Creating(u)' \in SUBSET Creating(u)
  PROVE  CreateInv'
  <1> SUFFICES ASSUME NEW u \in Users
               PROVE  /\ IsFiniteSet(ActiveCodes(u)')
                      /\ Cardinality(ActiveCodes(u)') + Cardinality(Creating(u)')
                           <= Cardinality(Sess)
    BY DEF CreateInv
  <1>1. /\ Cardinality(Creating(u)') <= Cardinality(Creating(u))
        /\ Cardinality(Creating(u)') \in Nat
    BY HoldersFinite, FS_Subset, FS_CardinalityType
  <1>2. /\ IsFiniteSet(ActiveCodes(u)) /\ Cardinality(ActiveCodes(u)) \in Nat
        /\ Cardinality(ActiveCodes(u)) + Cardinality(Creating(u)) <= Cardinality(Sess)
    BY FS_CardinalityType DEF CreateInv
  <1> QED BY <1>1, <1>2, HoldersFinite

LEMMA CreateStep == TypeInv /\ CreateInv /\ [Next]_vars => CreateInv'
  <1> SUFFICES ASSUME TypeInv, CreateInv, [Next]_vars PROVE CreateInv' OBVIOUS
  <1>t. TypeOK BY DEF TypeInv
  <1>1. ASSUME NEW s \in Sess, NEW u \in Owners, CreateRead(s, u) PROVE CreateInv'
    <2>1. u \in Users /\ ActiveCodes(u) = {} /\ codes' = codes
      BY <1>1, BillingAssumption DEF CreateRead, codeVars
    <2>2. Changes(s, CreateRec(u)) BY <1>1, <2>1, OpenTypes DEF CreateRead, Changes, CreateRec
    <2>3. /\ sess'[s].op = "create" /\ sess'[s].user = u
          /\ \A t \in Sess \ {s}: sess'[t] = sess[t]
      BY <2>1, <2>2, SessionChange, OpenTypes
    <2>4. \A v: ActiveCodes(v)' = ActiveCodes(v) BY <2>1 DEF ActiveCodes
    <2>5. \A v: v # u => Creating(v)' \in SUBSET Creating(v)
      BY <2>3 DEF Creating, Doing
    <2>6. ASSUME NEW v \in Users
          PROVE  /\ IsFiniteSet(ActiveCodes(v)')
                 /\ Cardinality(ActiveCodes(v)') + Cardinality(Creating(v)')
                      <= Cardinality(Sess)
      <3>1. /\ IsFiniteSet(ActiveCodes(v)) /\ Cardinality(ActiveCodes(v)) \in Nat
            /\ Cardinality(ActiveCodes(v)) + Cardinality(Creating(v)) <= Cardinality(Sess)
        BY FS_CardinalityType DEF CreateInv
      <3>2. CASE v = u
        <4>1. Cardinality(ActiveCodes(v)') = 0 BY <2>1, <2>4, <3>2, FS_EmptySet
        <4>2. Creating(v)' \in SUBSET Sess BY DEF Creating
        <4>3. /\ Cardinality(Creating(v)') <= Cardinality(Sess)
              /\ Cardinality(Creating(v)') \in Nat
          BY <4>2, BillingAssumption, FS_Subset, FS_CardinalityType
        <4> QED BY <4>1, <4>3, <3>1, <2>4
      <3>3. CASE v # u
        <4>1. /\ Cardinality(Creating(v)') <= Cardinality(Creating(v))
              /\ Cardinality(Creating(v)') \in Nat
          BY <2>5, <3>3, HoldersFinite, FS_Subset, FS_CardinalityType
        <4> QED BY <4>1, <3>1, <2>4, HoldersFinite
      <3> QED BY <3>2, <3>3
    <2> QED BY <2>6 DEF CreateInv
  <1>2. ASSUME NEW s \in Sess, NEW c \in Codes, CreateCommit(s, c) PROVE CreateInv'
    <2>1. PICK u \in Users: u = sess[s].user /\ Doing(s, "create")
      BY <1>2 DEF CreateCommit, TypeInv, SessionOK
    <2>2. /\ codes' = [codes EXCEPT ![c] = [NoCode EXCEPT !.owner = u, !.live = TRUE]]
          /\ codes[c] = NoCode
      BY <1>2, <2>1 DEF CreateCommit
    <2>3. /\ codes'[c].owner = u /\ codes'[c].live
          /\ \A d \in Codes: d # c => codes'[d] = codes[d]
          /\ ~codes[c].live
      BY <2>2, IdleType, <1>t DEF TypeOK, NoCode
    <2>4. sess'[s].op = "idle" /\ \A t \in Sess \ {s}: sess'[t] = sess[t]
      <3>1. Changes(s, Idle) BY <1>2, IdleType DEF CreateCommit, Changes
      <3> QED BY <3>1, SessionChange, IdleType
    <2>5. /\ ActiveCodes(u)' = ActiveCodes(u) \cup {c} /\ c \notin ActiveCodes(u)
          /\ \A v: v # u => ActiveCodes(v)' = ActiveCodes(v)
      BY <2>3 DEF ActiveCodes
    <2>6. /\ Creating(u)' = Creating(u) \ {s} /\ s \in Creating(u)
          /\ \A v: v # u => Creating(v)' = Creating(v)
      BY <2>1, <2>4 DEF Creating, Doing
    <2>7. ASSUME NEW v \in Users
          PROVE  /\ IsFiniteSet(ActiveCodes(v)')
                 /\ Cardinality(ActiveCodes(v)') + Cardinality(Creating(v)')
                      <= Cardinality(Sess)
      <3>1. /\ IsFiniteSet(ActiveCodes(v)) /\ Cardinality(ActiveCodes(v)) \in Nat
            /\ Cardinality(ActiveCodes(v)) + Cardinality(Creating(v)) <= Cardinality(Sess)
        BY FS_CardinalityType DEF CreateInv
      <3>2. CASE v = u
        <4>1. /\ IsFiniteSet(ActiveCodes(v)')
              /\ Cardinality(ActiveCodes(v)') = Cardinality(ActiveCodes(v)) + 1
          BY <2>5, <3>1, <3>2, FS_AddElement
        <4>2. Cardinality(Creating(v)') = Cardinality(Creating(v)) - 1
          BY <2>6, <3>2, FS_RemoveElement, HoldersFinite
        <4> QED BY <4>1, <4>2, <3>1, HoldersFinite
      <3>3. CASE v # u BY <2>5, <2>6, <3>1, <3>3
      <3> QED BY <3>2, <3>3
    <2> QED BY <2>7 DEF CreateInv
  <1>3. ASSUME NEW s \in Sess,
               \/ \E u \in Users, c \in Codes: RedeemRead(s, u, c)
               \/ RedeemCommit(s)
               \/ ReferralAbort(s)
        PROVE  CreateInv'
    <2>1. ASSUME NEW t \in Sess, Doing(t, "create")'
          PROVE  Doing(t, "create") /\ sess'[t] = sess[t]
      <3>1. CASE \E u \in Users, c \in Codes: RedeemRead(s, u, c)
        <4>1. PICK u \in Users, c \in Codes: RedeemRead(s, u, c) BY <3>1
        <4>2. codes[c].uses \in Nat BY <1>t DEF TypeOK, CodeRow
        <4>3. Changes(s, RedeemRec(u, c, codes[c].uses))
          BY <4>1, <4>2, OpenTypes DEF RedeemRead, Changes, RedeemRec
        <4>4. sess'[s].op = "redeem" /\ \A r \in Sess \ {s}: sess'[r] = sess[r]
          BY <4>2, <4>3, SessionChange, OpenTypes
        <4> QED BY <2>1, <4>4 DEF Doing
      <3>2. CASE RedeemCommit(s) \/ ReferralAbort(s)
        <4>1. Changes(s, Idle) BY <3>2, IdleType DEF RedeemCommit, ReferralAbort, Changes
        <4>2. sess'[s].op = "idle" /\ \A r \in Sess \ {s}: sess'[r] = sess[r]
          BY <4>1, SessionChange, IdleType
        <4> QED BY <2>1, <4>2 DEF Doing
      <3> QED BY <1>3, <3>1, <3>2
    <2>2. \A v \in Users: Creating(v)' \in SUBSET Creating(v)
      BY <2>1 DEF Creating
    <2>3. \A d \in Codes: /\ codes'[d].live = codes[d].live
                          /\ codes'[d].owner = codes[d].owner
      <3>1. CASE RedeemCommit(s)
        <4>1. codes' = [codes EXCEPT ![sess[s].code].uses = sess[s].uses + 1]
          BY <3>1 DEF RedeemCommit
        <4> QED BY <4>1, <1>t DEF TypeOK, CodeRow
      <3>2. CASE UNCHANGED codes BY <3>2
      <3> QED BY <1>3, <3>1, <3>2 DEF RedeemRead, ReferralAbort, codeVars
    <2>4. \A v \in Users: ActiveCodes(v)' = ActiveCodes(v) BY <2>3 DEF ActiveCodes
    <2> QED BY <2>2, <2>4, CreateFrame
  <1>4. ASSUME NEW c \in Codes, CodeExpires(c) PROVE CreateInv'
    <2>1. \A d \in Codes: /\ codes'[d].live = codes[d].live
                          /\ codes'[d].owner = codes[d].owner
      BY <1>4, <1>t DEF CodeExpires, TypeOK, CodeRow
    <2>2. \A v \in Users: ActiveCodes(v)' = ActiveCodes(v) BY <2>1 DEF ActiveCodes
    <2>3. \A v \in Users: Creating(v)' \in SUBSET Creating(v)
      BY <1>4 DEF CodeExpires, Creating, Doing
    <2> QED BY <2>2, <2>3, CreateFrame
  <1>5. ASSUME codes' = codes, CodeSame PROVE CreateInv'
    <2>1. \A v \in Users: ActiveCodes(v)' = ActiveCodes(v) BY <1>5 DEF ActiveCodes
    <2>2. \A v \in Users: Creating(v)' \in SUBSET Creating(v)
      BY <1>5 DEF CodeSame, Creating, Doing
    <2> QED BY <2>1, <2>2, CreateFrame
  <1>6. CASE StripeStep BY <1>6, <1>5, StripeStepFrame DEF codeVars
  <1>7. CASE UNCHANGED vars
    BY <1>7, <1>5 DEF vars, codeVars, CodeSame, Doing
  <1> QED BY <1>1, <1>2, <1>3, <1>4, <1>6, <1>7, TwoKinds DEF CodeStep
-----------------------------------------------------------------------------
\* Redemptions of one code.

\* What RedeemInv says of one code.
RedeemOK(c) ==
    /\ IsFiniteSet(Redeemers(c))
    /\ codes[c].uses <= MaxUses /\ codes[c].uses <= Cardinality(Redeemers(c))
    /\ codes[c].uses = 0 => Redeemers(c) = {}
    /\ MaxUses = 1 =>
          Cardinality(Redeemers(c)) + Cardinality(Redeeming(c)) <= Cardinality(Sess)
    /\ codes[c].owner \notin Redeemers(c)
    /\ Redeemers(c) # {} => codes[c].live
    /\ \A s \in Redeeming(c): /\ sess[s].uses < MaxUses
                              /\ sess[s].uses <= Cardinality(Redeemers(c))

LEMMA RedeemInit == Init /\ TypeInv => RedeemInv
  <1> SUFFICES ASSUME Init, TypeInv, NEW c \in Codes PROVE RedeemOK(c)
    BY DEF RedeemInv, RedeemOK
  <1>1. Redeemers(c) = {} /\ codes[c] = NoCode BY DEF Init, Redeemers
  <1>2. Redeeming(c) = {} BY IdleType DEF Init, Redeeming, Doing
  <1> QED BY <1>1, <1>2, FS_EmptySet, HoldersFinite, IdleType, BillingAssumption
          DEF RedeemOK

\* Nothing of a code changes but its expiry, and no session begins to redeem it.
LEMMA RedeemFrame ==
  ASSUME TypeInv, RedeemInv, NEW c \in Codes,
         Redeemers(c)' = Redeemers(c), Redeeming(c)' \in SUBSET Redeeming(c),
         \A s \in Redeeming(c)': sess'[s] = sess[s],
         codes'[c].uses = codes[c].uses, codes'[c].live = codes[c].live,
         codes'[c].owner = codes[c].owner
  PROVE  RedeemOK(c)'
  <1>1. RedeemOK(c) BY DEF RedeemInv, RedeemOK
  <1>2. /\ Cardinality(Redeeming(c)') <= Cardinality(Redeeming(c))
        /\ Cardinality(Redeeming(c)') \in Nat
    BY HoldersFinite, FS_Subset, FS_CardinalityType
  <1>3. Cardinality(Redeemers(c)) \in Nat BY <1>1, FS_CardinalityType DEF RedeemOK
  <1>4. MaxUses = 1 => Cardinality(Redeemers(c)) + Cardinality(Redeeming(c)')
                         <= Cardinality(Sess)
    BY <1>1, <1>2, <1>3, HoldersFinite DEF RedeemOK
  <1> QED BY <1>1, <1>4 DEF RedeemOK

LEMMA RedeemStep == TypeInv /\ RedeemInv /\ [Next]_vars => RedeemInv'
  <1> SUFFICES ASSUME TypeInv, RedeemInv, [Next]_vars, NEW d \in Codes
               PROVE  RedeemOK(d)'
    BY DEF RedeemInv, RedeemOK
  <1>t. TypeOK BY DEF TypeInv
  <1>d. RedeemOK(d) BY DEF RedeemInv, RedeemOK
  <1>n. /\ Cardinality(Redeemers(d)) \in Nat /\ codes[d].uses \in Nat
        /\ codes[d].owner \in Users \cup {None}
    BY <1>d, <1>t, FS_CardinalityType DEF RedeemOK, TypeOK, CodeRow
  <1>1. ASSUME NEW s \in Sess, NEW u \in Users, NEW c \in Codes, RedeemRead(s, u, c)
        PROVE  RedeemOK(d)'
    <2>1. codes[c].uses \in Nat /\ codes[c].uses < MaxUses /\ codes' = codes
          /\ joined' = joined
      BY <1>1, <1>t DEF RedeemRead, TypeOK, CodeRow, codeVars
    <2>2. Changes(s, RedeemRec(u, c, codes[c].uses))
      BY <1>1, <2>1, OpenTypes DEF RedeemRead, Changes, RedeemRec
    <2>3. /\ sess'[s].op = "redeem" /\ sess'[s].code = c /\ sess'[s].uses = codes[c].uses
          /\ \A t \in Sess \ {s}: sess'[t] = sess[t]
      BY <2>1, <2>2, SessionChange, OpenTypes
    <2>4. Redeemers(d)' = Redeemers(d) BY <2>1 DEF Redeemers
    <2>5. CASE d # c
      <3>1. Redeeming(d)' \in SUBSET Redeeming(d) /\ \A t \in Redeeming(d)': sess'[t] = sess[t]
        BY <2>3, <2>5 DEF Redeeming, Doing
      <3> QED BY <3>1, <2>1, <2>4, RedeemFrame
    <2>6. CASE d = c
      <3>1. \A t \in Redeeming(d)': /\ sess'[t].uses < MaxUses
                                    /\ sess'[t].uses <= Cardinality(Redeemers(d))
        <4>1. ASSUME NEW t \in Redeeming(d)'
              PROVE  t = s \/ (t \in Redeeming(d) /\ sess'[t] = sess[t])
          BY <2>3, <4>1 DEF Redeeming, Doing
        <4> QED BY <4>1, <1>d, <2>1, <2>3, <2>6 DEF RedeemOK
      <3>2. MaxUses = 1 => Cardinality(Redeemers(d)) + Cardinality(Redeeming(d)')
                             <= Cardinality(Sess)
        <4>1. SUFFICES ASSUME MaxUses = 1
                       PROVE  Cardinality(Redeemers(d)) + Cardinality(Redeeming(d)')
                                <= Cardinality(Sess)
          OBVIOUS
        <4>2. codes[d].uses = 0 BY <4>1, <2>1, <2>6
        <4>3. Cardinality(Redeemers(d)) = 0 BY <4>2, <1>d, FS_EmptySet DEF RedeemOK
        <4>4. Redeeming(d)' \in SUBSET Sess BY DEF Redeeming
        <4>5. /\ Cardinality(Redeeming(d)') <= Cardinality(Sess)
              /\ Cardinality(Redeeming(d)') \in Nat
          BY <4>4, BillingAssumption, FS_Subset, FS_CardinalityType
        <4> QED BY <4>3, <4>5
      <3> QED BY <3>1, <3>2, <1>d, <2>1, <2>4 DEF RedeemOK
    <2> QED BY <2>5, <2>6
  <1>2. ASSUME NEW s \in Sess, RedeemCommit(s) PROVE RedeemOK(d)'
    <2>1. PICK c \in Codes, u \in Users: c = sess[s].code /\ u = sess[s].user
      BY <1>2 DEF RedeemCommit, TypeInv, SessionOK
    <2>2. PICK n \in Nat: n = sess[s].uses BY DEF TypeInv, SessRec
    <2>3. /\ <<c, u>> \notin joined /\ joined' = joined \cup {<<c, u>>}
          /\ codes' = [codes EXCEPT ![c].uses = n + 1] /\ Doing(s, "redeem")
      BY <1>2, <2>1, <2>2 DEF RedeemCommit
    <2>4. /\ codes[c].live /\ codes[c].owner # u
      BY <2>1, <2>3 DEF TypeInv, SessionOK
    <2>5. sess'[s].op = "idle" /\ \A t \in Sess \ {s}: sess'[t] = sess[t]
      <3>1. Changes(s, Idle) BY <1>2, IdleType DEF RedeemCommit, Changes
      <3> QED BY <3>1, SessionChange, IdleType
    <2>6. s \in Redeeming(c) BY <2>1, <2>3 DEF Redeeming
    <2>7. CASE d # c
      <3>1. Redeemers(d)' = Redeemers(d) BY <2>3, <2>7 DEF Redeemers
      <3>2. Redeeming(d)' \in SUBSET Redeeming(d) /\ \A t \in Redeeming(d)': sess'[t] = sess[t]
        BY <2>5, <2>7 DEF Redeeming, Doing
      <3>3. codes'[d] = codes[d] BY <2>3, <2>7, <1>t DEF TypeOK
      <3> QED BY <3>1, <3>2, <3>3, RedeemFrame
    <2>8. CASE d = c
      <3>1. Redeemers(d)' = Redeemers(d) \cup {u} /\ u \notin Redeemers(d)
        BY <2>3, <2>8 DEF Redeemers
      <3>2. /\ IsFiniteSet(Redeemers(d)')
            /\ Cardinality(Redeemers(d)') = Cardinality(Redeemers(d)) + 1
        BY <3>1, <1>d, FS_AddElement DEF RedeemOK
      <3>3. Redeeming(d)' = Redeeming(d) \ {s} /\ s \in Redeeming(d)
        BY <2>5, <2>6, <2>8 DEF Redeeming, Doing
      <3>4. Cardinality(Redeeming(d)') = Cardinality(Redeeming(d)) - 1
        BY <3>3, FS_RemoveElement, HoldersFinite
      <3>5. /\ codes'[d].uses = n + 1 /\ codes'[d].live = codes[d].live
            /\ codes'[d].owner = codes[d].owner
        BY <2>3, <2>8, <1>t DEF TypeOK, CodeRow
      <3>6. n < MaxUses /\ n <= Cardinality(Redeemers(d))
        BY <2>2, <2>6, <2>8, <1>d DEF RedeemOK
      <3>7. \A t \in Redeeming(d)': /\ sess'[t].uses < MaxUses
                                    /\ sess'[t].uses <= Cardinality(Redeemers(d)')
        <4>1. ASSUME NEW t \in Redeeming(d)'
              PROVE  t \in Redeeming(d) /\ sess'[t] = sess[t] /\ sess[t].uses \in Nat
          BY <4>1, <2>5, <3>3 DEF TypeInv, SessRec, Redeeming
        <4> QED BY <4>1, <1>d, <1>n, <3>2 DEF RedeemOK
      <3>8. /\ codes'[d].uses <= MaxUses /\ codes'[d].uses <= Cardinality(Redeemers(d)')
            /\ codes'[d].uses # 0
        BY <3>2, <3>5, <3>6, <1>n, BillingAssumption
      <3>9. MaxUses = 1 => Cardinality(Redeemers(d)') + Cardinality(Redeeming(d)')
                             <= Cardinality(Sess)
        BY <3>2, <3>4, <1>d, <1>n, HoldersFinite DEF RedeemOK
      <3>10. codes'[d].owner \notin Redeemers(d)' /\ codes'[d].live
        BY <3>1, <3>5, <2>4, <2>8, <1>d DEF RedeemOK
      <3> QED BY <3>2, <3>7, <3>8, <3>9, <3>10 DEF RedeemOK
    <2> QED BY <2>7, <2>8
  <1>3. ASSUME NEW s \in Sess, NEW c \in Codes, CreateCommit(s, c) PROVE RedeemOK(d)'
    <2>1. PICK u \in Users: u = sess[s].user /\ Doing(s, "create")
      BY <1>3 DEF CreateCommit, TypeInv, SessionOK
    <2>2. /\ codes' = [codes EXCEPT ![c] = [NoCode EXCEPT !.owner = u, !.live = TRUE]]
          /\ codes[c] = NoCode /\ joined' = joined
      BY <1>3, <2>1 DEF CreateCommit
    <2>3. sess'[s].op = "idle" /\ \A t \in Sess \ {s}: sess'[t] = sess[t]
      <3>1. Changes(s, Idle) BY <1>3, IdleType DEF CreateCommit, Changes
      <3> QED BY <3>1, SessionChange, IdleType
    <2>4. Redeemers(d)' = Redeemers(d) BY <2>2 DEF Redeemers
    <2>5. Redeeming(d)' \in SUBSET Redeeming(d) /\ \A t \in Redeeming(d)': sess'[t] = sess[t]
      BY <2>3 DEF Redeeming, Doing
    <2>6. CASE d # c
      <3>1. codes'[d] = codes[d] BY <2>2, <2>6, <1>t DEF TypeOK
      <3> QED BY <3>1, <2>4, <2>5, RedeemFrame
    <2>7. CASE d = c
      <3>1. codes'[d].uses = 0 /\ codes'[d].owner = u /\ codes'[d].live
        BY <2>2, <2>7, <1>t DEF TypeOK, NoCode
      <3>2. Redeemers(d) = {} BY <2>2, <2>7, IdleType, <1>d DEF RedeemOK
      <3>3. Cardinality(Redeeming(d)') <= Cardinality(Sess)
            /\ Cardinality(Redeeming(d)') \in Nat
        <4>1. Redeeming(d)' \in SUBSET Sess BY DEF Redeeming
        <4> QED BY <4>1, BillingAssumption, FS_Subset, FS_CardinalityType
      <3>4. \A t \in Redeeming(d)': /\ sess'[t].uses < MaxUses
                                    /\ sess'[t].uses <= Cardinality(Redeemers(d))
        BY <2>5, <1>d DEF RedeemOK
      <3> QED BY <2>4, <3>1, <3>2, <3>3, <3>4, FS_EmptySet, BillingAssumption DEF RedeemOK
    <2> QED BY <2>6, <2>7
  <1>4. ASSUME NEW s \in Sess, (\E u \in Owners: CreateRead(s, u)) \/ ReferralAbort(s)
        PROVE  RedeemOK(d)'
    <2>1. codes' = codes /\ joined' = joined
      BY <1>4 DEF CreateRead, ReferralAbort, codeVars
    <2>2. sess'[s].op # "redeem" /\ \A t \in Sess \ {s}: sess'[t] = sess[t]
      <3>1. ASSUME NEW u \in Owners, CreateRead(s, u)
            PROVE  sess'[s].op # "redeem" /\ \A t \in Sess \ {s}: sess'[t] = sess[t]
        <4>1. Changes(s, CreateRec(u)) /\ CreateRec(u).op = "create"
          BY <3>1, OpenTypes, BillingAssumption DEF CreateRead, Changes, CreateRec
        <4> QED BY <4>1, SessionChange
      <3>2. CASE ReferralAbort(s)
        <4>1. Changes(s, Idle) BY <3>2, IdleType DEF ReferralAbort, Changes
        <4> QED BY <4>1, SessionChange, IdleType
      <3> QED BY <1>4, <3>1, <3>2
    <2>3. Redeeming(d)' \in SUBSET Redeeming(d) /\ \A t \in Redeeming(d)': sess'[t] = sess[t]
      BY <2>2 DEF Redeeming, Doing
    <2>4. Redeemers(d)' = Redeemers(d) BY <2>1 DEF Redeemers
    <2> QED BY <2>1, <2>3, <2>4, RedeemFrame
  <1>5. ASSUME NEW c \in Codes, CodeExpires(c) PROVE RedeemOK(d)'
    <2>1. /\ codes'[d].uses = codes[d].uses /\ codes'[d].live = codes[d].live
          /\ codes'[d].owner = codes[d].owner
      BY <1>5, <1>t DEF CodeExpires, TypeOK, CodeRow
    <2>2. Redeeming(d)' = Redeeming(d) /\ sess' = sess /\ Redeemers(d)' = Redeemers(d)
      BY <1>5 DEF CodeExpires, Redeeming, Redeemers, Doing
    <2> QED BY <2>1, <2>2, RedeemFrame
  <1>6. ASSUME UNCHANGED codeVars, CodeSame PROVE RedeemOK(d)'
    <2>1. Redeeming(d)' \in SUBSET Redeeming(d) /\ \A t \in Redeeming(d)': sess'[t] = sess[t]
      BY <1>6 DEF CodeSame, Redeeming, Doing
    <2>2. Redeemers(d)' = Redeemers(d) BY <1>6 DEF Redeemers, codeVars
    <2> QED BY <1>6, <2>1, <2>2, RedeemFrame DEF codeVars
  <1>7. CASE StripeStep BY <1>7, <1>6, StripeStepFrame
  <1>8. CASE UNCHANGED vars BY <1>8, <1>6 DEF vars, CodeSame, Doing
  <1> QED BY <1>1, <1>2, <1>3, <1>4, <1>5, <1>7, <1>8, TwoKinds DEF CodeStep
-----------------------------------------------------------------------------
\* The inductive invariant, and what follows from it.

THEOREM Invariance == Spec => []IInv
  <1>1. Init => IInv
    BY TypeInit, GrantInit, PlanInit, CreateInit, RedeemInit DEF IInv
  <1>2. IInv /\ [Next]_vars => IInv'
    BY TypeStep, GrantStep, PlanStep, CreateStep, RedeemStep DEF IInv
  <1> QED BY <1>1, <1>2, PTL DEF Spec

\* However events and redemptions interleave, the rows keep their types, and a session
\* works on an event that was issued or a code that is active.
THEOREM BillingTypes == Spec => []TypeOK
  <1>1. IInv => TypeOK BY DEF IInv, TypeInv
  <1> QED BY <1>1, Invariance, PTL

\* stripe_webhook grants a checkout at most once per delivery, and only what was paid.
THEOREM GrantsSound == Spec => []GrantsFollowDeliveries
  <1>1. IInv => GrantsFollowDeliveries
    <2> SUFFICES ASSUME IInv PROVE GrantsFollowDeliveries OBVIOUS
    <2>1. ASSUME NEW e \in issued, e.kind = "checkout"
          PROVE  grants[e.co] <= 1 + dups[e.user]
      <3>1. /\ grants[e.co] + Cardinality(Holding(e)) <= 1 + dups[e.user]
            /\ e.co \in Checkouts /\ e.user \in Payers
        BY <2>1 DEF IInv, TypeInv, TypeOK, GrantInv, EventOK, Event
      <3>2. grants[e.co] \in Nat /\ dups[e.user] \in Nat
        BY <3>1, BillingAssumption DEF IInv, TypeInv, TypeOK
      <3> QED BY <3>1, <3>2, HoldersFinite
    <2> QED BY <2>1 DEF GrantsFollowDeliveries, IInv, GrantInv
  <1> QED BY <1>1, Invariance, PTL

\* Once all of a payer's subscription events are answered the tier is what Stripe says,
\* unless two of them met, came in the wrong order, came twice or found nobody.
THEOREM TierSound == Spec => []TierMatchesStripe
  <1>1. IInv => TierMatchesStripe
    <2> SUFFICES ASSUME IInv, NEW u \in Payers \ tangled, Quiet(u)
                 PROVE  users[u].tier = "pro" <=> subs[u] = "active"
      BY DEF TierMatchesStripe
    <2>1. Steady(u) /\ IssuedOK(u) BY DEF IInv, PlanInv
    <2>2. /\ Answered(u, "created") <=> Issued(u, "created")
          /\ Answered(u, "deleted") <=> Issued(u, "deleted")
      BY DEF Quiet, AboutPlan, Answered, Issued, IInv, TypeInv, TypeOK
    <2> QED BY <2>1, <2>2 DEF Steady, IssuedOK
  <1> QED BY <1>1, Invariance, PTL

\* create_referral_code: an owner never has more active codes than there are sessions
\* that can have passed its check together.
THEOREM ActiveCodesSound == Spec => []ActiveCodesBounded
  <1>1. IInv => ActiveCodesBounded
    <2> SUFFICES ASSUME IInv, NEW u \in Users
                 PROVE  Cardinality(ActiveCodes(u)) <= Cardinality(Sess)
      BY DEF ActiveCodesBounded
    <2>1. /\ IsFiniteSet(ActiveCodes(u))
          /\ Cardinality(ActiveCodes(u)) + Cardinality(Creating(u)) <= Cardinality(Sess)
      BY DEF IInv, CreateInv
    <2>2. Cardinality(ActiveCodes(u)) \in Nat BY <2>1, FS_CardinalityType
    <2> QED BY <2>1, <2>2, HoldersFinite
  <1> QED BY <1>1, Invariance, PTL

\* redeem_referral_code: the counter never passes the limit or the conversions, and a
\* single-use code is redeemed at most once per session that read it unused.
THEOREM RedemptionsSound == Spec => []RedemptionsBounded
  <1>1. IInv => RedemptionsBounded
    <2> SUFFICES ASSUME IInv, NEW c \in Codes
                 PROVE  /\ codes[c].uses <= MaxUses
                        /\ codes[c].uses <= Cardinality(Redeemers(c))
                        /\ MaxUses = 1 => Cardinality(Redeemers(c)) <= Cardinality(Sess)
                        /\ codes[c].owner \notin Redeemers(c)
      BY DEF RedemptionsBounded
    <2>1. RedeemOK(c) BY DEF IInv, RedeemInv, RedeemOK
    <2>2. Cardinality(Redeemers(c)) \in Nat BY <2>1, FS_CardinalityType DEF RedeemOK
    <2> QED BY <2>1, <2>2, HoldersFinite DEF RedeemOK
  <1> QED BY <1>1, Invariance, PTL

\* Without repeated deliveries no checkout is granted twice: the repetition alone is
\* what the missing event id costs.
THEOREM GrantedOnce ==
  ASSUME MaxDups = 0
  PROVE  Spec => [](\A e \in issued: e.kind = "checkout" => grants[e.co] <= 1)
  <1>1. IInv => \A e \in issued: e.kind = "checkout" => grants[e.co] <= 1
    <2> SUFFICES ASSUME IInv, NEW e \in issued, e.kind = "checkout"
                 PROVE  grants[e.co] <= 1
      OBVIOUS
    <2>1. /\ grants[e.co] + Cardinality(Holding(e)) <= 1 + dups[e.user]
          /\ e.co \in Checkouts /\ e.user \in Payers
      BY DEF IInv, TypeInv, TypeOK, GrantInv, EventOK, Event
    <2>2. grants[e.co] \in Nat /\ dups[e.user] = 0
      BY <2>1 DEF IInv, TypeInv, TypeOK
    <2> QED BY <2>1, <2>2, HoldersFinite
  <1> QED BY <1>1, Invariance, PTL
=============================================================================
