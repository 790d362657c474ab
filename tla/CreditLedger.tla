---------------------------- MODULE CreditLedger ----------------------------
(***************************************************************************)
(* The credit ledger of the marketplace: app/services/credits.py, with the *)
(* endpoints of app/api/credits.py that reach it.                          *)
(*                                                                         *)
(* credit_transactions is append-only: every operation reads sums over the *)
(* committed rows, decides, flushes new rows, and commits.  PostgreSQL runs*)
(* at READ COMMITTED and no statement of the code locks a row, so between  *)
(* a session's read and its commit any other session may commit.  An       *)
(* operation is therefore two steps: the read-and-flush step puts the rows *)
(* it decided on in pending[s]; Commit(s) installs them, Abort(s) (an      *)
(* exception, a crash, a handler that returns without committing) drops    *)
(* them; marketplace_search (app/api/marketplace.py) always ends that way. *)
(***************************************************************************)
EXTENDS Integers, Bags, FiniteSets, FiniteSetsExt, Functions

CONSTANTS
    Users,
    Sess,             \* database sessions that may be open at the same time
    MaxEarnPerDay,    \* MAX_EARN_PER_DAY
    Lifetime,         \* days an earned row lives (365 in the code)
    EarnAmounts,      \* awards the callers ask for (100, 50, 25, 10, 5)
    SpendAmounts,     \* prices (20 for an intro, 5 for a search)
    RefundAmounts,    \* 15, the part of a declined intro given back
    PurchaseAmounts,  \* credits bought in one checkout
    LastDay, MaxRows  \* bounds: days, and rows of the ledger

ASSUME LedgerAssumption ==
    /\ IsFiniteSet(Users) /\ IsFiniteSet(Sess) /\ Sess # {}
    /\ {MaxEarnPerDay, LastDay, MaxRows} \subseteq Nat
    /\ Lifetime \in Nat \ {0}
    /\ EarnAmounts \cup SpendAmounts \cup RefundAmounts \cup PurchaseAmounts
         \subseteq Nat \ {0}
    /\ \A amounts \in {EarnAmounts, SpendAmounts}:
         \E m \in amounts: \A a \in amounts: m >= a

VARIABLES
    ledger,   \* bag of committed rows: the order of rows is never read
    day,      \* today; midnight and expiry are the only times that matter
    pending   \* pending[s]: rows session s flushed and has not committed

vars == <<ledger, day, pending>>

Never == LastDay + Lifetime + 1  \* expires_at IS NULL

Row == [user: Users, kind: {"earned", "spent", "expired"}, amount: Int,
        reason: {"award", "refund", "purchase", "use", "credits_expired"},
        made: 0..LastDay, dies: 0..Never]

EarnedForTooLong(u, a, why) ==
    [user |-> u, kind |-> "earned", amount |-> a, reason |-> why,
     made |-> day, dies |-> day + 2 * Lifetime + 1]
Earned(u, a, why) == [user |-> u, kind |-> "earned", amount |-> a, reason |-> why,
                      made |-> day, dies |-> day + Lifetime]
Spent(u, a) == [user |-> u, kind |-> "spent", amount |-> -a, reason |-> "use",
                made |-> day, dies |-> Never]
Offset(u, a) == [user |-> u, kind |-> "expired", amount |-> -a,
                 reason |-> "credits_expired", made |-> day, dies |-> Never]

RowsOf(u) == {r \in BagToSet(ledger): r.user = u}
Worth == [r \in BagToSet(ledger) |-> r.amount * ledger[r]]
Total(rows) == SumFunctionOnSet(Worth, rows)
Live(r) == r.dies > day

GetBalanceEarnedOnly(u) == Total({r \in RowsOf(u): r.kind = "earned" /\ Live(r)})
GetBalance(u) == Total({r \in RowsOf(u): r.kind # "expired" /\ Live(r)})
EarnedToday(u) == Total({r \in RowsOf(u): /\ r.kind = "earned" /\ r.made = day
                                          /\ r.reason # "purchase"})

\* expire_stale_credits: what a sweep would offset for u now.
LapsedTotal(u) == Total({r \in RowsOf(u): r.kind = "earned" /\ ~Live(r)})
AlreadyExpired(u) == -Total({r \in RowsOf(u): r.kind = "expired"})
EffectiveBalance(u) == Total({r \in RowsOf(u): Live(r)})
ToExpireAgain(u) == Min({LapsedTotal(u), EffectiveBalance(u)})
ToExpire(u) == Min({LapsedTotal(u) - AlreadyExpired(u), EffectiveBalance(u)})

-----------------------------------------------------------------------------
Init ==
    /\ ledger = EmptyBag
    /\ day = 0
    /\ pending = [s \in Sess |-> {}]

Flush(s, rows) ==
    /\ pending[s] = {}
    /\ rows # {}
    /\ BagCardinality(ledger) + Cardinality(UNION {pending[t]: t \in Sess})
         + Cardinality(rows) <= MaxRows
    /\ pending' = [pending EXCEPT ![s] = rows]
    /\ UNCHANGED <<ledger, day>>

CheckAndSpendUnchecked(s, u, a) == Flush(s, {Spent(u, a)})
CheckAndSpend(s, u, a) ==
    /\ GetBalance(u) >= a
    /\ Flush(s, {Spent(u, a)})

EarnCreditsIgnoringToday(s, u, a) ==
    /\ a <= MaxEarnPerDay
    /\ Flush(s, {Earned(u, a, "award")})
EarnCredits(s, u, a) ==
    /\ EarnedToday(u) + a <= MaxEarnPerDay
    /\ Flush(s, {Earned(u, a, "award")})

RefundCredits(s, u, a) == Flush(s, {Earned(u, a, "refund")})

\* The daily limit on purchases never refuses one: it counts usage_logs rows with
\* action credit_purchase, which no handler and no middleware writes.
PurchaseCredits(s, u, a) == Flush(s, {Earned(u, a, "purchase")})

ExpireStaleCredits(s) ==
    Flush(s, {Offset(u, ToExpire(u)): u \in {v \in Users: ToExpire(v) > 0}})

Commit(s) ==
    /\ pending[s] # {}
    /\ ledger' = ledger (+) SetToBag(pending[s])
    /\ pending' = [pending EXCEPT ![s] = {}]
    /\ UNCHANGED day

Abort(s) ==
    /\ pending[s] # {}
    /\ pending' = [pending EXCEPT ![s] = {}]
    /\ UNCHANGED <<ledger, day>>

NextDay ==
    /\ day < LastDay
    /\ day' = day + 1
    /\ UNCHANGED <<ledger, pending>>

Next ==
    \/ NextDay
    \/ \E s \in Sess:
        \/ \E u \in Users:
            \/ \E a \in SpendAmounts: CheckAndSpend(s, u, a)
            \/ \E a \in EarnAmounts: EarnCredits(s, u, a)
            \/ \E a \in RefundAmounts: RefundCredits(s, u, a)
            \/ \E a \in PurchaseAmounts: PurchaseCredits(s, u, a)
        \/ ExpireStaleCredits(s)
        \/ Commit(s)
        \/ Abort(s)

Spec == Init /\ [][Next]_vars
-----------------------------------------------------------------------------
\* Everything u ever earned less everything u ever spent.
Equity(u) == Total({r \in RowsOf(u): r.kind # "expired"})
AwardedOn(u, d) == Total({r \in RowsOf(u): r.reason = "award" /\ r.made = d})
Rivals == Cardinality(Sess) - 1   \* sessions that may act on what one has read

\* The ledger holds credit rows, and a session's flushed rows are rows too.
TypeOK ==
    /\ BagToSet(ledger) \subseteq Row
    /\ \A s \in Sess: pending[s] \subseteq Row
    /\ day \in 0..LastDay

\* check_and_spend: however reads and commits interleave, a user overdraws by at
\* most one price per other open session; with one session nobody spends more than
\* was ever earned, whatever has expired in between.
OverdraftBounded ==
    \A u \in Users: Equity(u) >= -(Rivals * Max(SpendAmounts))

\* earn_credits: the awards of one day stay within the daily cap, give or take one
\* award per other open session that read the same total.
DailyCapBounded ==
    \A u \in Users, d \in 0..LastDay:
        AwardedOn(u, d) <= MaxEarnPerDay + Rivals * Max(EarnAmounts)

\* expire_stale_credits: sweeps offset a lapsed credit once (once per open session
\* when they overlap), however often they run and however late.
SweepsBounded ==
    \A u \in Users: AlreadyExpired(u) <= Cardinality(Sess) * LapsedTotal(u)

\* One session at a time, the ledger is a wallet: each commit credits one user or
\* debits one by an amount that is covered; sweeps and the calendar move nothing.
Wallet == INSTANCE Wallet WITH equity <- [u \in Users |-> Equity(u)]
ImplementsWallet == Wallet!Spec
=============================================================================
