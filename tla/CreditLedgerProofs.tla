-------------------------- MODULE CreditLedgerProofs --------------------------
(***************************************************************************)
(* Proofs about the credit ledger, for every number of users and sessions  *)
(* and all prices, awards, caps and lifetimes: what sessions that read the *)
(* same sums can overrun, and that one session at a time is a wallet.      *)
(***************************************************************************)
EXTENDS CreditLedger, SumTheorems

\* The rows that the sums of the ledger select.
Counted(u) == {r \in Row: r.user = u /\ r.kind # "expired"}
Spends(u) == {r \in Row: r.user = u /\ r.kind = "spent"}
Awards(u, d) == {r \in Row: r.user = u /\ r.reason = "award" /\ r.made = d}
Offsets(u) == {r \in Row: r.user = u /\ r.kind = "expired"}
LapsedBy(u, d) == {r \in Row: r.user = u /\ r.kind = "earned" /\ r.dies <= d}
OneUser(F) == \A r, q \in F: r.user = q.user

\* The sum of what a bag of rows, a set of flushed rows, and all open sessions hold of
\* the selected ones.
Booked(bag, F) == SumFunctionOnSet([r \in DOMAIN bag |-> r.amount * bag[r]], DOMAIN bag \cap F)
Part(rows, F) == SumFunctionOnSet([r \in rows |-> r.amount], rows \cap F)
Open(flushed, F) == SumFunctionOnSet([s \in Sess |-> Part(flushed[s], F)], Sess)

\* A row bears the sign of its kind; a price never lapses.
Signed(r) ==
    /\ r.kind = "earned" => r.amount > 0
    /\ r.kind # "earned" => r.amount < 0 /\ r.reason # "award"
    /\ r.kind = "spent" => r.dies = Never /\ -r.amount <= Max(SpendAmounts)
    /\ r.reason = "award" => r.amount <= Max(EarnAmounts)

BagOK(bag) ==
    /\ IsFiniteSet(DOMAIN bag)
    /\ bag \in [DOMAIN bag -> Nat \ {0}]
    /\ \A r \in DOMAIN bag: r \in Row /\ Signed(r)

\* A session has flushed one row per user; one row in all, unless it sweeps.
RowsOK(rows) ==
    /\ rows \subseteq Row
    /\ IsFiniteSet(rows)
    /\ \A r \in rows: Signed(r)
    /\ \A r, q \in rows: r = q \/ (r.user # q.user /\ r.kind = "expired")

PendingOK == DOMAIN pending = Sess /\ \A s \in Sess: RowsOK(pending[s])

OverdraftOK(u) ==
    Booked(ledger, Counted(u)) + Open(pending, Spends(u)) >= -(Rivals * Max(SpendAmounts))
DailyOK(u, d) ==
    Booked(ledger, Awards(u, d)) + Open(pending, Awards(u, d))
        <= MaxEarnPerDay + Rivals * Max(EarnAmounts)
SweepOK(u) ==
    LET lapsed == Booked(ledger, LapsedBy(u, day))
    IN  /\ \A s \in Sess: -Part(pending[s], Offsets(u)) <= lapsed
        /\ -Booked(ledger, Offsets(u)) - Open(pending, Offsets(u))
               <= Cardinality(Sess) * lapsed

\* The inductive invariant.
IInv ==
    /\ day \in 0..LastDay
    /\ BagOK(ledger)
    /\ PendingOK
    /\ \A u \in Users: OverdraftOK(u) /\ SweepOK(u)
    /\ \A u \in Users, d \in 0..LastDay: DailyOK(u, d)
-----------------------------------------------------------------------------
\* The constants.

LEMMA Highest ==
  /\ Max(SpendAmounts) \in Nat /\ \A a \in SpendAmounts: a <= Max(SpendAmounts)
  /\ Max(EarnAmounts) \in Nat /\ \A a \in EarnAmounts: a <= Max(EarnAmounts)
  <1>1. ASSUME NEW S \in SUBSET Nat, \E m \in S: \A a \in S: m >= a
        PROVE  Max(S) \in Nat /\ \A a \in S: a <= Max(S)
    <2>1. Max(S) \in S /\ \A a \in S: Max(S) >= a BY <1>1 DEF Max
    <2> QED BY <2>1
  <1> QED BY <1>1, LedgerAssumption

LEMMA SessionCount ==
  /\ IsFiniteSet(Sess) /\ Sess # {}
  /\ Cardinality(Sess) \in Nat /\ Rivals \in Nat /\ Cardinality(Sess) = Rivals + 1
  /\ \A s \in Sess: IsFiniteSet(Sess \ {s}) /\ Cardinality(Sess \ {s}) = Rivals
  <1>1. IsFiniteSet(Sess) /\ Sess # {} BY LedgerAssumption
  <1>2. Cardinality(Sess) \in Nat /\ Cardinality(Sess) # 0
    BY <1>1, FS_CardinalityType, FS_EmptySet
  <1>3. \A s \in Sess: IsFiniteSet(Sess \ {s}) /\ Cardinality(Sess \ {s}) = Cardinality(Sess) - 1
    BY <1>1, FS_RemoveElement
  <1> QED BY <1>1, <1>2, <1>3 DEF Rivals

-----------------------------------------------------------------------------
\* Sums over a bag of rows.

LEMMA WorthType ==
  ASSUME NEW bag, BagOK(bag), NEW r \in DOMAIN bag
  PROVE  /\ r.amount \in Int /\ bag[r] \in Nat \ {0} /\ r.amount * bag[r] \in Int
         /\ r.amount > 0 => r.amount * bag[r] > 0
         /\ r.amount < 0 => r.amount * bag[r] < 0
  <1>1. r.amount \in Int /\ bag[r] \in Nat \ {0} BY DEF BagOK, Row
  <1>2. \A a \in Int, n \in Nat \ {0}: /\ a * n \in Int
                                       /\ a > 0 => a * n > 0
                                       /\ a < 0 => a * n < 0
    OBVIOUS
  <1> QED BY <1>1, <1>2

LEMMA BookedType ==
  ASSUME NEW bag, BagOK(bag), NEW F
  PROVE  /\ Booked(bag, F) \in Int
         /\ (\A r \in DOMAIN bag \cap F: r.amount > 0) => Booked(bag, F) >= 0
         /\ (\A r \in DOMAIN bag \cap F: r.amount < 0) => Booked(bag, F) <= 0
  <1> DEFINE f == [r \in DOMAIN bag |-> r.amount * bag[r]]
             S == DOMAIN bag \cap F
  <1>1. IsFiniteSet(S) BY FS_Subset DEF BagOK
  <1>2. \A r \in S: /\ f[r] \in Int
                    /\ r.amount > 0 => f[r] > 0
                    /\ r.amount < 0 => f[r] < 0
    BY WorthType
  <1>3. SumFunctionOnSet(f, S) \in Int
    <2> HIDE DEF f, S
    <2> QED BY <1>1, <1>2, SumElements
  <1>4. ASSUME \A r \in S: r.amount > 0 PROVE SumFunctionOnSet(f, S) >= 0
    <2>1. \A r \in S: f[r] \in Nat BY <1>2, <1>4
    <2>2. SumFunctionOnSet(f, S) \in Nat
      <3> HIDE DEF f, S
      <3> QED BY <1>1, <2>1, SumNatural
    <2> QED BY <2>2
  <1>5. ASSUME \A r \in S: r.amount < 0 PROVE SumFunctionOnSet(f, S) <= 0
    <2>1. \A r \in S: f[r] \in Int /\ f[r] <= 0 BY <1>2, <1>5
    <2>2. SumFunctionOnSet(f, S) <= Cardinality(S) * 0
      <3> HIDE DEF f, S
      <3> QED BY <1>1, <2>1, SumBounded
    <2>3. Cardinality(S) * 0 = 0
      <3>1. Cardinality(S) \in Nat
        <4> HIDE DEF S
        <4> QED BY <1>1, FS_CardinalityType
      <3> HIDE DEF S
      <3> QED BY <3>1
    <2> HIDE DEF f, S
    <2> QED BY <1>3, <2>2, <2>3
  <1> QED BY <1>3, <1>4, <1>5 DEF Booked

\* Selecting more rows that were earned adds to the sum.
LEMMA BookedMore ==
  ASSUME NEW bag, BagOK(bag), NEW F, NEW G, DOMAIN bag \cap F \subseteq G,
         \A r \in DOMAIN bag \cap (G \ F): r.amount > 0
  PROVE  Booked(bag, F) <= Booked(bag, G)
  <1> DEFINE f == [r \in DOMAIN bag |-> r.amount * bag[r]]
             S == DOMAIN bag \cap F
             T == DOMAIN bag \cap G
  <1>1. IsFiniteSet(T) /\ S \in SUBSET T BY FS_Subset DEF BagOK
  <1>2. \A r \in DOMAIN bag: f[r] \in Int /\ (r.amount > 0 => f[r] > 0) BY WorthType
  <1>3. \A r \in T: f[r] \in Int BY <1>2
  <1>4. \A r \in S: f[r] \in Int /\ f[r] <= f[r] BY <1>2
  <1>5. \A r \in T \ S: 0 <= f[r] BY <1>2
  <1>6. SumFunctionOnSet(f, S) <= SumFunctionOnSet(f, T)
    <2> HIDE DEF f, S, T
    <2> QED BY <1>1, <1>3, <1>4, <1>5, SumMonotone
  <1> QED BY <1>6 DEF Booked

\* What the model writes Total is such a sum.
LEMMA TotalIsBooked ==
  ASSUME NEW F
  PROVE  Total(BagToSet(ledger) \cap F) = Booked(ledger, F)
  BY DEF Total, Worth, Booked, BagToSet

-----------------------------------------------------------------------------
\* Sums over flushed rows: of one user there is at most one.

LEMMA PartOfNone ==
  ASSUME NEW rows, NEW F, rows \cap F = {}
  PROVE  Part(rows, F) = 0
  BY SumEmpty DEF Part

LEMMA PartOfOne ==
  ASSUME NEW rows, NEW F, NEW r, rows \cap F = {r}, r.amount \in Int
  PROVE  Part(rows, F) = r.amount
  <1> DEFINE f == [q \in rows |-> q.amount]
  <1>1. r \in rows /\ f[r] = r.amount OBVIOUS
  <1>2. IsFiniteSet({r}) /\ {r} \ {r} = {} BY FS_Singleton
  <1>3. SumFunctionOnSet(f, {r}) = f[r] + SumFunctionOnSet(f, {r} \ {r})
    <2>1. \A x \in {r}: f[x] \in Int BY <1>1
    <2> HIDE DEF f
    <2> QED BY <1>2, <2>1, SumElements
  <1>4. SumFunctionOnSet(f, {}) = 0 BY SumEmpty
  <1>5. SumFunctionOnSet(f, {r}) = r.amount
    <2> HIDE DEF f
    <2> QED BY <1>1, <1>2, <1>3, <1>4
  <1> QED BY <1>5 DEF Part

LEMMA PartCases ==
  ASSUME NEW rows, RowsOK(rows), NEW F, OneUser(F)
  PROVE  \/ rows \cap F = {} /\ Part(rows, F) = 0
         \/ \E r \in rows: /\ rows \cap F = {r} /\ Part(rows, F) = r.amount
                           /\ r \in Row /\ Signed(r)
  <1> SUFFICES ASSUME rows \cap F # {}
               PROVE  \E r \in rows: /\ rows \cap F = {r} /\ Part(rows, F) = r.amount
                                     /\ r \in Row /\ Signed(r)
    BY PartOfNone
  <1>1. PICK r \in rows \cap F: TRUE OBVIOUS
  <1>2. r \in Row /\ Signed(r) /\ r.amount \in Int BY DEF RowsOK, Row
  <1>3. \A q \in rows \cap F: q = r BY DEF RowsOK, OneUser
  <1>4. rows \cap F = {r} BY <1>3
  <1> QED BY <1>2, <1>4, PartOfOne

LEMMA PartType ==
  ASSUME NEW rows, RowsOK(rows), NEW F, OneUser(F)
  PROVE  Part(rows, F) \in Int
  BY PartCases DEF Row

LEMMA Selections ==
  ASSUME NEW u, NEW d
  PROVE  /\ OneUser(Counted(u)) /\ OneUser(Spends(u)) /\ OneUser(Awards(u, d))
         /\ OneUser(Offsets(u)) /\ OneUser(LapsedBy(u, d))
  BY DEF OneUser, Counted, Spends, Awards, Offsets, LapsedBy
-----------------------------------------------------------------------------
\* Sums over the open sessions.

FlushedOK(flushed) == DOMAIN flushed = Sess /\ \A s \in Sess: RowsOK(flushed[s])

LEMMA OpenType ==
  ASSUME NEW flushed, FlushedOK(flushed), NEW F, OneUser(F)
  PROVE  Open(flushed, F) \in Int
  <1> DEFINE f == [s \in Sess |-> Part(flushed[s], F)]
  <1>1. \A s \in Sess: f[s] \in Int BY PartType DEF FlushedOK
  <1>2. SumFunctionOnSet(f, Sess) \in Int
    <2> HIDE DEF f
    <2> QED BY <1>1, SessionCount, SumElements
  <1> QED BY <1>2 DEF Open

LEMMA OpenUpdate ==
  ASSUME NEW flushed, FlushedOK(flushed), NEW F, OneUser(F), NEW s \in Sess, NEW rows,
         RowsOK(rows)
  PROVE  LET after == [flushed EXCEPT ![s] = rows]
         IN  /\ FlushedOK(after)
             /\ Open(after, F) = Open(flushed, F) - Part(flushed[s], F) + Part(rows, F)
  <1> DEFINE after == [flushed EXCEPT ![s] = rows]
             f == [t \in Sess |-> Part(flushed[t], F)]
             g == [t \in Sess |-> Part(after[t], F)]
  <1>1. FlushedOK(after) BY DEF FlushedOK
  <1>2. after[s] = rows /\ \A t \in Sess \ {s}: after[t] = flushed[t] BY DEF FlushedOK
  <1>3. \A t \in Sess: f[t] \in Int BY PartType DEF FlushedOK
  <1>4. g[s] = Part(rows, F) /\ g[s] \in Int BY <1>2, PartType
  <1>5. \A t \in Sess \ {s}: g[t] = f[t] BY <1>2
  <1>6. f[s] = Part(flushed[s], F) OBVIOUS
  <1>7. SumFunctionOnSet(g, Sess) = SumFunctionOnSet(f, Sess) - f[s] + g[s]
    <2> HIDE DEF f, g
    <2> QED BY <1>3, <1>4, <1>5, SessionCount, SumExcept
  <1>8. Open(after, F) = SumFunctionOnSet(g, Sess) /\ Open(flushed, F) = SumFunctionOnSet(f, Sess)
    BY DEF Open
  <1>9. Open(after, F) = Open(flushed, F) - Part(flushed[s], F) + Part(rows, F)
    <2> HIDE DEF f, g, after
    <2> QED BY <1>4, <1>6, <1>7, <1>8
  <1> QED BY <1>1, <1>9

\* The rivals of a session that has nothing flushed hold at most so much each.
LEMMA OpenBounded ==
  ASSUME NEW flushed, FlushedOK(flushed), NEW F, OneUser(F), NEW s \in Sess,
         flushed[s] = {}, NEW b \in Nat
  PROVE  /\ (\A t \in Sess: Part(flushed[t], F) <= b) => Open(flushed, F) <= Rivals * b
         /\ (\A t \in Sess: -Part(flushed[t], F) <= b) => -Open(flushed, F) <= Rivals * b
  <1> DEFINE f == [t \in Sess |-> Part(flushed[t], F)]
             g == [t \in Sess |-> -Part(flushed[t], F)]
             R == Sess \ {s}
  <1>1. \A t \in Sess: Part(flushed[t], F) \in Int BY PartType DEF FlushedOK
  <1>2. \A t \in Sess: f[t] \in Int /\ g[t] \in Int BY <1>1
  <1>3. f[s] = 0 /\ g[s] = 0 BY PartOfNone
  <1>4. IsFiniteSet(Sess) /\ IsFiniteSet(R) /\ Cardinality(R) = Rivals BY SessionCount
  <1>5. /\ SumFunctionOnSet(f, Sess) = f[s] + SumFunctionOnSet(f, R)
        /\ SumFunctionOnSet(g, Sess) = g[s] + SumFunctionOnSet(g, R)
        /\ SumFunctionOnSet(f, R) \in Int /\ SumFunctionOnSet(g, R) \in Int
    <2>1. \A t \in R: f[t] \in Int /\ g[t] \in Int BY <1>2
    <2> HIDE DEF f, g
    <2> QED BY <1>2, <1>4, <2>1, SumElements
  <1>6. ASSUME \A t \in Sess: Part(flushed[t], F) <= b
        PROVE  SumFunctionOnSet(f, R) <= Rivals * b
    <2>1. \A t \in R: f[t] \in Int /\ f[t] <= b BY <1>1, <1>6
    <2> HIDE DEF f, R
    <2> QED BY <1>4, <2>1, SumBounded
  <1>7. ASSUME \A t \in Sess: -Part(flushed[t], F) <= b
        PROVE  SumFunctionOnSet(g, R) <= Rivals * b
    <2>1. \A t \in R: g[t] \in Int /\ g[t] <= b BY <1>1, <1>7
    <2> HIDE DEF g, R
    <2> QED BY <1>4, <2>1, SumBounded
  <1>8. SumFunctionOnSet(g, R) = -SumFunctionOnSet(f, R)
    <2>1. \A t \in R: f[t] \in Int /\ g[t] = -f[t] BY <1>2
    <2> HIDE DEF f, g, R
    <2> QED BY <1>4, <2>1, SumOpposite
  <1>9. Open(flushed, F) = SumFunctionOnSet(f, R)
    <2>1. Open(flushed, F) = SumFunctionOnSet(f, Sess) BY DEF Open
    <2> HIDE DEF f, R
    <2> QED BY <1>3, <1>5, <2>1
  <1> HIDE DEF f, g, R
  <1> QED BY <1>6, <1>7, <1>8, <1>9

\* Installing what a session has flushed adds its part to every sum of one user.
Install(bag, rows) == bag (+) SetToBag(rows)

LEMMA InstallOK ==
  ASSUME NEW bag, BagOK(bag), NEW rows, RowsOK(rows)
  PROVE  BagOK(Install(bag, rows))
  <1> DEFINE new == Install(bag, rows)
  <1>1. DOMAIN new = DOMAIN bag \cup rows BY DEF Install, SetToBag, (+)
  <1>2. IsFiniteSet(DOMAIN new) BY <1>1, FS_Union DEF BagOK, RowsOK
  <1>3. new \in [DOMAIN new -> Nat \ {0}] BY DEF Install, SetToBag, (+), BagOK
  <1>4. \A r \in DOMAIN new: r \in Row /\ Signed(r) BY <1>1 DEF BagOK, RowsOK
  <1> HIDE DEF new
  <1> QED BY <1>2, <1>3, <1>4 DEF BagOK, new

LEMMA InstallBooked ==
  ASSUME NEW bag, BagOK(bag), NEW rows, RowsOK(rows), NEW F, OneUser(F)
  PROVE  Booked(Install(bag, rows), F) = Booked(bag, F) + Part(rows, F)
  <1> DEFINE new == Install(bag, rows)
             f == [r \in DOMAIN bag |-> r.amount * bag[r]]
             g == [r \in DOMAIN new |-> r.amount * new[r]]
             S == DOMAIN bag \cap F
             T == DOMAIN new \cap F
  <1>1. DOMAIN new = DOMAIN bag \cup rows BY DEF Install, SetToBag, (+)
  <1>2. \A r \in DOMAIN new: /\ r \notin rows => new[r] = bag[r]
                             /\ r \in rows => new[r] = (IF r \in DOMAIN bag THEN bag[r] ELSE 0) + 1
    BY DEF Install, SetToBag, (+), BagOK
  <1>3. BagOK(new) BY InstallOK
  <1>4. IsFiniteSet(S) /\ IsFiniteSet(T)
    <2>1. IsFiniteSet(DOMAIN bag) /\ IsFiniteSet(DOMAIN new) BY <1>3 DEF BagOK
    <2> QED BY <2>1, FS_Subset
  <1>5. \A r \in S: f[r] \in Int BY WorthType
  <1>6. \A r \in T: g[r] \in Int BY <1>3, WorthType
  <1>7. \A r \in S \ rows: r \in T /\ g[r] = f[r] BY <1>1, <1>2
  <1>8. CASE rows \cap F = {}
    <2>1. S = T /\ S \ rows = S BY <1>1, <1>8
    <2>2. SumFunctionOnSet(f, S) = SumFunctionOnSet(g, S)
      <3> HIDE DEF f, g, S, T
      <3> QED BY <1>4, <1>7, <2>1, SumEqual
    <2>3. Part(rows, F) = 0 BY <1>8, PartOfNone
    <2>4. SumFunctionOnSet(f, S) \in Int
      <3> HIDE DEF f, S
      <3> QED BY <1>4, <1>5, SumElements
    <2>5. Booked(bag, F) = SumFunctionOnSet(f, S) /\ Booked(new, F) = SumFunctionOnSet(g, T)
      BY DEF Booked
    <2> HIDE DEF f, g, S, T
    <2> QED BY <2>1, <2>2, <2>3, <2>4, <2>5
  <1>9. CASE rows \cap F # {}
    <2>1. PICK r \in rows: /\ rows \cap F = {r} /\ Part(rows, F) = r.amount
                           /\ r \in Row
      BY <1>9, PartCases
    <2>2. r.amount \in Int BY <2>1 DEF Row
    <2> DEFINE V == T \ {r}
    <2>3. r \in T /\ V = S \ {r} BY <1>1, <2>1
    <2>4. V = S \ rows BY <2>1, <2>3
    <2>5. IsFiniteSet(V) BY <1>4, FS_RemoveElement
    <2>6. SumFunctionOnSet(f, V) = SumFunctionOnSet(g, V)
      <3>1. \A q \in V: f[q] = g[q] BY <1>7, <2>4
      <3> HIDE DEF f, g, V
      <3> QED BY <2>5, <3>1, SumEqual
    <2>7. SumFunctionOnSet(g, T) = g[r] + SumFunctionOnSet(g, V)
      <3> HIDE DEF f, g, T, S
      <3> QED BY <1>4, <1>6, <2>3, SumElements
    <2>8. SumFunctionOnSet(f, V) \in Int
      <3>1. \A q \in V: f[q] \in Int BY <1>5, <2>3
      <3> HIDE DEF f, V
      <3> QED BY <2>5, <3>1, SumElements
    <2>9. SumFunctionOnSet(g, T) = SumFunctionOnSet(f, S) + r.amount
      <3>1. CASE r \in S
        <4>1. SumFunctionOnSet(f, S) = f[r] + SumFunctionOnSet(f, V)
          <5> HIDE DEF f, T, S
          <5> QED BY <1>4, <1>5, <2>3, <3>1, SumElements
        <4>2. f[r] \in Int /\ g[r] = f[r] + r.amount
          <5>1. bag[r] \in Nat /\ new[r] = bag[r] + 1 /\ r \in DOMAIN bag /\ r \in DOMAIN new
            BY <1>1, <1>2, <2>1, <3>1 DEF BagOK
          <5>2. \A a \in Int, n \in Nat: a * n \in Int /\ a * (n + 1) = a * n + a OBVIOUS
          <5>3. f[r] = r.amount * bag[r] /\ g[r] = r.amount * (bag[r] + 1) BY <5>1
          <5> HIDE DEF f, g
          <5> QED BY <2>2, <5>1, <5>2, <5>3
        <4> HIDE DEF f, g, S, T, V
        <4> QED BY <2>2, <2>6, <2>7, <2>8, <4>1, <4>2
      <3>2. CASE r \notin S
        <4>1. S = V BY <2>3, <3>2
        <4>2. g[r] = r.amount
          <5>1. new[r] = 1 /\ r \in DOMAIN new BY <1>1, <1>2, <2>1, <3>2
          <5>2. g[r] = r.amount * 1 BY <5>1
          <5> HIDE DEF g
          <5> QED BY <2>2, <5>2
        <4> HIDE DEF f, g, S, T, V
        <4> QED BY <2>2, <2>6, <2>7, <2>8, <4>1, <4>2
      <3> QED BY <3>1, <3>2
    <2>10. Booked(bag, F) = SumFunctionOnSet(f, S) /\ Booked(new, F) = SumFunctionOnSet(g, T)
      BY DEF Booked
    <2> HIDE DEF f, g, S, T
    <2> QED BY <2>1, <2>9, <2>10
  <1> QED BY <1>8, <1>9
-----------------------------------------------------------------------------
\* The sums that the operations read.

LEMMA PartSigns ==
  ASSUME NEW rows, RowsOK(rows), NEW u, NEW d
  PROVE  /\ Part(rows, Spends(u)) \in Int /\ Part(rows, Spends(u)) <= 0
         /\ -Part(rows, Spends(u)) <= Max(SpendAmounts)
         /\ Part(rows, Awards(u, d)) \in Int /\ Part(rows, Awards(u, d)) >= 0
         /\ Part(rows, Awards(u, d)) <= Max(EarnAmounts)
         /\ Part(rows, Offsets(u)) \in Int /\ Part(rows, Offsets(u)) <= 0
         /\ Part(rows, LapsedBy(u, d)) \in Int /\ Part(rows, LapsedBy(u, d)) >= 0
         /\ Part(rows, Counted(u)) \in Int
         /\ Part(rows, Spends(u)) <= Part(rows, Counted(u))
  <1>1. Part(rows, Spends(u)) \in Int /\ Part(rows, Spends(u)) <= 0
        /\ -Part(rows, Spends(u)) <= Max(SpendAmounts)
    <2>1. CASE Part(rows, Spends(u)) = 0 BY <2>1, Highest
    <2>2. CASE Part(rows, Spends(u)) # 0
      <3>1. PICK r \in rows: /\ rows \cap Spends(u) = {r} /\ Part(rows, Spends(u)) = r.amount
                             /\ r \in Row /\ Signed(r)
        BY <2>2, PartCases, Selections
      <3>2. r.kind = "spent" /\ r.amount \in Int BY <3>1 DEF Spends, Row
      <3> QED BY <3>1, <3>2 DEF Signed
    <2> QED BY <2>1, <2>2
  <1>2. Part(rows, Awards(u, d)) \in Int /\ Part(rows, Awards(u, d)) >= 0
        /\ Part(rows, Awards(u, d)) <= Max(EarnAmounts)
    <2>1. CASE Part(rows, Awards(u, d)) = 0 BY <2>1, Highest
    <2>2. CASE Part(rows, Awards(u, d)) # 0
      <3>1. PICK r \in rows: /\ rows \cap Awards(u, d) = {r} /\ Part(rows, Awards(u, d)) = r.amount
                             /\ r \in Row /\ Signed(r)
        BY <2>2, PartCases, Selections
      <3>2. r.reason = "award" /\ r.amount \in Int BY <3>1 DEF Awards, Row
      <3> QED BY <3>1, <3>2 DEF Signed
    <2> QED BY <2>1, <2>2
  <1>3. Part(rows, Offsets(u)) \in Int /\ Part(rows, Offsets(u)) <= 0
    <2>1. CASE Part(rows, Offsets(u)) = 0 BY <2>1, Highest
    <2>2. CASE Part(rows, Offsets(u)) # 0
      <3>1. PICK r \in rows: /\ rows \cap Offsets(u) = {r} /\ Part(rows, Offsets(u)) = r.amount
                             /\ r \in Row /\ Signed(r)
        BY <2>2, PartCases, Selections
      <3>2. r.kind = "expired" /\ r.amount \in Int BY <3>1 DEF Offsets, Row
      <3> QED BY <3>1, <3>2 DEF Signed
    <2> QED BY <2>1, <2>2
  <1>4. Part(rows, LapsedBy(u, d)) \in Int /\ Part(rows, LapsedBy(u, d)) >= 0
    <2>1. CASE Part(rows, LapsedBy(u, d)) = 0 BY <2>1, Highest
    <2>2. CASE Part(rows, LapsedBy(u, d)) # 0
      <3>1. PICK r \in rows: /\ rows \cap LapsedBy(u, d) = {r} /\ Part(rows, LapsedBy(u, d)) = r.amount
                             /\ r \in Row /\ Signed(r)
        BY <2>2, PartCases, Selections
      <3>2. r.kind = "earned" /\ r.amount \in Int BY <3>1 DEF LapsedBy, Row
      <3> QED BY <3>1, <3>2 DEF Signed
    <2> QED BY <2>1, <2>2
  <1>5. Part(rows, Counted(u)) \in Int /\ Part(rows, Spends(u)) <= Part(rows, Counted(u))
    <2>1. CASE rows \cap Counted(u) = {} /\ Part(rows, Counted(u)) = 0 BY <1>1, <2>1
    <2>2. CASE ~(rows \cap Counted(u) = {} /\ Part(rows, Counted(u)) = 0)
      <3>1. PICK r \in rows: /\ rows \cap Counted(u) = {r} /\ Part(rows, Counted(u)) = r.amount
                             /\ r \in Row /\ Signed(r)
        BY <2>2, PartCases, Selections
      <3>2. r.amount \in Int /\ r.user = u /\ r.kind \in {"earned", "spent"}
        BY <3>1 DEF Counted, Row
      <3>3. CASE r.kind = "earned" BY <1>1, <3>1, <3>2, <3>3 DEF Signed
      <3>4. CASE r.kind = "spent"
        <4>1. rows \cap Spends(u) = {r} BY <3>1, <3>2, <3>4 DEF Counted, Spends
        <4>2. Part(rows, Spends(u)) = r.amount BY <3>2, <4>1, PartOfOne
        <4> QED BY <3>1, <3>2, <4>2
      <3> QED BY <3>2, <3>3, <3>4
    <2> QED BY <2>1, <2>2
  <1> QED BY <1>1, <1>2, <1>3, <1>4, <1>5

LEMMA SumsRead ==
  ASSUME BagOK(ledger), day \in 0..LastDay, NEW u
  PROVE  /\ Equity(u) = Booked(ledger, Counted(u))
         /\ \A d \in 0..LastDay: AwardedOn(u, d) = Booked(ledger, Awards(u, d))
         /\ AlreadyExpired(u) = -Booked(ledger, Offsets(u))
         /\ LapsedTotal(u) = Booked(ledger, LapsedBy(u, day))
  <1> DEFINE B == BagToSet(ledger)
  <1> USE TotalIsBooked
  <1>1. B = DOMAIN ledger /\ \A r \in B: r \in Row BY DEF BagOK, BagToSet
  <1>2. {r \in RowsOf(u): r.kind # "expired"} = B \cap Counted(u)
    BY <1>1 DEF RowsOf, Counted
  <1>3. \A d: {r \in RowsOf(u): r.reason = "award" /\ r.made = d} = B \cap Awards(u, d)
    BY <1>1 DEF RowsOf, Awards
  <1>4. {r \in RowsOf(u): r.kind = "expired"} = B \cap Offsets(u)
    BY <1>1 DEF RowsOf, Offsets
  <1>5. {r \in RowsOf(u): r.kind = "earned" /\ ~Live(r)} = B \cap LapsedBy(u, day)
    <2>1. Never \in Int /\ \A r \in B: r.dies \in Int BY <1>1, LedgerAssumption DEF Row, Never
    <2>2. day \in Int BY LedgerAssumption
    <2>3. \A r \in B: ~Live(r) <=> r.dies <= day BY <2>1, <2>2 DEF Live
    <2> QED BY <1>1, <2>3 DEF RowsOf, LapsedBy
  <1> QED BY <1>2, <1>3, <1>4, <1>5 DEF Equity, AwardedOn, AlreadyExpired, LapsedTotal

\* A balance counts no more than the equity, today's awards no more than what was earned
\* today, and a sweep offsets no more than has lapsed and is not offset.
LEMMA ReadsCover ==
  ASSUME BagOK(ledger), day \in 0..LastDay, NEW u
  PROVE  /\ GetBalance(u) \in Int /\ GetBalance(u) <= Booked(ledger, Counted(u))
         /\ EarnedToday(u) \in Int /\ Booked(ledger, Awards(u, day)) <= EarnedToday(u)
         /\ ToExpire(u) \in Int
         /\ ToExpire(u) <= Booked(ledger, LapsedBy(u, day)) + Booked(ledger, Offsets(u))
  <1> DEFINE B == BagToSet(ledger)
             Balance == {r \in Row: r.user = u /\ r.kind # "expired" /\ Live(r)}
             Today == {r \in Row: /\ r.user = u /\ r.kind = "earned" /\ r.made = day
                                  /\ r.reason # "purchase"}
             Lively == {r \in Row: r.user = u /\ Live(r)}
  <1>1. B = DOMAIN ledger /\ \A r \in B: r \in Row /\ Signed(r) BY DEF BagOK, BagToSet
  <1>2. day \in Int /\ Never \in Int /\ Never > day /\ \A r \in B: r.dies \in Int
    BY <1>1, LedgerAssumption DEF Row, Never
  <1>3. GetBalance(u) = Booked(ledger, Balance)
    <2>1. {r \in RowsOf(u): r.kind # "expired" /\ Live(r)} = B \cap Balance
      BY <1>1 DEF RowsOf
    <2> HIDE DEF Balance
    <2> QED BY <2>1, TotalIsBooked DEF GetBalance
  <1>4. EarnedToday(u) = Booked(ledger, Today)
    <2>1. {r \in RowsOf(u): r.kind = "earned" /\ r.made = day /\ r.reason # "purchase"}
          = B \cap Today
      BY <1>1 DEF RowsOf
    <2> HIDE DEF Today
    <2> QED BY <2>1, TotalIsBooked DEF EarnedToday
  <1>5. EffectiveBalance(u) = Booked(ledger, Lively)
    <2>1. {r \in RowsOf(u): Live(r)} = B \cap Lively BY <1>1 DEF RowsOf
    <2> HIDE DEF Lively
    <2> QED BY <2>1, TotalIsBooked DEF EffectiveBalance
  <1>6. Booked(ledger, Balance) <= Booked(ledger, Counted(u))
    <2>1. B \cap Balance \subseteq Counted(u) BY DEF Counted
    <2>2. ASSUME NEW r \in B \cap (Counted(u) \ Balance) PROVE r.amount > 0
      <3>1. ~(r.dies > day) /\ r.kind # "expired" BY <1>1, <2>2 DEF Counted, Live
      <3>2. r.kind # "spent" BY <1>1, <1>2, <3>1 DEF Signed
      <3>3. r.kind = "earned" BY <1>1, <3>1, <3>2 DEF Row
      <3> QED BY <1>1, <3>3 DEF Signed
    <2> HIDE DEF Balance
    <2> QED BY <1>1, <2>1, <2>2, BookedMore
  <1>7. Booked(ledger, Awards(u, day)) <= Booked(ledger, Today)
    <2>1. B \cap Awards(u, day) \subseteq Today
      BY <1>1 DEF Awards, Signed
    <2>2. \A r \in B \cap (Today \ Awards(u, day)): r.amount > 0 BY <1>1 DEF Signed
    <2> HIDE DEF Today
    <2> QED BY <1>1, <2>1, <2>2, BookedMore
  <1>8. \A F: Booked(ledger, F) \in Int BY BookedType
  <1>9. LapsedTotal(u) - AlreadyExpired(u)
        = Booked(ledger, LapsedBy(u, day)) + Booked(ledger, Offsets(u))
    BY <1>8, SumsRead
  <1>10. \A a, b \in Int: Min({a, b}) \in Int /\ Min({a, b}) <= a
    <2> SUFFICES ASSUME NEW a \in Int, NEW b \in Int
                 PROVE  Min({a, b}) \in Int /\ Min({a, b}) <= a
      OBVIOUS
    <2>1. \E x \in {a, b}: \A y \in {a, b}: x <= y OBVIOUS
    <2>2. Min({a, b}) \in {a, b} /\ \A y \in {a, b}: Min({a, b}) <= y BY <2>1 DEF Min
    <2> QED BY <2>2
  <1>11. ToExpire(u) \in Int
         /\ ToExpire(u) <= Booked(ledger, LapsedBy(u, day)) + Booked(ledger, Offsets(u))
    <2> DEFINE a == LapsedTotal(u) - AlreadyExpired(u)
               b == EffectiveBalance(u)
    <2>1. a \in Int /\ b \in Int BY <1>5, <1>8, <1>9
    <2>2. ToExpire(u) = Min({a, b}) BY DEF ToExpire
    <2> HIDE DEF a, b
    <2>3. ToExpire(u) \in Int /\ ToExpire(u) <= a BY <1>10, <2>1, <2>2
    <2> QED BY <1>9, <2>3 DEF a
  <1> HIDE DEF Balance, Today
  <1> QED BY <1>3, <1>4, <1>6, <1>7, <1>8, <1>11
-----------------------------------------------------------------------------
\* A flush keeps the invariant when it is covered by what it read.

Covered(rows) ==
    /\ RowsOK(rows)
    /\ \A u \in Users:
         \/ Part(rows, Spends(u)) = 0
         \/ Booked(ledger, Counted(u)) + Part(rows, Spends(u)) >= 0
    /\ \A u \in Users, d \in 0..LastDay:
         \/ Part(rows, Awards(u, d)) = 0
         \/ Booked(ledger, Awards(u, d)) + Part(rows, Awards(u, d)) <= MaxEarnPerDay
    /\ \A u \in Users:
         \/ Part(rows, Offsets(u)) = 0
         \/ -Part(rows, Offsets(u))
              <= Booked(ledger, LapsedBy(u, day)) + Booked(ledger, Offsets(u))

LEMMA SignedSums ==
  ASSUME BagOK(ledger), NEW u, NEW d
  PROVE  /\ Booked(ledger, Counted(u)) \in Int /\ Booked(ledger, Awards(u, d)) \in Int
         /\ Booked(ledger, Offsets(u)) \in Int /\ Booked(ledger, Offsets(u)) <= 0
         /\ Booked(ledger, LapsedBy(u, d)) \in Nat
  <1>1. \A r \in DOMAIN ledger \cap Offsets(u): r.amount < 0 BY DEF BagOK, Offsets, Signed
  <1>2. \A r \in DOMAIN ledger \cap LapsedBy(u, d): r.amount > 0 BY DEF BagOK, LapsedBy, Signed
  <1> QED BY <1>1, <1>2, BookedType

LEMMA FlushKeeps ==
  ASSUME IInv, NEW s \in Sess, NEW rows, Flush(s, rows), Covered(rows)
  PROVE  IInv'
  <1>1. ledger' = ledger /\ day' = day /\ pending' = [pending EXCEPT ![s] = rows]
        /\ pending[s] = {}
    BY DEF Flush
  <1>2. FlushedOK(pending) /\ RowsOK(rows) BY DEF IInv, PendingOK, FlushedOK, Covered
  <1>3. BagOK(ledger) /\ day \in 0..LastDay BY DEF IInv
  <1>4. \A F: OneUser(F) => Open(pending', F) = Open(pending, F) + Part(rows, F)
                            /\ Open(pending, F) \in Int
    <2> SUFFICES ASSUME NEW F, OneUser(F)
                 PROVE  /\ Open(pending', F) = Open(pending, F) + Part(rows, F)
                        /\ Open(pending, F) \in Int
      OBVIOUS
    <2>1. Open(pending', F) = Open(pending, F) - Part(pending[s], F) + Part(rows, F)
      BY <1>1, <1>2, OpenUpdate
    <2>2. Part(pending[s], F) = 0 BY <1>1, PartOfNone
    <2>3. Open(pending, F) \in Int /\ Part(rows, F) \in Int BY <1>2, OpenType, PartType
    <2> QED BY <2>1, <2>2, <2>3
  <1>5. FlushedOK(pending')
    <2>1. OneUser({}) BY DEF OneUser
    <2> QED BY <1>1, <1>2, <2>1, OpenUpdate
  <1>6. \A t \in Sess: pending'[t] = IF t = s THEN rows ELSE pending[t]
    BY <1>1, <1>2 DEF FlushedOK
  <1>7. \A t \in Sess: RowsOK(pending[t]) BY <1>2 DEF FlushedOK
  <1>8. ASSUME NEW u \in Users PROVE OverdraftOK(u)'
    <2> DEFINE F == Spends(u)
               m == Max(SpendAmounts)
    <2>1. -Open(pending, F) <= Rivals * m
      <3>1. \A t \in Sess: -Part(pending[t], F) <= m BY <1>7, PartSigns
      <3>2. OneUser(F) BY Selections
      <3> HIDE DEF F, m
      <3> QED BY <1>1, <1>2, <3>1, <3>2, OpenBounded, Highest DEF m
    <2>2. Open(pending', F) = Open(pending, F) + Part(rows, F) /\ Open(pending, F) \in Int
      BY <1>4, Selections
    <2>3. Booked(ledger, Counted(u)) \in Int /\ Part(rows, F) \in Int
      BY <1>2, <1>3, SignedSums, PartSigns
    <2>4. Rivals * m \in Nat BY SessionCount, Highest
    <2>5. \/ Part(rows, F) = 0
          \/ Booked(ledger, Counted(u)) + Part(rows, F) >= 0
      BY DEF Covered
    <2>6. Booked(ledger, Counted(u)) + Open(pending, F) >= -(Rivals * m)
      BY DEF IInv, OverdraftOK
    <2>7. Booked(ledger, Counted(u)) + Open(pending', F) >= -(Rivals * m)
      <3> DEFINE k == Rivals * m
      <3> HIDE DEF F, k
      <3> QED BY <2>1, <2>2, <2>3, <2>4, <2>5, <2>6 DEF k
    <2> QED BY <1>1, <2>7 DEF OverdraftOK
  <1>9. ASSUME NEW u \in Users, NEW d \in 0..LastDay PROVE DailyOK(u, d)'
    <2> DEFINE F == Awards(u, d)
               m == Max(EarnAmounts)
    <2>1. Open(pending, F) <= Rivals * m
      <3>1. \A t \in Sess: Part(pending[t], F) <= m BY <1>7, PartSigns
      <3>2. OneUser(F) BY Selections
      <3> HIDE DEF F, m
      <3> QED BY <1>1, <1>2, <3>1, <3>2, OpenBounded, Highest DEF m
    <2>2. Open(pending', F) = Open(pending, F) + Part(rows, F) /\ Open(pending, F) \in Int
      BY <1>4, Selections
    <2>3. Booked(ledger, F) \in Int /\ Part(rows, F) \in Int
      BY <1>2, <1>3, SignedSums, PartSigns
    <2>4. Rivals * m \in Nat /\ MaxEarnPerDay \in Nat BY SessionCount, Highest, LedgerAssumption
    <2>5. \/ Part(rows, F) = 0
          \/ Booked(ledger, F) + Part(rows, F) <= MaxEarnPerDay
      BY DEF Covered
    <2>6. Booked(ledger, F) + Open(pending, F) <= MaxEarnPerDay + Rivals * m
      BY DEF IInv, DailyOK
    <2>7. Booked(ledger, F) + Open(pending', F) <= MaxEarnPerDay + Rivals * m
      <3> DEFINE k == Rivals * m
      <3> HIDE DEF F, k
      <3> QED BY <2>1, <2>2, <2>3, <2>4, <2>5, <2>6 DEF k
    <2> QED BY <1>1, <2>7 DEF DailyOK
  <1>10. ASSUME NEW u \in Users PROVE SweepOK(u)'
    <2> DEFINE F == Offsets(u)
               m == Booked(ledger, LapsedBy(u, day))
    <2>1. m \in Nat /\ Booked(ledger, F) \in Int /\ Booked(ledger, F) <= 0
      BY <1>3, SignedSums
    <2>2. \A t \in Sess: -Part(pending[t], F) <= m BY DEF IInv, SweepOK
    <2>3. -Booked(ledger, F) - Open(pending, F) <= Cardinality(Sess) * m
      BY DEF IInv, SweepOK
    <2>4. Part(rows, F) = 0 \/ -Part(rows, F) <= m + Booked(ledger, F)
      BY DEF Covered
    <2>5. Part(rows, F) \in Int BY <1>2, PartSigns
    <2>6. -Open(pending, F) <= Rivals * m
      <3>1. OneUser(F) BY Selections
      <3> HIDE DEF F, m
      <3> QED BY <1>1, <1>2, <2>1, <2>2, <3>1, OpenBounded
    <2>7. Open(pending', F) = Open(pending, F) + Part(rows, F) /\ Open(pending, F) \in Int
      BY <1>4, Selections
    <2>8. \A t \in Sess: -Part(pending'[t], F) <= m
      <3>1. -Part(rows, F) <= m
        <4> HIDE DEF F, m
        <4> QED BY <2>1, <2>4, <2>5
      <3> QED BY <1>6, <2>2, <3>1
    <2>9. Cardinality(Sess) * m = Rivals * m + m /\ Rivals * m \in Int
      <3> HIDE DEF m
      <3> QED BY <2>1, SessionCount
    <2>10. -Booked(ledger, F) - Open(pending', F) <= Cardinality(Sess) * m
      <3> DEFINE k == Rivals * m
      <3>1. k \in Int /\ Cardinality(Sess) * m = k + m BY <2>9
      <3>2. -Open(pending, F) <= k BY <2>6
      <3> HIDE DEF F, m, k
      <3> QED BY <2>1, <2>3, <2>4, <2>5, <2>7, <3>1, <3>2
    <2> QED BY <1>1, <2>8, <2>10 DEF SweepOK
  <1>11. PendingOK' BY <1>5 DEF PendingOK, FlushedOK
  <1> QED BY <1>1, <1>3, <1>8, <1>9, <1>10, <1>11 DEF IInv
-----------------------------------------------------------------------------
\* The operations are covered.

\* A single row of the named kind is all that its user's sums see.
LEMMA OneRow ==
  ASSUME NEW r \in Row, Signed(r)
  PROVE  /\ RowsOK({r})
         /\ \A F: Part({r}, F) = IF r \in F THEN r.amount ELSE 0
  <1>1. RowsOK({r}) BY FS_Singleton DEF RowsOK
  <1>2. ASSUME NEW F PROVE Part({r}, F) = IF r \in F THEN r.amount ELSE 0
    <2>1. CASE r \in F
      <3>1. {r} \cap F = {r} /\ r.amount \in Int BY <2>1 DEF Row
      <3> QED BY <2>1, <3>1, PartOfOne
    <2>2. CASE r \notin F
      <3>1. {r} \cap F = {} BY <2>2
      <3> QED BY <2>2, <3>1, PartOfNone
    <2> QED BY <2>1, <2>2
  <1> QED BY <1>1, <1>2

LEMMA SpendCovered ==
  ASSUME IInv, NEW u \in Users, NEW a \in SpendAmounts, GetBalance(u) >= a
  PROVE  Covered({Spent(u, a)})
  <1> DEFINE r == Spent(u, a)
  <1>1. a \in Nat \ {0} /\ a <= Max(SpendAmounts) BY Highest, LedgerAssumption
  <1>2. day \in 0..LastDay /\ BagOK(ledger) BY DEF IInv
  <1>3. Never \in 0..Never BY LedgerAssumption DEF Never
  <1>4. r \in Row /\ Signed(r) BY <1>1, <1>2, <1>3 DEF Spent, Row, Signed
  <1>5. r.user = u /\ r.kind = "spent" /\ r.reason = "use" /\ r.amount = -a BY DEF Spent
  <1>6. ASSUME NEW v \in Users, r \in Spends(v)
        PROVE  Booked(ledger, Counted(v)) + Part({r}, Spends(v)) >= 0
    <2>1. v = u BY <1>5, <1>6 DEF Spends
    <2>2. Part({r}, Spends(v)) = -a BY <1>4, <1>5, <1>6, OneRow
    <2>3. /\ GetBalance(u) \in Int /\ GetBalance(u) <= Booked(ledger, Counted(u))
          /\ Booked(ledger, Counted(u)) \in Int
      BY <1>2, ReadsCover, SignedSums
    <2> QED BY <1>1, <2>1, <2>2, <2>3
  <1>7. \A v, d: r \notin Awards(v, d) /\ r \notin Offsets(v) BY <1>5 DEF Awards, Offsets
  <1> HIDE DEF r
  <1> QED BY <1>4, <1>6, <1>7, OneRow DEF Covered, r

\* Awards, refunds and purchases; only an award counts towards the daily cap.
LEMMA EarnCovered ==
  ASSUME IInv, NEW u \in Users, NEW a \in Nat \ {0},
         NEW why \in {"award", "refund", "purchase"},
         why = "award" => a \in EarnAmounts /\ EarnedToday(u) + a <= MaxEarnPerDay
  PROVE  Covered({Earned(u, a, why)})
  <1> DEFINE r == Earned(u, a, why)
  <1>1. day \in 0..LastDay /\ BagOK(ledger) BY DEF IInv
  <1>2. day + Lifetime \in 0..Never BY <1>1, LedgerAssumption DEF Never
  <1>3. why = "award" => a <= Max(EarnAmounts) BY Highest
  <1>4. r \in Row /\ Signed(r) BY <1>1, <1>2, <1>3 DEF Earned, Row, Signed
  <1>5. r.user = u /\ r.kind = "earned" /\ r.reason = why /\ r.amount = a /\ r.made = day
    BY DEF Earned
  <1>6. ASSUME NEW v \in Users, NEW d \in 0..LastDay, r \in Awards(v, d)
        PROVE  Booked(ledger, Awards(v, d)) + Part({r}, Awards(v, d)) <= MaxEarnPerDay
    <2>1. v = u /\ d = day /\ why = "award" BY <1>5, <1>6 DEF Awards
    <2>2. Part({r}, Awards(v, d)) = a BY <1>4, <1>5, <1>6, OneRow
    <2>3. /\ EarnedToday(u) \in Int /\ Booked(ledger, Awards(u, day)) <= EarnedToday(u)
          /\ Booked(ledger, Awards(u, day)) \in Int /\ MaxEarnPerDay \in Int
      BY <1>1, ReadsCover, SignedSums, LedgerAssumption
    <2>4. EarnedToday(u) + a <= MaxEarnPerDay BY <2>1
    <2> QED BY <2>1, <2>2, <2>3, <2>4
  <1>7. \A v: r \notin Spends(v) /\ r \notin Offsets(v) BY <1>5 DEF Spends, Offsets
  <1> HIDE DEF r
  <1> QED BY <1>4, <1>6, <1>7, OneRow DEF Covered, r

LEMMA SweepCovered ==
  ASSUME IInv, NEW s \in Sess
  PROVE  Covered({Offset(u, ToExpire(u)): u \in {v \in Users: ToExpire(v) > 0}})
  <1> DEFINE V == {v \in Users: ToExpire(v) > 0}
             o(v) == Offset(v, ToExpire(v))
             rows == {o(v): v \in V}
  <1>1. day \in 0..LastDay /\ BagOK(ledger) BY DEF IInv
  <1>2. Never \in 0..Never BY LedgerAssumption DEF Never
  <1>3. \A v \in V: /\ o(v).user = v /\ o(v).kind = "expired" /\ o(v).amount = -ToExpire(v)
                    /\ o(v).reason = "credits_expired"
    BY DEF Offset
  <1>4. \A v \in V: ToExpire(v) \in Int /\ ToExpire(v) > 0 BY <1>1, ReadsCover
  <1>5. \A v \in V: o(v) \in Row /\ Signed(o(v))
    BY <1>1, <1>2, <1>4 DEF Offset, Row, Signed
  <1>6. IsFiniteSet(rows)
    <2> DEFINE f == [v \in V |-> o(v)]
    <2>1. IsFiniteSet(V) BY LedgerAssumption, FS_Subset
    <2>2. f \in Surjection(V, rows) BY DEF Surjection
    <2> HIDE DEF f, V, rows
    <2> QED BY <2>1, <2>2, FS_Surjection
  <1>7. RowsOK(rows)
    <2>1. \A r \in rows: r \in Row /\ Signed(r) /\ r.kind = "expired" BY <1>3, <1>5
    <2>2. \A r, q \in rows: r = q \/ r.user # q.user BY <1>3
    <2> HIDE DEF rows
    <2> QED BY <1>6, <2>1, <2>2 DEF RowsOK
  <1>8. \A v, d: rows \cap Spends(v) = {} /\ rows \cap Awards(v, d) = {}
    BY <1>3 DEF Spends, Awards
  <1>9. ASSUME NEW v \in Users, Part(rows, Offsets(v)) # 0
        PROVE  -Part(rows, Offsets(v))
                 <= Booked(ledger, LapsedBy(v, day)) + Booked(ledger, Offsets(v))
    <2>1. OneUser(Offsets(v)) BY Selections
    <2>2. PICK r \in rows: rows \cap Offsets(v) = {r} /\ Part(rows, Offsets(v)) = r.amount
      <3> HIDE DEF rows
      <3> QED BY <1>7, <1>9, <2>1, PartCases
    <2>3. r.user = v BY <2>2 DEF Offsets
    <2>4. v \in V /\ r.amount = -ToExpire(v) BY <1>3, <2>3
    <2>5. ToExpire(v) \in Int BY <1>4, <2>4
    <2>6. ToExpire(v) <= Booked(ledger, LapsedBy(v, day)) + Booked(ledger, Offsets(v))
      BY <1>1, ReadsCover
    <2>7. -Part(rows, Offsets(v)) = ToExpire(v)
      <3> HIDE DEF rows
      <3> QED BY <2>2, <2>4, <2>5
    <2> QED BY <2>6, <2>7
  <1>10. \A v, d: Part(rows, Spends(v)) = 0 /\ Part(rows, Awards(v, d)) = 0
    <2> HIDE DEF rows
    <2> QED BY <1>8, PartOfNone
  <1> HIDE DEF rows, V, o
  <1> QED BY <1>7, <1>9, <1>10 DEF Covered, rows, V, o

-----------------------------------------------------------------------------
\* The end of a session, committed or not, and the calendar.

LEMMA EndKeeps ==
  ASSUME IInv, NEW s \in Sess, Commit(s) \/ Abort(s)
  PROVE  IInv'
  <1> DEFINE p == pending[s]
             P(F) == Part(p, F)
  <1>1. /\ pending' = [pending EXCEPT ![s] = {}] /\ day' = day
        /\ ledger' = Install(ledger, p) \/ ledger' = ledger
    BY DEF Commit, Abort, Install
  <1>2. FlushedOK(pending) /\ RowsOK(p) BY DEF IInv, PendingOK, FlushedOK
  <1>3. BagOK(ledger) /\ BagOK(ledger') /\ day \in 0..LastDay
    BY <1>1, <1>2, InstallOK DEF IInv
  <1>4. RowsOK({}) BY FS_EmptySet DEF RowsOK
  <1>5. ASSUME NEW F, OneUser(F)
        PROVE  /\ Open(pending, F) \in Int /\ Booked(ledger, F) \in Int /\ P(F) \in Int
               /\ Open(pending', F) = Open(pending, F) - P(F)
               /\ \/ ledger' = ledger /\ Booked(ledger', F) = Booked(ledger, F)
                  \/ Booked(ledger', F) = Booked(ledger, F) + P(F)
    <2>1. Open(pending', F) = Open(pending, F) - P(F) + Part({}, F)
      BY <1>1, <1>2, <1>4, <1>5, OpenUpdate
    <2>2. Part({}, F) = 0 BY PartOfNone
    <2>3. Open(pending, F) \in Int /\ Booked(ledger, F) \in Int /\ P(F) \in Int
      BY <1>2, <1>3, <1>5, OpenType, BookedType, PartType
    <2>4. \/ ledger' = ledger
          \/ Booked(ledger', F) = Booked(ledger, F) + P(F)
      BY <1>1, <1>2, <1>3, <1>5, InstallBooked
    <2> HIDE DEF p, P
    <2> QED BY <2>1, <2>2, <2>3, <2>4
  <1>6. FlushedOK(pending')
    <2>1. OneUser({}) BY DEF OneUser
    <2> QED BY <1>1, <1>2, <1>4, <2>1, OpenUpdate
  <1>7. \A t \in Sess: pending'[t] = IF t = s THEN {} ELSE pending[t]
    BY <1>1, <1>2 DEF FlushedOK
  <1>8. ASSUME NEW u \in Users PROVE OverdraftOK(u)'
    <2> DEFINE C == Counted(u)
               F == Spends(u)
               k == -(Rivals * Max(SpendAmounts))
    <2>1. Booked(ledger, C) + Open(pending, F) >= k BY DEF IInv, OverdraftOK
    <2>2. P(F) <= P(C) /\ P(F) <= 0 BY <1>2, PartSigns
    <2>3. k \in Int BY SessionCount, Highest
    <2>4. /\ Open(pending, F) \in Int /\ P(F) \in Int
          /\ Open(pending', F) = Open(pending, F) - P(F)
          /\ Booked(ledger, C) \in Int /\ P(C) \in Int
          /\ \/ Booked(ledger', C) = Booked(ledger, C)
             \/ Booked(ledger', C) = Booked(ledger, C) + P(C)
      <3>1. OneUser(C) /\ OneUser(F) BY Selections
      <3> HIDE DEF C, F, P
      <3> QED BY <1>5, <3>1
    <2>5. Booked(ledger', C) + Open(pending', F) >= k
      <3> HIDE DEF C, F, P, k
      <3> QED BY <2>1, <2>2, <2>3, <2>4
    <2> QED BY <2>5 DEF OverdraftOK
  <1>9. ASSUME NEW u \in Users, NEW d \in 0..LastDay PROVE DailyOK(u, d)'
    <2> DEFINE F == Awards(u, d)
               k == MaxEarnPerDay + Rivals * Max(EarnAmounts)
    <2>1. Booked(ledger, F) + Open(pending, F) <= k BY DEF IInv, DailyOK
    <2>2. P(F) >= 0 BY <1>2, PartSigns
    <2>3. k \in Int BY SessionCount, Highest, LedgerAssumption
    <2>4. /\ Open(pending, F) \in Int /\ Booked(ledger, F) \in Int /\ P(F) \in Int
          /\ Open(pending', F) = Open(pending, F) - P(F)
          /\ \/ Booked(ledger', F) = Booked(ledger, F)
             \/ Booked(ledger', F) = Booked(ledger, F) + P(F)
      <3>1. OneUser(F) BY Selections
      <3> HIDE DEF F, P
      <3> QED BY <1>5, <3>1
    <2>5. Booked(ledger', F) + Open(pending', F) <= k
      <3> HIDE DEF F, P, k
      <3> QED BY <2>1, <2>2, <2>3, <2>4
    <2> QED BY <2>5 DEF DailyOK
  <1>10. ASSUME NEW u \in Users PROVE SweepOK(u)'
    <2> DEFINE F == Offsets(u)
               L == LapsedBy(u, day)
               N == Cardinality(Sess)
    <2>1. \A t \in Sess: -Part(pending[t], F) <= Booked(ledger, L) BY DEF IInv, SweepOK
    <2>2. -Booked(ledger, F) - Open(pending, F) <= N * Booked(ledger, L)
      BY DEF IInv, SweepOK
    <2>3. P(F) <= 0 /\ P(L) >= 0 BY <1>2, PartSigns
    <2>4. /\ Open(pending, F) \in Int /\ Booked(ledger, F) \in Int /\ P(F) \in Int
          /\ Booked(ledger, L) \in Int /\ P(L) \in Int
          /\ Open(pending', F) = Open(pending, F) - P(F)
          /\ \/ Booked(ledger', F) = Booked(ledger, F)
             \/ Booked(ledger', F) = Booked(ledger, F) + P(F)
          /\ \/ Booked(ledger', L) = Booked(ledger, L)
             \/ Booked(ledger', L) = Booked(ledger, L) + P(L)
      <3>1. OneUser(F) /\ OneUser(L) BY Selections
      <3> HIDE DEF F, P, L
      <3> QED BY <1>5, <3>1
    <2>5. Booked(ledger, L) \in Nat BY <1>3, SignedSums
    <2>6. Booked(ledger', L) >= Booked(ledger, L) /\ Booked(ledger', L) \in Nat
      <3> HIDE DEF F, P, L
      <3> QED BY <2>3, <2>4, <2>5
    <2>7. ASSUME NEW t \in Sess PROVE -Part(pending'[t], F) <= Booked(ledger', L)
      <3>1. CASE t = s
        <4>1. Part(pending'[t], F) = 0 BY <1>7, <3>1, PartOfNone
        <4> HIDE DEF F, L
        <4> QED BY <2>6, <4>1
      <3>2. CASE t # s
        <4>1. pending'[t] = pending[t] BY <1>7, <3>2
        <4>2. Part(pending[t], F) \in Int BY <1>2, PartSigns DEF FlushedOK
        <4>3. -Part(pending[t], F) <= Booked(ledger, L) BY <2>1
        <4> HIDE DEF F, L
        <4> QED BY <2>5, <2>6, <4>1, <4>2, <4>3
      <3> QED BY <3>1, <3>2
    <2>8. N * Booked(ledger, L) <= N * Booked(ledger', L)
          /\ N * Booked(ledger, L) \in Int /\ N * Booked(ledger', L) \in Int
      <3>1. \A n, x, y \in Nat: x <= y => n * x <= n * y /\ n * x \in Int /\ n * y \in Int
        <4> SUFFICES ASSUME NEW n \in Nat, NEW x \in Nat, NEW y \in Nat, x <= y
                     PROVE  n * x <= n * y
          OBVIOUS
        <4>1. y - x \in Nat /\ n * (y - x) \in Nat OBVIOUS
        <4>2. n * y = n * x + n * (y - x) OBVIOUS
        <4> QED BY <4>1, <4>2
      <3> HIDE DEF L, N
      <3> QED BY <2>5, <2>6, <3>1, SessionCount DEF N
    <2>9. -Booked(ledger', F) - Open(pending', F) <= N * Booked(ledger', L)
      <3> DEFINE x == N * Booked(ledger, L)
                 y == N * Booked(ledger', L)
      <3>1. x <= y /\ x \in Int /\ y \in Int BY <2>8
      <3>2. -Booked(ledger, F) - Open(pending, F) <= x BY <2>2
      <3> HIDE DEF F, L, N, P, x, y
      <3>3. -Booked(ledger', F) - Open(pending', F) <= y BY <2>3, <2>4, <3>1, <3>2
      <3> QED BY <3>3 DEF y
    <2> QED BY <1>1, <2>7, <2>9 DEF SweepOK
  <1>11. PendingOK' BY <1>6 DEF PendingOK, FlushedOK
  <1> QED BY <1>1, <1>3, <1>8, <1>9, <1>10, <1>11 DEF IInv

LEMMA NextDayKeeps ==
  ASSUME IInv, NextDay
  PROVE  IInv'
  <1>1. ledger' = ledger /\ pending' = pending /\ day' = day + 1 /\ day' \in 0..LastDay
    BY LedgerAssumption DEF NextDay, IInv
  <1>2. BagOK(ledger) /\ day \in Int BY LedgerAssumption DEF IInv
  <1>3. ASSUME NEW u \in Users PROVE SweepOK(u)'
    <2> DEFINE x == Booked(ledger, LapsedBy(u, day))
               y == Booked(ledger, LapsedBy(u, day'))
               N == Cardinality(Sess)
    <2>1. x <= y
      <3>1. LapsedBy(u, day) \subseteq LapsedBy(u, day')
        <4>1. \A r \in Row: r.dies \in Int BY LedgerAssumption DEF Row, Never
        <4> QED BY <1>1, <1>2, <4>1 DEF LapsedBy
      <3>2. \A r \in DOMAIN ledger \cap LapsedBy(u, day'): r.amount > 0
        BY <1>2 DEF BagOK, LapsedBy, Signed
      <3> QED BY <1>2, <3>1, <3>2, BookedMore
    <2>2. x \in Nat /\ y \in Nat BY <1>2, SignedSums
    <2>3. N * x <= N * y /\ N * x \in Int /\ N * y \in Int
      <3>1. y - x \in Nat /\ N * (y - x) \in Nat
        <4> HIDE DEF x, y, N
        <4> QED BY <2>1, <2>2, SessionCount DEF N
      <3>2. N * y = N * x + N * (y - x) /\ N * x \in Int /\ N * y \in Int
        <4> HIDE DEF x, y, N
        <4> QED BY <2>2, SessionCount DEF N
      <3> HIDE DEF x, y, N
      <3> QED BY <3>1, <3>2
    <2>4. ASSUME NEW t \in Sess PROVE -Part(pending[t], Offsets(u)) <= y
      <3>1. -Part(pending[t], Offsets(u)) <= x BY DEF IInv, SweepOK
      <3>2. Part(pending[t], Offsets(u)) \in Int BY PartSigns DEF IInv, PendingOK
      <3> HIDE DEF x, y
      <3> QED BY <2>1, <2>2, <3>1, <3>2
    <2>5. -Booked(ledger, Offsets(u)) - Open(pending, Offsets(u)) <= N * y
      <3>1. -Booked(ledger, Offsets(u)) - Open(pending, Offsets(u)) <= N * x
        BY DEF IInv, SweepOK
      <3>2. Booked(ledger, Offsets(u)) \in Int BY <1>2, SignedSums
      <3>3. Open(pending, Offsets(u)) \in Int
        <4>1. FlushedOK(pending) /\ OneUser(Offsets(u))
          BY Selections DEF IInv, PendingOK, FlushedOK
        <4> QED BY <4>1, OpenType
      <3> HIDE DEF x, y, N
      <3> QED BY <2>3, <3>1, <3>2, <3>3
    <2> QED BY <1>1, <2>4, <2>5 DEF SweepOK
  <1>4. \A u \in Users: OverdraftOK(u)' BY <1>1 DEF IInv, OverdraftOK
  <1>5. \A u \in Users, d \in 0..LastDay: DailyOK(u, d)' BY <1>1 DEF IInv, DailyOK
  <1> QED BY <1>1, <1>3, <1>4, <1>5 DEF IInv, PendingOK

-----------------------------------------------------------------------------
\* The invariant holds.

LEMMA Initial == Init => IInv
  <1> SUFFICES ASSUME Init PROVE IInv OBVIOUS
  <1>1. ledger = EmptyBag /\ DOMAIN ledger = {} BY DEF Init, EmptyBag, SetToBag
  <1>2. BagOK(ledger) BY <1>1, FS_EmptySet DEF BagOK, EmptyBag, SetToBag
  <1>3. pending = [s \in Sess |-> {}] /\ day = 0 BY DEF Init
  <1>4. PendingOK BY <1>3, FS_EmptySet DEF PendingOK, RowsOK
  <1>5. FlushedOK(pending) BY <1>4 DEF PendingOK, FlushedOK
  <1>6. \A F: Booked(ledger, F) = 0
    <2>1. \A F: DOMAIN ledger \cap F = {} BY <1>1
    <2> QED BY <2>1, SumEmpty DEF Booked
  <1>7. \A s \in Sess: \A F: Part(pending[s], F) = 0 BY <1>3, PartOfNone
  <1>8. ASSUME NEW F, OneUser(F) PROVE Open(pending, F) = 0
    <2>1. PICK s \in Sess: TRUE BY SessionCount
    <2>2. \A t \in Sess: Part(pending[t], F) <= 0 /\ -Part(pending[t], F) <= 0 BY <1>7
    <2>3. Open(pending, F) <= Rivals * 0 /\ -Open(pending, F) <= Rivals * 0
      BY <1>3, <1>5, <1>8, <2>1, <2>2, OpenBounded
    <2>4. Open(pending, F) \in Int BY <1>5, <1>8, OpenType
    <2> QED BY <2>3, <2>4, SessionCount
  <1>9. \A u \in Users: OverdraftOK(u)
    <2> SUFFICES ASSUME NEW u \in Users PROVE OverdraftOK(u) OBVIOUS
    <2>1. Open(pending, Spends(u)) = 0 BY <1>8, Selections
    <2>2. Rivals * Max(SpendAmounts) \in Nat BY SessionCount, Highest
    <2> QED BY <1>6, <2>1, <2>2 DEF OverdraftOK
  <1>10. \A u \in Users, d \in 0..LastDay: DailyOK(u, d)
    <2> SUFFICES ASSUME NEW u \in Users, NEW d \in 0..LastDay PROVE DailyOK(u, d) OBVIOUS
    <2>1. Open(pending, Awards(u, d)) = 0 BY <1>8, Selections
    <2>2. Rivals * Max(EarnAmounts) \in Nat /\ MaxEarnPerDay \in Nat
      BY SessionCount, Highest, LedgerAssumption
    <2> QED BY <1>6, <2>1, <2>2 DEF DailyOK
  <1>11. \A u \in Users: SweepOK(u)
    <2> SUFFICES ASSUME NEW u \in Users PROVE SweepOK(u) OBVIOUS
    <2>1. Open(pending, Offsets(u)) = 0 BY <1>8, Selections
    <2>2. Cardinality(Sess) * 0 = 0 BY SessionCount
    <2> QED BY <1>6, <1>7, <2>1, <2>2 DEF SweepOK
  <1>12. day \in 0..LastDay BY <1>3, LedgerAssumption
  <1> QED BY <1>2, <1>4, <1>9, <1>10, <1>11, <1>12 DEF IInv

LEMMA StepKeeps == IInv /\ [Next]_vars => IInv'
  <1> SUFFICES ASSUME IInv, [Next]_vars PROVE IInv' OBVIOUS
  <1>1. CASE NextDay BY <1>1, NextDayKeeps
  <1>2. ASSUME NEW s \in Sess, NEW u \in Users, NEW a \in SpendAmounts, CheckAndSpend(s, u, a)
        PROVE  IInv'
    BY <1>2, SpendCovered, FlushKeeps DEF CheckAndSpend
  <1>3. ASSUME NEW s \in Sess, NEW u \in Users, NEW a \in EarnAmounts, EarnCredits(s, u, a)
        PROVE  IInv'
    <2>1. a \in Nat \ {0} BY LedgerAssumption
    <2>2. Covered({Earned(u, a, "award")}) BY <1>3, <2>1, EarnCovered DEF EarnCredits
    <2> QED BY <1>3, <2>2, FlushKeeps DEF EarnCredits
  <1>4. ASSUME NEW s \in Sess, NEW u \in Users, NEW a \in RefundAmounts, RefundCredits(s, u, a)
        PROVE  IInv'
    <2>1. a \in Nat \ {0} BY LedgerAssumption
    <2>2. Covered({Earned(u, a, "refund")}) BY <2>1, EarnCovered
    <2> QED BY <1>4, <2>2, FlushKeeps DEF RefundCredits
  <1>5. ASSUME NEW s \in Sess, NEW u \in Users, NEW a \in PurchaseAmounts,
               PurchaseCredits(s, u, a)
        PROVE  IInv'
    <2>1. a \in Nat \ {0} BY LedgerAssumption
    <2>2. Covered({Earned(u, a, "purchase")}) BY <2>1, EarnCovered
    <2> QED BY <1>5, <2>2, FlushKeeps DEF PurchaseCredits
  <1>6. ASSUME NEW s \in Sess, ExpireStaleCredits(s) PROVE IInv'
    BY <1>6, SweepCovered, FlushKeeps DEF ExpireStaleCredits
  <1>7. ASSUME NEW s \in Sess, Commit(s) \/ Abort(s) PROVE IInv'
    BY <1>7, EndKeeps
  <1>8. CASE UNCHANGED vars
    BY <1>8 DEF vars, IInv, PendingOK, OverdraftOK, DailyOK, SweepOK
  <1> QED BY <1>1, <1>2, <1>3, <1>4, <1>5, <1>6, <1>7, <1>8 DEF Next

\* The invariant is inductive: it holds initially and no step of a session breaks it.
THEOREM Invariance == Spec => []IInv
  BY Initial, StepKeeps, PTL DEF Spec

\* Every reachable ledger and every flushed row is well typed.
THEOREM LedgerTypes == Spec => []TypeOK
  <1>1. IInv => TypeOK BY DEF IInv, BagOK, PendingOK, RowsOK, TypeOK, BagToSet
  <1> QED BY <1>1, Invariance, PTL

\* However reads and commits interleave, a user overdraws by at most the highest price
\* per rival session: check_and_spend reads the balance and locks nothing.
THEOREM OverdraftSound == Spec => []OverdraftBounded
  <1>1. IInv => OverdraftBounded
    <2> SUFFICES ASSUME IInv, NEW u \in Users
                 PROVE  Equity(u) >= -(Rivals * Max(SpendAmounts))
      BY DEF OverdraftBounded
    <2>1. BagOK(ledger) /\ day \in 0..LastDay /\ FlushedOK(pending) /\ OneUser(Spends(u))
      BY Selections DEF IInv, PendingOK, FlushedOK
    <2>2. Booked(ledger, Counted(u)) + Open(pending, Spends(u))
            >= -(Rivals * Max(SpendAmounts))
      BY DEF IInv, OverdraftOK
    <2>3. Open(pending, Spends(u)) <= 0
      <3> DEFINE f == [s \in Sess |-> Part(pending[s], Spends(u))]
      <3>1. \A s \in Sess: f[s] \in Int /\ f[s] <= 0 BY <2>1, PartSigns DEF FlushedOK
      <3>2. SumFunctionOnSet(f, Sess) <= Cardinality(Sess) * 0
        <4> HIDE DEF f
        <4> QED BY <3>1, SessionCount, SumBounded
      <3>3. Open(pending, Spends(u)) = SumFunctionOnSet(f, Sess) BY DEF Open
      <3> HIDE DEF f
      <3> QED BY <3>2, <3>3, SessionCount
    <2>4. /\ Booked(ledger, Counted(u)) \in Int /\ Open(pending, Spends(u)) \in Int
          /\ Rivals * Max(SpendAmounts) \in Nat
      <3>1. Booked(ledger, Counted(u)) \in Int BY <2>1, SignedSums
      <3>2. Open(pending, Spends(u)) \in Int BY <2>1, OpenType
      <3> QED BY <3>1, <3>2, SessionCount, Highest
    <2>5. Equity(u) = Booked(ledger, Counted(u)) BY <2>1, SumsRead
    <2> QED BY <2>2, <2>3, <2>4, <2>5
  <1> QED BY <1>1, Invariance, PTL

\* The daily cap of earn_credits is overrun by at most the highest award per rival.
THEOREM DailyCapSound == Spec => []DailyCapBounded
  <1>1. IInv => DailyCapBounded
    <2> SUFFICES ASSUME IInv, NEW u \in Users, NEW d \in 0..LastDay
                 PROVE  AwardedOn(u, d) <= MaxEarnPerDay + Rivals * Max(EarnAmounts)
      BY DEF DailyCapBounded
    <2> DEFINE F == Awards(u, d)
    <2>1. BagOK(ledger) /\ day \in 0..LastDay /\ FlushedOK(pending) /\ OneUser(F)
      BY Selections DEF IInv, PendingOK, FlushedOK
    <2>2. Booked(ledger, F) + Open(pending, F) <= MaxEarnPerDay + Rivals * Max(EarnAmounts)
      BY DEF IInv, DailyOK
    <2>3. Open(pending, F) >= 0
      <3> DEFINE f == [s \in Sess |-> Part(pending[s], F)]
      <3>1. \A s \in Sess: f[s] \in Nat BY <2>1, PartSigns DEF FlushedOK
      <3>2. SumFunctionOnSet(f, Sess) \in Nat
        <4> HIDE DEF f
        <4> QED BY <3>1, SessionCount, SumNatural
      <3> QED BY <3>2 DEF Open
    <2>4. /\ Booked(ledger, F) \in Int /\ Open(pending, F) \in Int
          /\ Rivals * Max(EarnAmounts) \in Nat /\ MaxEarnPerDay \in Nat
      BY <2>1, SignedSums, OpenType, SessionCount, Highest, LedgerAssumption
    <2>5. AwardedOn(u, d) = Booked(ledger, F) BY <2>1, SumsRead
    <2> HIDE DEF F
    <2> QED BY <2>2, <2>3, <2>4, <2>5
  <1> QED BY <1>1, Invariance, PTL

\* A lapsed credit is offset at most once per session, however many sweeps overlap.
THEOREM SweepsSound == Spec => []SweepsBounded
  <1>1. IInv => SweepsBounded
    <2> SUFFICES ASSUME IInv, NEW u \in Users
                 PROVE  AlreadyExpired(u) <= Cardinality(Sess) * LapsedTotal(u)
      BY DEF SweepsBounded
    <2> DEFINE F == Offsets(u)
               k == Cardinality(Sess) * Booked(ledger, LapsedBy(u, day))
    <2>1. BagOK(ledger) /\ day \in 0..LastDay /\ FlushedOK(pending) /\ OneUser(F)
      BY Selections DEF IInv, PendingOK, FlushedOK
    <2>2. -Booked(ledger, F) - Open(pending, F) <= k BY DEF IInv, SweepOK
    <2>3. Open(pending, F) <= 0
      <3> DEFINE f == [s \in Sess |-> Part(pending[s], F)]
      <3>1. \A s \in Sess: f[s] \in Int /\ f[s] <= 0 BY <2>1, PartSigns DEF FlushedOK
      <3>2. SumFunctionOnSet(f, Sess) <= Cardinality(Sess) * 0
        <4> HIDE DEF f
        <4> QED BY <3>1, SessionCount, SumBounded
      <3>3. Open(pending, F) = SumFunctionOnSet(f, Sess) BY DEF Open
      <3> HIDE DEF f
      <3> QED BY <3>2, <3>3, SessionCount
    <2>4. Booked(ledger, F) \in Int /\ Open(pending, F) \in Int /\ k \in Int
      BY <2>1, SignedSums, OpenType, SessionCount
    <2>5. AlreadyExpired(u) = -Booked(ledger, F)
          /\ LapsedTotal(u) = Booked(ledger, LapsedBy(u, day))
      BY <2>1, SumsRead
    <2>6. -Booked(ledger, F) <= k
      <3> HIDE DEF F, k
      <3> QED BY <2>2, <2>3, <2>4
    <2> QED BY <2>5, <2>6
  <1> QED BY <1>1, Invariance, PTL
-----------------------------------------------------------------------------
\* One session at a time, the ledger implements the wallet.

LEMMA EquityIsBooked == IInv => \A u \in Users: Equity(u) = Booked(ledger, Counted(u))
  BY SumsRead DEF IInv

LEMMA EquityIsBookedNext ==
  (IInv => \A u \in Users: Equity(u) = Booked(ledger, Counted(u)))'
  BY EquityIsBooked, PTL

\* A commit adds the committed rows to the equity of their users.
LEMMA CommitEquity ==
  ASSUME IInv, NEW s \in Sess, Commit(s), NEW u \in Users
  PROVE  Equity(u)' = Equity(u) + Part(pending[s], Counted(u))
  <1>1. IInv' BY EndKeeps
  <1>2. Equity(u)' = Booked(ledger', Counted(u)) BY <1>1, EquityIsBookedNext
  <1>3. Equity(u) = Booked(ledger, Counted(u)) BY EquityIsBooked
  <1>4. ledger' = Install(ledger, pending[s]) BY DEF Commit, Install
  <1>5. BagOK(ledger) /\ RowsOK(pending[s]) /\ OneUser(Counted(u))
    BY Selections DEF IInv, PendingOK
  <1> QED BY <1>2, <1>3, <1>4, <1>5, InstallBooked

LEMMA WalletStep ==
  ASSUME IInv, NEW s \in Sess, Sess = {s}, Commit(s)
  PROVE  Wallet!Next \/ \A u \in Users: Equity(u)' = Equity(u)
  <1> DEFINE p == pending[s]
             E(u) == Equity(u)
  <1>1. RowsOK(p) /\ BagOK(ledger) BY DEF IInv, PendingOK
  <1>2. \A u \in Users: Equity(u)' = Equity(u) + Part(p, Counted(u)) BY CommitEquity
  <1>3. \A u \in Users: Equity(u) \in Int BY <1>1, EquityIsBooked, SignedSums
  <1>4. CASE \A r \in p: r.kind = "expired"
    <2>1. \A u \in Users: p \cap Counted(u) = {} BY <1>4 DEF Counted
    <2>2. \A u \in Users: Part(p, Counted(u)) = 0 BY <2>1, PartOfNone
    <2> QED BY <1>2, <1>3, <2>2
  <1>5. CASE ~(\A r \in p: r.kind = "expired")
    <2>1. PICK r \in p: r.kind # "expired" BY <1>5
    <2>2. p = {r} /\ r \in Row /\ Signed(r) BY <1>1, <2>1 DEF RowsOK
    <2> DEFINE u == r.user
    <2>3. u \in Users /\ r.amount \in Int /\ r.kind \in {"earned", "spent"}
      BY <2>1, <2>2 DEF Row
    <2>4. \A v \in Users: Part(p, Counted(v)) = IF v = u THEN r.amount ELSE 0
      <3>1. \A v \in Users: r \in Counted(v) <=> v = u BY <2>1, <2>2 DEF Counted
      <3> QED BY <2>2, <3>1, OneRow
    <2>5. /\ Equity(u)' = Equity(u) + r.amount
          /\ \A v \in Users \ {u}: Equity(v)' = Equity(v)
      <3> HIDE DEF p
      <3> QED BY <1>2, <1>3, <2>3, <2>4
    <2>6. CASE r.kind = "earned"
      <3>1. r.amount > 0 BY <2>2, <2>6 DEF Signed
      <3>2. Equity(u)' > Equity(u) BY <1>3, <2>3, <2>5, <3>1
      <3>3. Wallet!Credit(u) BY <2>3, <2>5, <3>2 DEF Wallet!Credit, Wallet!OnlyOf
      <3> QED BY <2>3, <3>3 DEF Wallet!Next
    <2>7. CASE r.kind = "spent"
      <3>1. r.amount < 0 BY <2>2, <2>7 DEF Signed
      <3>2. Equity(u) + r.amount >= 0
        <4>1. Booked(ledger, Counted(u)) + Open(pending, Spends(u))
                >= -(Rivals * Max(SpendAmounts))
          BY <2>3 DEF IInv, OverdraftOK
        <4>2. Rivals = 0 BY FS_Singleton DEF Rivals
        <4>3. Open(pending, Spends(u)) = r.amount
          <5> DEFINE f == [t \in Sess |-> Part(pending[t], Spends(u))]
          <5>1. Part(p, Spends(u)) = r.amount
            <6>1. r \in Spends(u) BY <2>2, <2>7 DEF Spends
            <6> QED BY <2>2, <6>1, OneRow
          <5>2. f[s] = r.amount /\ \A t \in Sess: f[t] \in Int BY <2>3, <5>1
          <5>3. Sess \ {s} = {} /\ IsFiniteSet(Sess) BY SessionCount
          <5>4. SumFunctionOnSet(f, Sess) = f[s] + SumFunctionOnSet(f, {})
            <6> HIDE DEF f
            <6> QED BY <5>2, <5>3, SumElements
          <5>5. Open(pending, Spends(u)) = SumFunctionOnSet(f, Sess) BY DEF Open
          <5> HIDE DEF f
          <5> QED BY <2>3, <5>2, <5>4, <5>5, SumEmpty
        <4>4. Equity(u) = Booked(ledger, Counted(u)) BY <2>3, EquityIsBooked
        <4>5. 0 * Max(SpendAmounts) = 0 BY Highest
        <4> QED BY <2>3, <1>3, <4>1, <4>2, <4>3, <4>4, <4>5
      <3>3. Equity(u)' < Equity(u) /\ Equity(u)' >= 0 BY <1>3, <2>3, <2>5, <3>1, <3>2
      <3>4. Wallet!Debit(u) BY <2>3, <2>5, <3>3 DEF Wallet!Debit, Wallet!OnlyOf
      <3> QED BY <2>3, <3>4 DEF Wallet!Next
    <2> QED BY <2>3, <2>6, <2>7
  <1> QED BY <1>4, <1>5

\* With one session at a time the ledger of rows, days and sweeps implements the
\* abstract wallet: every commit credits one user, debits one by an amount that is
\* covered, or moves nothing.
THEOREM SerialLedgerIsWallet ==
  ASSUME Cardinality(Sess) = 1
  PROVE  Spec => ImplementsWallet
  <1>1. PICK s: Sess = {s} BY SessionCount, FS_Singleton
  <1>2. Init => Wallet!Init
    <2> SUFFICES ASSUME Init PROVE Wallet!Init OBVIOUS
    <2>1. IInv BY Initial
    <2>2. \A F: Booked(ledger, F) = 0
      <3>1. \A F: DOMAIN ledger \cap F = {} BY DEF Init, EmptyBag, SetToBag
      <3> QED BY <3>1, SumEmpty DEF Booked
    <2>3. \A u \in Users: Equity(u) = 0 BY <2>1, <2>2, EquityIsBooked
    <2> QED BY <2>3 DEF Wallet!Init
  <1>3. IInv /\ [Next]_vars => [Wallet!Next]_([u \in Users |-> Equity(u)])
    <2> SUFFICES ASSUME IInv, [Next]_vars
                 PROVE  Wallet!Next \/ \A u \in Users: Equity(u)' = Equity(u)
      OBVIOUS
    <2>1. CASE ledger' = ledger BY <2>1 DEF Equity, Total, Worth, RowsOf
    <2>2. CASE ledger' # ledger
      <3>1. Commit(s)
        BY <1>1, <2>2 DEF Next, vars, NextDay, CheckAndSpend, EarnCredits, RefundCredits,
                          PurchaseCredits, ExpireStaleCredits, Abort, Flush
      <3> QED BY <1>1, <3>1, WalletStep
    <2> QED BY <2>1, <2>2
  <1> QED BY <1>2, <1>3, Invariance, PTL DEF Spec, ImplementsWallet, Wallet!Spec
=============================================================================
