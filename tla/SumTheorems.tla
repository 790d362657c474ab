----------------------------- MODULE SumTheorems -----------------------------
(***************************************************************************)
(* Facts about sums over finite sets (SumFunctionOnSet), for the proofs    *)
(* about ledgers and counters.  The induction they need is taken from the  *)
(* well-foundedness of the strict subset ordering, which the library       *)
(* states without an operator parameter.                                   *)
(***************************************************************************)
EXTENDS Integers, FiniteSets, Functions, FiniteSetTheorems, WellFoundedInduction, TLAPS

-----------------------------------------------------------------------------
\* Induction, with a set in place of the predicate.

LEMMA LeastSet ==
  ASSUME NEW S, IsFiniteSet(S), NEW C \in SUBSET SUBSET S, C # {}
  PROVE  \E T \in C: \A U \in C: U \subseteq T => U = T
  <1> DEFINE F == FiniteSubsetsOf(S)
  <1>1. C \subseteq F BY FS_Subset DEF FiniteSubsetsOf
  <1>2. IsWellFoundedOn(StrictSubsetOrdering(S), F)
    BY FS_StrictSubsetOrderingWellFounded
  <1>3. \E T \in C: \A U \in C: ~ (<<U, T>> \in StrictSubsetOrdering(S))
    <2> HIDE DEF F
    <2> QED BY <1>1, <1>2, WFMin
  <1> QED BY <1>3 DEF StrictSubsetOrdering

LEMMA StrongSetInduction ==
  ASSUME NEW S, IsFiniteSet(S), NEW Good,
         \A T \in SUBSET S: (\A U \in SUBSET T: U # T => U \in Good) => T \in Good
  PROVE  SUBSET S \subseteq Good
  <1> DEFINE Bad == (SUBSET S) \ Good
  <1>1. Bad # {} => \E T \in Bad: \A U \in Bad: U \subseteq T => U = T
    <2>1. Bad \in SUBSET SUBSET S OBVIOUS
    <2> HIDE DEF Bad
    <2> QED BY <2>1, LeastSet
  <1> QED BY <1>1

LEMMA SetInduction ==
  ASSUME NEW S, IsFiniteSet(S), NEW Good, {} \in Good,
         \A T \in SUBSET S: \A x \in T: T \ {x} \in Good => T \in Good
  PROVE  SUBSET S \subseteq Good
  <1>1. \A T \in SUBSET S: (\A U \in SUBSET T: U # T => U \in Good) => T \in Good
    <2> SUFFICES ASSUME NEW T \in SUBSET S, \A U \in SUBSET T: U # T => U \in Good, T # {}
                 PROVE  T \in Good
      OBVIOUS
    <2>1. PICK x \in T: TRUE OBVIOUS
    <2>2. T \ {x} \in Good OBVIOUS
    <2> QED BY <2>1, <2>2
  <1> QED BY <1>1, StrongSetInduction

LEMMA LeastNatural ==
  ASSUME NEW T \in SUBSET Nat, T # {}
  PROVE  \E x \in T: \A y \in T: x <= y
  <1>1. \E x \in T: \A y \in T : <<y, x>> \notin OpToRel(<, Nat)
    BY WFMin, NatLessThanWellFounded, Zenon
  <1>2. \E x \in T: \A y \in T : ~(y < x)
    BY <1>1, Zenon DEF OpToRel
  <1> QED BY <1>2

-----------------------------------------------------------------------------
\* The recursion of a sum has one solution on any family of sets that is closed under
\* taking an element out.
First(s) == CHOOSE x \in s: TRUE
SumStep(f, s, sum) == IF s = {} THEN 0 ELSE f[First(s)] + sum[s \ {First(s)}]
Sums(f, D, sum) == sum = [s \in D |-> SumStep(f, s, sum)]
Closed(D) == \A s \in D: \A x \in s: s \ {x} \in D

LEMMA SumFunctionUnfolds ==
  ASSUME NEW S, NEW f
  PROVE  SumFunctionOnSet(f, S) = (CHOOSE sum: Sums(f, SUBSET S, sum))[S]
  BY DEF SumFunctionOnSet, FoldFunctionOnSet, MapThenFoldSet, Sums, SumStep, First

LEMMA MaximalSet ==
  ASSUME NEW S, IsFiniteSet(S), NEW D \in SUBSET SUBSET S, D # {}
  PROVE  \E M \in D: \A s \in D: M \subseteq s => s = M
  <1> DEFINE C == {S \ s: s \in D}
  <1>1. C \in SUBSET SUBSET S OBVIOUS
  <1>2. \A s \in D: S \ s \in C OBVIOUS
  <1>3. C # {} BY <1>2
  <1>4. PICK T \in C: \A U \in C: U \subseteq T => U = T
    <2> HIDE DEF C
    <2> QED BY <1>1, <1>3, LeastSet
  <1>5. PICK M \in D: T = S \ M OBVIOUS
  <1>6. ASSUME NEW s \in D, M \subseteq s PROVE s = M
    <2>1. S \ s \subseteq T BY <1>5, <1>6
    <2>2. S \ s = S \ M BY <1>2, <1>4, <1>5, <2>1
    <2>3. s \subseteq S /\ M \subseteq S OBVIOUS
    <2> QED BY <2>2, <2>3
  <1> QED BY <1>6

LEMMA SumExists ==
  ASSUME NEW S, IsFiniteSet(S), NEW f
  PROVE  \E sum: Sums(f, SUBSET S, sum)
  <1> DEFINE P == SUBSET S
             Has(D) == Closed(D) => \E sum: Sums(f, D, sum)
             Good == {D \in SUBSET P: Has(D)}
  <1>1. \A D \in SUBSET P: (\A E \in SUBSET D: E # D => E \in Good) => D \in Good
    <2> SUFFICES ASSUME NEW D \in SUBSET SUBSET S, Closed(D),
                        \A E \in SUBSET D: E # D => E \in Good
                 PROVE  \E sum: Sums(f, D, sum)
      OBVIOUS
    <2>1. CASE D = {}
      <3>1. Sums(f, D, [s \in {} |-> 0]) BY <2>1 DEF Sums
      <3> QED BY <3>1
    <2>2. CASE D # {}
      <3>1. PICK M \in D: \A s \in D: M \subseteq s => s = M BY <2>2, MaximalSet
      <3> DEFINE E == D \ {M}
      <3>2. Closed(E) BY <3>1 DEF Closed
      <3>3. PICK old: Sums(f, E, old) BY <3>2
      <3> DEFINE new == [s \in D |-> IF s = M THEN SumStep(f, M, old) ELSE old[s]]
      <3>4. ASSUME NEW s \in D PROVE new[s] = SumStep(f, s, new)
        <4>1. s # {} => s \ {First(s)} \in E /\ new[s \ {First(s)}] = old[s \ {First(s)}]
          <5> SUFFICES ASSUME s # {} PROVE s \ {First(s)} \in E
            OBVIOUS
          <5>1. First(s) \in s BY DEF First
          <5>2. s \ {First(s)} \in D BY <5>1 DEF Closed
          <5>3. s \ {First(s)} # M BY <3>1, <5>1
          <5> QED BY <5>2, <5>3
        <4>2. SumStep(f, s, new) = SumStep(f, s, old) BY <4>1 DEF SumStep
        <4>3. s # M => old[s] = SumStep(f, s, old) BY <3>3 DEF Sums
        <4> QED BY <4>2, <4>3
      <3>5. Sums(f, D, new)
        <4>1. new = [s \in D |-> new[s]] OBVIOUS
        <4> HIDE DEF new
        <4> QED BY <4>1, <3>4, Zenon DEF Sums
      <3> QED BY <3>5
    <2> QED BY <2>1, <2>2
  <1>2. IsFiniteSet(P) BY FS_SUBSET
  <1>3. SUBSET P \subseteq Good
    <2> HIDE DEF Good, P
    <2> QED BY <1>1, <1>2, StrongSetInduction
  <1>4. Closed(SUBSET S) BY DEF Closed
  <1> QED BY <1>3, <1>4

LEMMA SumUnique ==
  ASSUME NEW S, IsFiniteSet(S), NEW T \in SUBSET S, NEW f, NEW g, \A x \in T: f[x] = g[x],
         NEW a, NEW b, Sums(f, SUBSET S, a), Sums(g, SUBSET T, b)
  PROVE  a[T] = b[T]
  <1> DEFINE Good == {U \in SUBSET T: a[U] = b[U]}
  <1>1. \A U \in SUBSET T: (\A V \in SUBSET U: V # U => V \in Good) => U \in Good
    <2> SUFFICES ASSUME NEW U \in SUBSET T, \A V \in SUBSET U: V # U => V \in Good
                 PROVE  a[U] = b[U]
      OBVIOUS
    <2>1. a[U] = SumStep(f, U, a) /\ b[U] = SumStep(g, U, b) BY DEF Sums
    <2>2. U # {} => First(U) \in U BY DEF First
    <2>3. U # {} => a[U \ {First(U)}] = b[U \ {First(U)}] BY <2>2
    <2> QED BY <2>1, <2>2, <2>3 DEF SumStep
  <1>2. IsFiniteSet(T) BY FS_Subset
  <1>3. SUBSET T \subseteq Good
    <2> HIDE DEF Good
    <2> QED BY <1>1, <1>2, StrongSetInduction
  <1> QED BY <1>3

\* One solution gives the sum of every subset.
SumsAll(f, S, sum) ==
    /\ Sums(f, SUBSET S, sum)
    /\ \A T \in SUBSET S: SumFunctionOnSet(f, T) = sum[T]

LEMMA SumSolution ==
  ASSUME NEW S, IsFiniteSet(S), NEW f
  PROVE  \E sum: SumsAll(f, S, sum)
  <1>1. PICK sum: Sums(f, SUBSET S, sum) BY SumExists
  <1>2. ASSUME NEW T \in SUBSET S PROVE SumFunctionOnSet(f, T) = sum[T]
    <2> DEFINE b == CHOOSE b: Sums(f, SUBSET T, b)
    <2>1. IsFiniteSet(T) BY FS_Subset
    <2>2. \E x: Sums(f, SUBSET T, x) BY <2>1, SumExists
    <2>3. Sums(f, SUBSET T, b) BY <2>2
    <2>4. sum[T] = b[T]
      <3> HIDE DEF b
      <3> QED BY <1>1, <2>3, SumUnique
    <2> QED BY <2>4, SumFunctionUnfolds
  <1> QED BY <1>1, <1>2 DEF SumsAll

\* The empty sum.
THEOREM SumEmpty == \A f: SumFunctionOnSet(f, {}) = 0
  <1> SUFFICES ASSUME NEW f PROVE SumFunctionOnSet(f, {}) = 0 OBVIOUS
  <1>1. IsFiniteSet({}) BY FS_EmptySet
  <1>2. PICK sum: SumsAll(f, {}, sum) BY <1>1, SumSolution
  <1>3. {} \in SUBSET {} OBVIOUS
  <1>4. sum[{}] = SumStep(f, {}, sum) BY <1>2, <1>3 DEF SumsAll, Sums
  <1>5. SumFunctionOnSet(f, {}) = sum[{}] BY <1>2, <1>3 DEF SumsAll
  <1> QED BY <1>4, <1>5 DEF SumStep

\* A sum of integers is an integer, and any element can be taken out of it.
THEOREM SumElements ==
  ASSUME NEW S, IsFiniteSet(S), NEW f, \A x \in S: f[x] \in Int
  PROVE  /\ SumFunctionOnSet(f, S) \in Int
         /\ \A x \in S: SumFunctionOnSet(f, S) = f[x] + SumFunctionOnSet(f, S \ {x})
  <1>1. PICK sum: SumsAll(f, S, sum) BY SumSolution
  <1> DEFINE Good == {T \in SUBSET S: /\ sum[T] \in Int
                                      /\ \A x \in T: sum[T] = f[x] + sum[T \ {x}]}
  <1>2. \A T \in SUBSET S: (\A U \in SUBSET T: U # T => U \in Good) => T \in Good
    <2> SUFFICES ASSUME NEW T \in SUBSET S, \A U \in SUBSET T: U # T => U \in Good
                 PROVE  T \in Good
      OBVIOUS
    <2>1. sum[T] = SumStep(f, T, sum) BY <1>1 DEF SumsAll, Sums
    <2>2. CASE T = {} BY <2>1, <2>2 DEF SumStep
    <2>3. CASE T # {}
      <3> DEFINE c == First(T)
      <3>1. c \in T BY <2>3 DEF First
      <3>2. sum[T] = f[c] + sum[T \ {c}] BY <2>1, <2>3 DEF SumStep
      <3>3. sum[T \ {c}] \in Int BY <3>1
      <3>4. ASSUME NEW x \in T, x # c PROVE sum[T] = f[x] + sum[T \ {x}]
        <4>1. sum[T \ {c}] = f[x] + sum[(T \ {c}) \ {x}] BY <3>1, <3>4
        <4>2. sum[T \ {x}] = f[c] + sum[(T \ {x}) \ {c}] BY <3>1, <3>4
        <4>3. (T \ {c}) \ {x} = (T \ {x}) \ {c} OBVIOUS
        <4>4. sum[(T \ {c}) \ {x}] \in Int BY <3>1, <3>4
        <4>5. f[x] \in Int /\ f[c] \in Int BY <3>1
        <4>6. sum[(T \ {c}) \ {x}] = sum[(T \ {x}) \ {c}] BY <4>3
        <4> QED BY ONLY <3>2, <4>1, <4>2, <4>4, <4>5, <4>6
      <3>5. \A x \in T: sum[T] = f[x] + sum[T \ {x}] BY <3>2, <3>4
      <3>6. sum[T] \in Int
        <4>1. f[c] \in Int BY <3>1
        <4> QED BY ONLY <3>2, <3>3, <4>1
      <3> QED BY <3>5, <3>6
    <2> QED BY <2>2, <2>3
  <1>3. SUBSET S \subseteq Good
    <2> HIDE DEF Good
    <2> QED BY <1>2, StrongSetInduction
  <1>4. \A T \in SUBSET S: SumFunctionOnSet(f, T) = sum[T] BY <1>1 DEF SumsAll
  <1> QED BY <1>3, <1>4

\* Sums of equal weights are equal.
THEOREM SumEqual ==
  ASSUME NEW S, IsFiniteSet(S), NEW f, NEW g, \A x \in S: f[x] = g[x]
  PROVE  SumFunctionOnSet(f, S) = SumFunctionOnSet(g, S)
  <1>1. PICK a: SumsAll(f, S, a) BY SumSolution
  <1>2. PICK b: SumsAll(g, S, b) BY SumSolution
  <1>3. S \in SUBSET S OBVIOUS
  <1>4. a[S] = b[S] BY <1>1, <1>2, <1>3, SumUnique DEF SumsAll
  <1> QED BY <1>1, <1>2, <1>3, <1>4 DEF SumsAll

\* Sums grow with the weights, and with the set when the weights are not negative.
THEOREM SumMonotone ==
  ASSUME NEW T, IsFiniteSet(T), NEW S \in SUBSET T, NEW f, NEW g,
         \A x \in S: f[x] \in Int, \A x \in T: g[x] \in Int,
         \A x \in S: f[x] <= g[x], \A x \in T \ S: 0 <= g[x]
  PROVE  SumFunctionOnSet(f, S) <= SumFunctionOnSet(g, T)
  <1> DEFINE F(U) == SumFunctionOnSet(f, U)
             G(U) == SumFunctionOnSet(g, U)
             Good == {U \in SUBSET T: F(S \cap U) <= G(U)}
  <1>1. {} \in Good
    <2>1. S \cap {} = {} OBVIOUS
    <2>2. F({}) = 0 /\ G({}) = 0 BY SumEmpty
    <2> QED BY <2>1, <2>2
  <1>2. \A U \in SUBSET T: \A x \in U: U \ {x} \in Good => U \in Good
    <2> SUFFICES ASSUME NEW U \in SUBSET T, NEW x \in U, U \ {x} \in Good
                 PROVE  F(S \cap U) <= G(U)
      OBVIOUS
    <2> DEFINE V == U \ {x}
               R == S \cap U
    <2>1. IsFiniteSet(U) /\ IsFiniteSet(R) /\ IsFiniteSet(V) /\ IsFiniteSet(S \cap V)
      BY FS_Subset
    <2>2. F(S \cap V) <= G(V) OBVIOUS
    <2>3. G(U) = g[x] + G(V) /\ G(V) \in Int /\ g[x] \in Int BY <2>1, SumElements
    <2>4. F(S \cap V) \in Int BY <2>1, SumElements
    <2>5. CASE x \in S
      <3>1. R \ {x} = S \cap V /\ x \in R BY <2>5
      <3>2. F(R) = f[x] + F(R \ {x}) BY <2>1, <3>1, SumElements
      <3>3. f[x] \in Int /\ f[x] <= g[x] BY <2>5
      <3> HIDE DEF F, G, V, R
      <3> QED BY <2>2, <2>3, <2>4, <3>1, <3>2, <3>3 DEF R
    <2>6. CASE x \notin S
      <3>1. F(R) = F(S \cap V)
        <4>1. R = S \cap V BY <2>6
        <4> QED BY <4>1
      <3>2. 0 <= g[x] BY <2>6
      <3> HIDE DEF F, G, V
      <3> QED BY <2>2, <2>3, <2>4, <3>1, <3>2
    <2> QED BY <2>5, <2>6
  <1>3. SUBSET T \subseteq Good
    <2> HIDE DEF Good
    <2> QED BY <1>1, <1>2, SetInduction
  <1>4. S \cap T = S /\ T \in SUBSET T OBVIOUS
  <1> QED BY <1>3, <1>4

\* A sum of naturals is one.
THEOREM SumNatural ==
  ASSUME NEW S, IsFiniteSet(S), NEW f, \A x \in S: f[x] \in Nat
  PROVE  SumFunctionOnSet(f, S) \in Nat
  <1>1. SumFunctionOnSet(f, S) \in Int BY SumElements
  <1>2. SumFunctionOnSet(f, {}) <= SumFunctionOnSet(f, S)
    <2>1. {} \in SUBSET S OBVIOUS
    <2> QED BY <2>1, SumMonotone
  <1> QED BY <1>1, <1>2, SumEmpty

\* A sum of weights of at most b each.
THEOREM SumBounded ==
  ASSUME NEW S, IsFiniteSet(S), NEW f, NEW b \in Nat,
         \A x \in S: f[x] \in Int /\ f[x] <= b
  PROVE  SumFunctionOnSet(f, S) <= Cardinality(S) * b
  <1> DEFINE F(U) == SumFunctionOnSet(f, U)
             Good == {U \in SUBSET S: F(U) <= Cardinality(U) * b}
  <1>1. {} \in Good
    <2>1. F({}) = 0 /\ Cardinality({}) = 0 BY SumEmpty, FS_EmptySet
    <2> QED BY <2>1
  <1>2. \A U \in SUBSET S: \A x \in U: U \ {x} \in Good => U \in Good
    <2> SUFFICES ASSUME NEW U \in SUBSET S, NEW x \in U, U \ {x} \in Good
                 PROVE  F(U) <= Cardinality(U) * b
      OBVIOUS
    <2> DEFINE V == U \ {x}
               n == Cardinality(V)
    <2>1. IsFiniteSet(U) /\ IsFiniteSet(V) BY FS_Subset
    <2>2. n \in Nat /\ Cardinality(U) = n + 1
      <3>1. Cardinality(U) \in Nat /\ n \in Nat BY <2>1, FS_CardinalityType
      <3>2. n = Cardinality(U) - 1 BY <2>1, FS_RemoveElement
      <3> HIDE DEF n
      <3> QED BY <3>1, <3>2
    <2>3. F(U) = f[x] + F(V) /\ F(V) \in Int BY <2>1, SumElements
    <2>4. f[x] \in Int /\ f[x] <= b /\ F(V) <= n * b OBVIOUS
    <2>5. (n + 1) * b = n * b + b
      <3> HIDE DEF n
      <3> QED BY <2>2
    <2>6. n * b \in Int
      <3> HIDE DEF n
      <3> QED BY <2>2
    <2> HIDE DEF F, n, V
    <2> QED BY <2>2, <2>3, <2>4, <2>5, <2>6
  <1>3. SUBSET S \subseteq Good
    <2> HIDE DEF Good
    <2> QED BY <1>1, <1>2, SetInduction
  <1> QED BY <1>3

\* Changing one weight changes the sum by the difference.
THEOREM SumExcept ==
  ASSUME NEW S, IsFiniteSet(S), NEW x \in S, NEW f, NEW g,
         \A y \in S: f[y] \in Int, \A y \in S \ {x}: g[y] = f[y], g[x] \in Int
  PROVE  SumFunctionOnSet(g, S) = SumFunctionOnSet(f, S) - f[x] + g[x]
  <1> DEFINE F(U) == SumFunctionOnSet(f, U)
             G(U) == SumFunctionOnSet(g, U)
  <1>1. \A y \in S: g[y] \in Int OBVIOUS
  <1>2. F(S) = f[x] + F(S \ {x}) /\ F(S) \in Int BY SumElements
  <1>3. G(S) = g[x] + G(S \ {x}) BY <1>1, SumElements
  <1>4. IsFiniteSet(S \ {x}) BY FS_RemoveElement
  <1>5. G(S \ {x}) = F(S \ {x}) BY <1>4, SumEqual
  <1>6. F(S \ {x}) \in Int BY <1>4, SumElements
  <1>7. f[x] \in Int OBVIOUS
  <1> HIDE DEF F, G
  <1>8. G(S) = F(S) - f[x] + g[x] BY <1>2, <1>3, <1>5, <1>6, <1>7
  <1> QED BY <1>8 DEF F, G

\* Opposite weights have opposite sums.
THEOREM SumOpposite ==
  ASSUME NEW S, IsFiniteSet(S), NEW f, NEW g, \A x \in S: f[x] \in Int /\ g[x] = -f[x]
  PROVE  SumFunctionOnSet(g, S) = -SumFunctionOnSet(f, S)
  <1> DEFINE F(U) == SumFunctionOnSet(f, U)
             G(U) == SumFunctionOnSet(g, U)
             Good == {U \in SUBSET S: G(U) = -F(U)}
  <1>1. {} \in Good BY SumEmpty
  <1>2. \A U \in SUBSET S: \A x \in U: U \ {x} \in Good => U \in Good
    <2> SUFFICES ASSUME NEW U \in SUBSET S, NEW x \in U, U \ {x} \in Good
                 PROVE  G(U) = -F(U)
      OBVIOUS
    <2>1. IsFiniteSet(U) /\ IsFiniteSet(U \ {x}) BY FS_Subset
    <2>2. \A y \in U: f[y] \in Int /\ g[y] \in Int OBVIOUS
    <2>3. F(U) = f[x] + F(U \ {x}) /\ G(U) = g[x] + G(U \ {x}) /\ F(U \ {x}) \in Int
      BY <2>1, <2>2, SumElements
    <2>4. f[x] \in Int /\ g[x] = -f[x] /\ G(U \ {x}) = -F(U \ {x}) OBVIOUS
    <2> HIDE DEF F, G
    <2> QED BY <2>3, <2>4
  <1>3. SUBSET S \subseteq Good
    <2> HIDE DEF Good
    <2> QED BY <1>1, <1>2, SetInduction
  <1> QED BY <1>3

\* A sum of zeros and ones counts the ones.
THEOREM SumCounts ==
  ASSUME NEW S, IsFiniteSet(S), NEW f, \A x \in S: f[x] \in {0, 1}
  PROVE  SumFunctionOnSet(f, S) = Cardinality({x \in S: f[x] = 1})
  <1> DEFINE Ones(T) == {x \in T: f[x] = 1}
             Good == {T \in SUBSET S: SumFunctionOnSet(f, T) = Cardinality(Ones(T))}
  <1>1. {} \in Good
    <2>1. Ones({}) = {} OBVIOUS
    <2> HIDE DEF Ones
    <2> QED BY <2>1, SumEmpty, FS_EmptySet
  <1>2. ASSUME NEW T \in SUBSET S, NEW x \in T, T \ {x} \in Good PROVE T \in Good
    <2>1. IsFiniteSet(T) /\ \A y \in T: f[y] \in Int BY FS_Subset
    <2>2. SumFunctionOnSet(f, T) = f[x] + SumFunctionOnSet(f, T \ {x}) BY <2>1, SumElements
    <2>3. SumFunctionOnSet(f, T \ {x}) = Cardinality(Ones(T \ {x})) BY <1>2
    <2>4. Ones(T \ {x}) = Ones(T) \ {x} /\ Ones(T) \subseteq T /\ (x \in Ones(T) <=> f[x] = 1)
      OBVIOUS
    <2>5. f[x] \in {0, 1} OBVIOUS
    <2> HIDE DEF Ones
    <2>6. IsFiniteSet(Ones(T)) /\ Cardinality(Ones(T)) \in Nat
      BY <2>1, <2>4, FS_Subset, FS_CardinalityType
    <2>7. Cardinality(Ones(T) \ {x}) = IF x \in Ones(T) THEN Cardinality(Ones(T)) - 1
                                                        ELSE Cardinality(Ones(T))
      BY <2>6, FS_RemoveElement
    <2>8. SumFunctionOnSet(f, T) = Cardinality(Ones(T))
      <3>1. CASE f[x] = 1
        <4>1. Cardinality(Ones(T \ {x})) = Cardinality(Ones(T)) - 1 BY <2>4, <2>7, <3>1
        <4> QED BY ONLY <2>2, <2>3, <2>6, <3>1, <4>1
      <3>2. CASE f[x] = 0
        <4>1. Cardinality(Ones(T \ {x})) = Cardinality(Ones(T)) BY <2>4, <2>7, <3>2
        <4> QED BY ONLY <2>2, <2>3, <2>6, <3>2, <4>1
      <3> QED BY <2>5, <3>1, <3>2
    <2> QED BY <2>8
  <1>3. SUBSET S \subseteq Good
    <2> HIDE DEF Good
    <2> QED BY <1>1, <1>2, SetInduction
  <1>4. S \in Good BY <1>3
  <1> QED BY <1>4
=============================================================================
