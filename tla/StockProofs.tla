---------------------------- MODULE StockProofs ----------------------------
(***************************************************************************)
(* Lemmas that the proofs about stock share.                               *)
(*                                                                         *)
(* About the row operators of StockOps: a call that is allowed leaves a    *)
(* row of natural numbers, and a safe row safe.                            *)
(*                                                                         *)
(* About SumFunctionOnSet of module Functions, in which the models write   *)
(* totals over rows, orders and payments: its type, and what one term more,*)
(* one less or one changed makes of it.  The definition chooses a function *)
(* by an equation over all subsets; that the equation has a solution, and  *)
(* what it is worth, is shown by looking at a counterexample that is least,*)
(* as a number or as a set, instead of by induction.                       *)
(***************************************************************************)
EXTENDS StockOps, Functions, FiniteSetTheorems, WellFoundedInduction, TLAPS

USE DEF OrderKinds, MoveKinds, Kinds

\* A call that is allowed on a row leaves a row of natural numbers.
LEMMA EffectType ==
  ASSUME NEW kind \in Kinds, NEW row \in StockRow, NEW n \in Int,
         kind \in OrderKinds => n >= 0,
         Allowed(kind, row, n)
  PROVE  Effect(kind, row, n) \in StockRow
<1>1. CASE kind \in {"reserve", "commit", "release", "set"}
  BY <1>1 DEF Effect, ReserveRow, CommitRow, ReleaseRow, SetRow, AtLeastZero, StockRow
<1>2. CASE kind \in MoveKinds
  BY <1>2 DEF Effect, MoveRow, Allowed, Available, StockRow
<1>3. QED
  BY <1>1, <1>2

\* A call that is allowed on a safe row leaves a safe row.
LEMMA EffectSafe ==
  ASSUME NEW kind \in Kinds, NEW row \in StockRow, NEW n \in Int,
         kind \in OrderKinds => n >= 0,
         Allowed(kind, row, n), SafeRow(row)
  PROVE  SafeRow(Effect(kind, row, n))
<1>1. CASE kind = "reserve"
  BY <1>1 DEF Effect, ReserveRow, SafeRow, Allowed, Available, StockRow
<1>2. CASE kind \in {"commit", "release"}
  BY <1>2 DEF Effect, CommitRow, ReleaseRow, SafeRow, AtLeastZero, StockRow
<1>3. CASE kind \in MoveKinds \cup {"set"}
  BY <1>3 DEF Allowed
<1>4. QED
  BY <1>1, <1>2, <1>3

\* The same for the calls the order flows make, by the operators' names.
LEMMA OrderRows ==
  ASSUME NEW row \in StockRow, NEW n \in Nat
  PROVE  /\ CommitRow(row, n) \in StockRow
         /\ ReleaseRow(row, n) \in StockRow
         /\ MoveRow("return", row, n) \in StockRow
         /\ ReserveRow(row, n) \in StockRow
         /\ SafeRow(row) => /\ SafeRow(CommitRow(row, n))
                            /\ SafeRow(ReleaseRow(row, n))
                            /\ SafeRow(MoveRow("return", row, n))
                            /\ Allowed("reserve", row, n) => SafeRow(ReserveRow(row, n))
<1>1. /\ CommitRow(row, n) \in StockRow
      /\ ReleaseRow(row, n) \in StockRow
      /\ MoveRow("return", row, n) \in StockRow
      /\ ReserveRow(row, n) \in StockRow
  BY DEF CommitRow, ReleaseRow, MoveRow, ReserveRow, AtLeastZero, StockRow
<1>2. SafeRow(row) => /\ SafeRow(CommitRow(row, n))
                      /\ SafeRow(ReleaseRow(row, n))
                      /\ SafeRow(MoveRow("return", row, n))
  BY DEF CommitRow, ReleaseRow, MoveRow, SafeRow, AtLeastZero, StockRow
<1>3. SafeRow(row) /\ Allowed("reserve", row, n) => SafeRow(ReserveRow(row, n))
  BY DEF Allowed, Available, ReserveRow, SafeRow, StockRow
<1>4. QED
  BY <1>1, <1>2, <1>3

-----------------------------------------------------------------------------
\* A non-empty set of subsets of a finite set has a minimal member: what carries
\* an argument by induction over finite sets, the set being that of the
\* counterexamples.
LEMMA LeastSubset ==
  ASSUME NEW S, IsFiniteSet(S), NEW T, T \subseteq SUBSET S, T # {}
  PROVE  \E A \in T : \A B \in T : B \subseteq A => B = A
<1>1. IsWellFoundedOn(StrictSubsetOrdering(S), FiniteSubsetsOf(S))
  BY FS_StrictSubsetOrderingWellFounded, Zenon
<1>2. T \subseteq FiniteSubsetsOf(S)
  BY FS_Subset DEF FiniteSubsetsOf
<1>3. PICK A \in T : \A B \in T : ~ (<<B, A>> \in StrictSubsetOrdering(S))
  BY <1>1, <1>2, WFMin, Zenon
<1> QED
  BY <1>3 DEF StrictSubsetOrdering

\* The order of the natural numbers, as a set of pairs.
Below == {p \in Nat \X Nat : p[1] < p[2]}

\* A non-empty set of natural numbers has a least element.
LEMMA LeastNat ==
  ASSUME NEW T, T \subseteq Nat, T # {}
  PROVE  \E n \in T : \A m \in T : n <= m
<1>1. IsWellFoundedOn(Below, Nat)
  BY NatLessThanWellFounded DEF OpToRel, Below
<1>2. PICK n \in T : \A m \in T : ~ (<<m, n>> \in Below)
  BY <1>1, WFMin, Zenon
<1>3. \A m \in T : ~ (m < n)
  BY <1>2 DEF Below
<1> QED
  BY <1>3

\* The term a sum takes next, and the terms that are left.
Pick(s) == CHOOSE x \in s : TRUE
Rest(s) == s \ {Pick(s)}

\* The equation that a function of the sets in D solves when it is the sum of f.
Unfold(f, D, it) == [s \in D |-> IF s = {} THEN 0 ELSE f[Pick(s)] + it[Rest(s)]]

\* The parts of S with at most n members.
UpTo(S, n) == {s \in SUBSET S : Cardinality(s) <= n}

\* What is left of a finite set is a smaller one.
LEMMA SmallRest ==
  ASSUME NEW S, IsFiniteSet(S), NEW s \in SUBSET S, s # {}
  PROVE  /\ Pick(s) \in s
         /\ Rest(s) \in SUBSET S
         /\ Cardinality(s) \in Nat
         /\ Cardinality(Rest(s)) \in Nat
         /\ Cardinality(Rest(s)) < Cardinality(s)
<1>1. Pick(s) \in s
  BY DEF Pick
<1>2. IsFiniteSet(s)
  BY FS_Subset
<1>3. /\ Cardinality(s) \in Nat
      /\ IsFiniteSet(Rest(s))
      /\ Cardinality(Rest(s)) = Cardinality(s) - 1
  BY <1>1, <1>2, FS_RemoveElement, FS_CardinalityType DEF Rest
<1>4. Cardinality(Rest(s)) \in Nat
  BY <1>3, FS_CardinalityType
<1> QED
  BY <1>1, <1>3, <1>4 DEF Rest

\* The equation has a solution on the parts with at most n members.
Solvable(f, S, n) == \E it : it = Unfold(f, UpTo(S, n), it)

\* A solution is extended by one member more.
LEMMA SolveNext ==
  ASSUME NEW f, NEW S, IsFiniteSet(S), NEW n \in Nat, Solvable(f, S, n)
  PROVE  Solvable(f, S, n + 1)
<1> DEFINE L == UpTo(S, n)
           M == UpTo(S, n + 1)
<1>1. PICK it : it = Unfold(f, L, it)
  BY DEF Solvable
<1> DEFINE up == Unfold(f, M, it)
<1>2. ASSUME NEW s \in L, s # {}
      PROVE  Rest(s) \in L
  BY <1>2, SmallRest DEF UpTo
<1>3. ASSUME NEW s \in M, s # {}
      PROVE  Rest(s) \in L
  BY <1>3, SmallRest DEF UpTo
<1>4. L \subseteq M
  <2> SUFFICES ASSUME NEW s \in L PROVE s \in M
    OBVIOUS
  <2>1. IsFiniteSet(s)
    BY FS_Subset DEF UpTo
  <2>2. Cardinality(s) \in Nat
    BY <2>1, FS_CardinalityType
  <2> QED
    BY <2>2 DEF UpTo
<1>5. ASSUME NEW s \in L PROVE up[s] = it[s]
  BY <1>1, <1>4, Zenon DEF Unfold
<1>6. up = Unfold(f, M, up)
  <2>1. ASSUME NEW s \in M, s # {} PROVE up[Rest(s)] = it[Rest(s)]
    BY <1>3, <1>5, <2>1
  <2>2. ASSUME NEW s \in M
        PROVE  (IF s = {} THEN 0 ELSE f[Pick(s)] + it[Rest(s)])
                 = (IF s = {} THEN 0 ELSE f[Pick(s)] + up[Rest(s)])
    BY <2>1
  <2> HIDE DEF M
  <2> QED
    BY <2>2 DEF Unfold
<1> QED
  BY <1>6 DEF Solvable

\* There is a solution up to any size: the least size without one has a
\* predecessor, which has one.
LEMMA SolveAll ==
  ASSUME NEW f, NEW S, IsFiniteSet(S), NEW n \in Nat
  PROVE  Solvable(f, S, n)
<1> DEFINE Bad == {k \in Nat : ~ Solvable(f, S, k)}
<1> SUFFICES ASSUME Bad # {} PROVE FALSE
  OBVIOUS
<1>1. PICK k \in Bad : \A m \in Bad : k <= m
  BY LeastNat
<1>2. CASE k = 0
  <2>1. UpTo(S, 0) = {{}}
    <3>1. ASSUME NEW s \in UpTo(S, 0) PROVE s = {}
      BY SmallRest DEF UpTo
    <3>2. {} \in UpTo(S, 0)
      BY FS_EmptySet DEF UpTo
    <3> QED
      BY <3>1, <3>2
  <2>2. [s \in {{}} |-> 0] = Unfold(f, {{}}, [s \in {{}} |-> 0])
    BY DEF Unfold
  <2> QED
    BY <1>2, <2>1, <2>2 DEF Solvable
<1>3. CASE k # 0
  <2>1. k - 1 \in Nat /\ k - 1 \notin Bad
    BY <1>1, <1>3
  <2>2. Solvable(f, S, k - 1)
    BY <2>1
  <2>3. Solvable(f, S, (k - 1) + 1)
    BY <2>1, <2>2, SolveNext
  <2> QED
    BY <2>3
<1> QED
  BY <1>2, <1>3

\* The solution that the definition of the sum chooses.
Iter(f, S) == CHOOSE it : it = Unfold(f, SUBSET S, it)

\* The sum is the value of that solution, and it does solve the equation.
LEMMA IterFacts ==
  ASSUME NEW f, NEW S, IsFiniteSet(S)
  PROVE  /\ SumFunctionOnSet(f, S) = Iter(f, S)[S]
         /\ Iter(f, S) = Unfold(f, SUBSET S, Iter(f, S))
<1>1. SumFunctionOnSet(f, S) = Iter(f, S)[S]
  BY DEF SumFunctionOnSet, FoldFunctionOnSet, MapThenFoldSet, Unfold, Pick, Rest, Iter
<1>2. Cardinality(S) \in Nat
  BY FS_CardinalityType
<1>3. UpTo(S, Cardinality(S)) = SUBSET S
  BY FS_Subset DEF UpTo
<1>4. \E it : it = Unfold(f, SUBSET S, it)
  <2>1. Solvable(f, S, Cardinality(S))
    BY <1>2, SolveAll
  <2>2. PICK it : it = Unfold(f, UpTo(S, Cardinality(S)), it)
    BY <2>1 DEF Solvable
  <2> QED
    BY <1>3, <2>2
<1>5. Iter(f, S) = Unfold(f, SUBSET S, Iter(f, S))
  BY <1>4, Zenon DEF Iter
<1> QED
  BY <1>1, <1>5

\* The equation, for one part of S.
LEMMA IterStep ==
  ASSUME NEW f, NEW S, IsFiniteSet(S), NEW A \in SUBSET S
  PROVE  Iter(f, S)[A] = IF A = {} THEN 0 ELSE f[Pick(A)] + Iter(f, S)[Rest(A)]
<1>1. Iter(f, S) = Unfold(f, SUBSET S, Iter(f, S))
  BY IterFacts
<1> QED
  BY <1>1, Zenon DEF Unfold

\* The solution for a set and the one for a part of it agree on the part.
LEMMA IterOfPart ==
  ASSUME NEW f, NEW S, IsFiniteSet(S), NEW T \in SUBSET S
  PROVE  Iter(f, S)[T] = Iter(f, T)[T]
<1>1. IsFiniteSet(T)
  BY FS_Subset
<1> DEFINE Bad == {A \in SUBSET T : Iter(f, S)[A] # Iter(f, T)[A]}
<1> SUFFICES ASSUME Bad # {} PROVE FALSE
  OBVIOUS
<1>2. PICK A \in Bad : \A B \in Bad : B \subseteq A => B = A
  <2>1. Bad \subseteq SUBSET T
    OBVIOUS
  <2> HIDE DEF Bad
  <2> QED
    BY <1>1, <2>1, LeastSubset
<1>3. A \in SUBSET T /\ A \in SUBSET S
  OBVIOUS
<1>4. /\ Iter(f, S)[A] = IF A = {} THEN 0 ELSE f[Pick(A)] + Iter(f, S)[Rest(A)]
      /\ Iter(f, T)[A] = IF A = {} THEN 0 ELSE f[Pick(A)] + Iter(f, T)[Rest(A)]
  BY <1>1, <1>3, IterStep
<1>5. CASE A # {}
  <2>1. Rest(A) \in SUBSET T /\ Rest(A) \subseteq A /\ Rest(A) # A
    BY <1>3, <1>5 DEF Rest, Pick
  <2>2. Rest(A) \notin Bad
    BY <1>2, <2>1
  <2>3. Iter(f, S)[Rest(A)] = Iter(f, T)[Rest(A)]
    BY <2>1, <2>2
  <2> QED
    BY <1>4, <1>5, <2>3
<1> QED
  BY <1>4, <1>5

\* The first term of a sum.
LEMMA SumPick ==
  ASSUME NEW f, NEW S, IsFiniteSet(S), S # {}
  PROVE  SumFunctionOnSet(f, S) = f[Pick(S)] + SumFunctionOnSet(f, Rest(S))
<1>1. Rest(S) \in SUBSET S /\ IsFiniteSet(Rest(S))
  BY FS_Subset DEF Rest
<1>2. Iter(f, S)[S] = f[Pick(S)] + Iter(f, S)[Rest(S)]
  BY IterStep
<1> QED
  BY <1>1, <1>2, IterFacts, IterOfPart

\* A sum of no terms.
LEMMA SumEmpty == \A f : SumFunctionOnSet(f, {}) = 0
<1> SUFFICES ASSUME NEW f PROVE SumFunctionOnSet(f, {}) = 0
  OBVIOUS
<1>1. IsFiniteSet({})
  BY FS_EmptySet
<1>2. /\ SumFunctionOnSet(f, {}) = Iter(f, {})[{}]
      /\ Iter(f, {}) = Unfold(f, SUBSET {}, Iter(f, {}))
  BY <1>1, IterFacts
<1> QED
  BY <1>2, Zenon DEF Unfold

\* A sum of integers is an integer, and one of natural numbers is natural.
LEMMA SumType ==
  ASSUME NEW S, IsFiniteSet(S), NEW f, \A x \in S : f[x] \in Int
  PROVE  /\ SumFunctionOnSet(f, S) \in Int
         /\ (\A x \in S : f[x] >= 0) => SumFunctionOnSet(f, S) >= 0
<1> DEFINE Good(A) == /\ SumFunctionOnSet(f, A) \in Int
                      /\ (\A x \in S : f[x] >= 0) => SumFunctionOnSet(f, A) >= 0
           Bad == {A \in SUBSET S : ~ Good(A)}
<1> SUFFICES ASSUME Bad # {} PROVE FALSE
  OBVIOUS
<1>1. PICK A \in Bad : \A B \in Bad : B \subseteq A => B = A
  <2>1. Bad \subseteq SUBSET S
    OBVIOUS
  <2> HIDE DEF Bad
  <2> QED
    BY <2>1, LeastSubset
<1>2. A # {}
  BY SumEmpty
<1>3. Pick(A) \in S /\ Rest(A) \in SUBSET S /\ Rest(A) \subseteq A /\ Rest(A) # A
  BY <1>2 DEF Rest, Pick
<1>4. Rest(A) \notin Bad
  BY <1>1, <1>3
<1>5. Good(Rest(A))
  BY <1>3, <1>4
<1>6. SumFunctionOnSet(f, A) = f[Pick(A)] + SumFunctionOnSet(f, Rest(A))
  BY <1>2, FS_Subset, SumPick
<1>7. Good(A)
  BY <1>3, <1>5, <1>6
<1> QED
  BY <1>7

\* Any term can be the first: the sum does not depend on what is chosen.
LEMMA SumRemove ==
  ASSUME NEW S, IsFiniteSet(S), NEW f, \A x \in S : f[x] \in Int, NEW a \in S
  PROVE  SumFunctionOnSet(f, S) = f[a] + SumFunctionOnSet(f, S \ {a})
<1> DEFINE Good(A, x) == SumFunctionOnSet(f, A) = f[x] + SumFunctionOnSet(f, A \ {x})
           Bad == {A \in SUBSET S : \E x \in A : ~ Good(A, x)}
<1> SUFFICES ASSUME Bad # {} PROVE FALSE
  OBVIOUS
<1>1. PICK A \in Bad : \A B \in Bad : B \subseteq A => B = A
  <2>1. Bad \subseteq SUBSET S
    OBVIOUS
  <2> HIDE DEF Bad
  <2> QED
    BY <2>1, LeastSubset
<1>2. PICK x \in A : ~ Good(A, x)
  OBVIOUS
<1>3. IsFiniteSet(A) /\ A \in SUBSET S
  BY FS_Subset
<1> DEFINE p == Pick(A)
<1>4. p \in A
  BY <1>2 DEF Pick
<1>5. Good(A, p)
  BY <1>2, <1>3, SumPick DEF Rest
<1>6. x # p
  BY <1>2, <1>5
<1>7. A \ {x} \notin Bad /\ A \ {p} \notin Bad
  BY <1>1, <1>2, <1>4
<1>8. Good(A \ {x}, p) /\ Good(A \ {p}, x)
  BY <1>2, <1>3, <1>4, <1>6, <1>7
<1>9. (A \ {x}) \ {p} = (A \ {p}) \ {x}
  OBVIOUS
<1>10. /\ IsFiniteSet((A \ {x}) \ {p})
       /\ f[x] \in Int /\ f[p] \in Int
       /\ SumFunctionOnSet(f, (A \ {x}) \ {p}) \in Int
  <2>1. (A \ {x}) \ {p} \in SUBSET S
    BY <1>3
  <2>2. IsFiniteSet((A \ {x}) \ {p})
    BY <2>1, FS_Subset
  <2>3. \A y \in (A \ {x}) \ {p} : f[y] \in Int
    BY <2>1
  <2> QED
    BY <1>2, <1>3, <1>4, <2>2, <2>3, SumType
<1>11. Good(A, x)
  BY <1>5, <1>8, <1>9, <1>10
<1> QED
  BY <1>2, <1>11

\* The same terms have the same sum.
LEMMA SumSame ==
  ASSUME NEW S, IsFiniteSet(S), NEW f, NEW g, \A x \in S : f[x] = g[x]
  PROVE  SumFunctionOnSet(f, S) = SumFunctionOnSet(g, S)
<1> DEFINE Bad == {A \in SUBSET S : SumFunctionOnSet(f, A) # SumFunctionOnSet(g, A)}
<1> SUFFICES ASSUME Bad # {} PROVE FALSE
  OBVIOUS
<1>1. PICK A \in Bad : \A B \in Bad : B \subseteq A => B = A
  <2>1. Bad \subseteq SUBSET S
    OBVIOUS
  <2> HIDE DEF Bad
  <2> QED
    BY <2>1, LeastSubset
<1>2. A # {}
  BY SumEmpty
<1>3. Pick(A) \in S /\ Rest(A) \in SUBSET S /\ Rest(A) \subseteq A /\ Rest(A) # A
  BY <1>2 DEF Rest, Pick
<1>4. SumFunctionOnSet(f, Rest(A)) = SumFunctionOnSet(g, Rest(A))
  BY <1>1, <1>3
<1>5. /\ SumFunctionOnSet(f, A) = f[Pick(A)] + SumFunctionOnSet(f, Rest(A))
      /\ SumFunctionOnSet(g, A) = g[Pick(A)] + SumFunctionOnSet(g, Rest(A))
  BY <1>2, FS_Subset, SumPick
<1> QED
  BY <1>3, <1>4, <1>5

\* One more term.
LEMMA SumAdd ==
  ASSUME NEW S, IsFiniteSet(S), NEW f, NEW a, a \notin S,
         \A x \in S \cup {a} : f[x] \in Int
  PROVE  SumFunctionOnSet(f, S \cup {a}) = SumFunctionOnSet(f, S) + f[a]
<1>1. IsFiniteSet(S \cup {a}) /\ (S \cup {a}) \ {a} = S
  BY FS_AddElement
<1>2. SumFunctionOnSet(f, S \cup {a}) = f[a] + SumFunctionOnSet(f, S)
  BY <1>1, SumRemove
<1> QED
  BY <1>2, SumType

\* One term changes.
LEMMA SumChange ==
  ASSUME NEW S, IsFiniteSet(S), NEW f, NEW g, NEW a \in S,
         \A x \in S : f[x] \in Int /\ g[x] \in Int,
         \A x \in S \ {a} : f[x] = g[x]
  PROVE  SumFunctionOnSet(g, S) = SumFunctionOnSet(f, S) - f[a] + g[a]
<1>1. IsFiniteSet(S \ {a})
  BY FS_RemoveElement
<1>2. SumFunctionOnSet(f, S \ {a}) = SumFunctionOnSet(g, S \ {a})
  BY <1>1, SumSame
<1>3. SumFunctionOnSet(f, S \ {a}) \in Int
  BY <1>1, SumType
<1>4. /\ SumFunctionOnSet(f, S) = f[a] + SumFunctionOnSet(f, S \ {a})
      /\ SumFunctionOnSet(g, S) = g[a] + SumFunctionOnSet(g, S \ {a})
  BY SumRemove
<1> QED
  BY <1>2, <1>3, <1>4

\* A sum of smaller terms is smaller.
LEMMA SumLess ==
  ASSUME NEW S, IsFiniteSet(S), NEW f, NEW g,
         \A x \in S : f[x] \in Int /\ g[x] \in Int /\ f[x] <= g[x]
  PROVE  SumFunctionOnSet(f, S) <= SumFunctionOnSet(g, S)
<1> DEFINE Bad == {A \in SUBSET S : ~ (SumFunctionOnSet(f, A) <= SumFunctionOnSet(g, A))}
<1> SUFFICES ASSUME Bad # {} PROVE FALSE
  OBVIOUS
<1>1. PICK A \in Bad : \A B \in Bad : B \subseteq A => B = A
  <2>1. Bad \subseteq SUBSET S
    OBVIOUS
  <2> HIDE DEF Bad
  <2> QED
    BY <2>1, LeastSubset
<1>2. A # {}
  <2>1. SumFunctionOnSet(f, {}) = 0 /\ SumFunctionOnSet(g, {}) = 0
    BY SumEmpty
  <2>2. SumFunctionOnSet(f, {}) <= SumFunctionOnSet(g, {})
    BY <2>1
  <2> QED
    BY <2>2
<1>3. Pick(A) \in S /\ Rest(A) \in SUBSET S /\ Rest(A) \subseteq A /\ Rest(A) # A
  BY <1>2 DEF Rest, Pick
<1>4. SumFunctionOnSet(f, Rest(A)) <= SumFunctionOnSet(g, Rest(A))
  BY <1>1, <1>3
<1>5. /\ SumFunctionOnSet(f, A) = f[Pick(A)] + SumFunctionOnSet(f, Rest(A))
      /\ SumFunctionOnSet(g, A) = g[Pick(A)] + SumFunctionOnSet(g, Rest(A))
  BY <1>2, FS_Subset, SumPick
<1>6. SumFunctionOnSet(f, Rest(A)) \in Int /\ SumFunctionOnSet(g, Rest(A)) \in Int
  <2>1. IsFiniteSet(Rest(A)) /\ \A x \in Rest(A) : f[x] \in Int /\ g[x] \in Int
    BY <1>3, FS_Subset
  <2> QED
    BY <2>1, SumType
<1> QED
  BY <1>3, <1>4, <1>5, <1>6

\* A sum of zeros is zero.
LEMMA SumZero ==
  ASSUME NEW S, IsFiniteSet(S), NEW f, \A x \in S : f[x] = 0
  PROVE  SumFunctionOnSet(f, S) = 0
<1> DEFINE Bad == {A \in SUBSET S : SumFunctionOnSet(f, A) # 0}
<1> SUFFICES ASSUME Bad # {} PROVE FALSE
  OBVIOUS
<1>1. PICK A \in Bad : \A B \in Bad : B \subseteq A => B = A
  <2>1. Bad \subseteq SUBSET S
    OBVIOUS
  <2> HIDE DEF Bad
  <2> QED
    BY <2>1, LeastSubset
<1>2. A # {}
  BY SumEmpty
<1>3. Pick(A) \in S /\ Rest(A) \in SUBSET S /\ Rest(A) \subseteq A /\ Rest(A) # A
  BY <1>2 DEF Rest, Pick
<1>4. SumFunctionOnSet(f, Rest(A)) = 0
  BY <1>1, <1>3
<1>5. SumFunctionOnSet(f, A) = f[Pick(A)] + SumFunctionOnSet(f, Rest(A))
  BY <1>2, FS_Subset, SumPick
<1> QED
  BY <1>3, <1>4, <1>5
=============================================================================
