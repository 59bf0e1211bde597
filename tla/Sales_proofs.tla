---------------------------- MODULE Sales_proofs ----------------------------
(***************************************************************************)
(* Proofs of the safety properties of Sales, for any number of requests,   *)
(* products, orders and sales.                                             *)
(***************************************************************************)
EXTENDS Sales, FiniteSetTheorems, SequenceTheorems, TLAPS

-----------------------------------------------------------------------------
(* Sums over finite sets: SumFunctionOnSet(f, S), of which the properties that *)
(* reconcile two tables are made, one term at a time.                          *)

\* Induction over the subsets of a finite set, as a statement about families.
LEMMA SubsetInduction ==
    ASSUME NEW S, IsFiniteSet(S), NEW Good \in SUBSET (SUBSET S),
           \A T \in SUBSET S : (\A x \in T : T \ {x} \in Good) => T \in Good
    PROVE  SUBSET S = Good
<1> SUFFICES ASSUME SUBSET S # Good PROVE FALSE
  OBVIOUS
<1> DEFINE Bad == (SUBSET S) \ Good
           Less == StrictSubsetOrdering(S)
<1>1. IsWellFoundedOn(Less, SUBSET S)
  <2>1. FiniteSubsetsOf(S) = SUBSET S
    BY FS_FiniteSubsetsOfFinite
  <2>2. IsWellFoundedOn(Less, FiniteSubsetsOf(S))
    BY FS_StrictSubsetOrderingWellFounded
  <2>3. QED
    BY <2>1, <2>2, Zenon
<1>2. Bad \subseteq SUBSET S /\ Bad # {}
  OBVIOUS
<1> HIDE DEF Bad, Less
<1>3. PICK T \in Bad : \A U \in Bad : <<U, T>> \notin Less
  BY <1>1, <1>2, WFMin
<1> USE DEF Bad, Less
<1>4. PICK x \in T : T \ {x} \notin Good
  OBVIOUS
<1>5. <<T \ {x}, T>> \in Less
  BY DEF StrictSubsetOrdering
<1>6. QED
  BY <1>3, <1>4, <1>5

\* What the recursion of SumFunctionOnSet says of one subset, h being the sums
\* of the subsets.
Picked(T) == CHOOSE x \in T : TRUE

SumAt(f, h, T) == IF T = {} THEN 0 ELSE f[Picked(T)] + h[T \ {Picked(T)}]

\* h holds the sums of all subsets of S.
Sums(h, f, S) == h = [T \in SUBSET S |-> SumAt(f, h, T)]

\* The recursion has a solution: level by level, sums of the subsets that are
\* no larger than T.
LEMMA SumsExist ==
    ASSUME NEW S, IsFiniteSet(S), NEW f
    PROVE  \E h : Sums(h, f, S)
<1> DEFINE Upto(T) == {U \in SUBSET S : Cardinality(U) <= Cardinality(T)}
           Right(h, T) == \A U \in Upto(T) : h[U] = SumAt(f, h, U)
           Good == {T \in SUBSET S : \E h : Right(h, T)}
<1>1. ASSUME NEW T \in SUBSET S, \A x \in T : T \ {x} \in Good
      PROVE  T \in Good
  <2>0. \A U \in SUBSET S : IsFiniteSet(U) /\ Cardinality(U) \in Nat
    BY FS_Subset, FS_CardinalityType
  <2>1. CASE T = {}
    <3>1. PICK h : h = [U \in SUBSET S |-> 0]
      OBVIOUS
    <3>2. ASSUME NEW U \in Upto(T) PROVE U = {}
      <4>1. Cardinality(U) = 0
        BY <2>0, <2>1, FS_EmptySet
      <4>2. QED
        BY <2>0, <4>1, FS_EmptySet
    <3>3. Right(h, T)
      BY <3>1, <3>2 DEF SumAt
    <3>4. QED
      BY <3>3
  <2>2. CASE T # {}
    <3>1. PICK x \in T : TRUE
      BY <2>2
    <3>2. PICK h : Right(h, T \ {x})
      BY <1>1
    <3>3. PICK k : k = [U \in SUBSET S |-> SumAt(f, h, U)]
      OBVIOUS
    <3>4. ASSUME NEW U \in Upto(T), U # {}
          PROVE  k[U] = SumAt(f, k, U)
      <4> DEFINE p == Picked(U)
      <4>1. p \in U
        BY <3>4 DEF Picked
      <4>2. Cardinality(U \ {p}) = Cardinality(U) - 1 /\ Cardinality(T \ {x}) = Cardinality(T) - 1
        BY <2>0, <4>1, FS_RemoveElement
      <4>3. U \ {p} \in Upto(T \ {x})
        BY <2>0, <4>2
      <4>4. h[U \ {p}] = SumAt(f, h, U \ {p})
        BY <3>2, <4>3
      <4>5. k[U \ {p}] = h[U \ {p}]
        BY <3>3, <4>4
      <4>6. QED
        BY <3>3, <3>4, <4>5 DEF SumAt
    <3>5. Right(k, T)
      <4>1. SumAt(f, h, {}) = 0 /\ SumAt(f, k, {}) = 0
        BY DEF SumAt
      <4>2. QED
        BY <3>3, <3>4, <4>1
    <3>6. QED
      BY <3>5
  <2>3. QED
    BY <2>1, <2>2
<1> HIDE DEF Good
<1>2. Good \in SUBSET (SUBSET S)
  BY DEF Good
<1>3. SUBSET S = Good
  <2>1. \A T \in SUBSET S : (\A x \in T : T \ {x} \in Good) => T \in Good
    BY <1>1
  <2>2. QED
    BY <1>2, <2>1, SubsetInduction
<1>4. PICK h : Right(h, S)
  BY <1>3 DEF Good
<1>5. Upto(S) = SUBSET S
  BY FS_Subset
<1>6. PICK k : k = [T \in SUBSET S |-> h[T]]
  OBVIOUS
<1>7. ASSUME NEW T \in SUBSET S PROVE k[T] = SumAt(f, k, T)
  <2>1. h[T] = SumAt(f, h, T)
    BY <1>4, <1>5
  <2>2. QED
    BY <1>6, <2>1 DEF SumAt
<1>8. k = [T \in SUBSET S |-> SumAt(f, k, T)]
  BY <1>6, <1>7
<1>9. QED
  BY <1>8 DEF Sums

\* Two solutions agree where both are defined.
LEMMA SumsAgree ==
    ASSUME NEW U, NEW S \in SUBSET U, IsFiniteSet(S), NEW f, NEW h, NEW k,
           Sums(h, f, U), Sums(k, f, S)
    PROVE  h[S] = k[S]
<1> DEFINE Good == {T \in SUBSET S : h[T] = k[T]}
<1>1. ASSUME NEW T \in SUBSET S, \A x \in T : T \ {x} \in Good
      PROVE  T \in Good
  <2>0. h[T] = SumAt(f, h, T) /\ k[T] = SumAt(f, k, T)
    BY DEF Sums
  <2>1. CASE T = {}
    BY <2>0, <2>1 DEF SumAt
  <2>2. CASE T # {}
    <3>1. Picked(T) \in T
      BY <2>2 DEF Picked
    <3>2. h[T \ {Picked(T)}] = k[T \ {Picked(T)}]
      BY <1>1, <3>1
    <3>3. QED
      BY <2>0, <3>2 DEF SumAt
  <2>3. QED
    BY <2>1, <2>2
<1>2. Good \in SUBSET (SUBSET S)
  OBVIOUS
<1> HIDE DEF Good
<1>3. SUBSET S = Good
  <2>1. \A T \in SUBSET S : (\A x \in T : T \ {x} \in Good) => T \in Good
    BY <1>1
  <2>2. QED
    BY <1>2, <2>1, SubsetInduction
<1>4. QED
  BY <1>3 DEF Good

\* The sum is that of a solution.
LEMMA SumSolves ==
    ASSUME NEW S, IsFiniteSet(S), NEW f
    PROVE  \E h : Sums(h, f, S) /\ SumFunctionOnSet(f, S) = h[S]
<1>0. PICK k : Sums(k, f, S)
  BY SumsExist
<1> DEFINE h == CHOOSE j : j = [T \in SUBSET S |->
                  IF T = {} THEN 0 ELSE f[CHOOSE x \in T : TRUE] + j[T \ {CHOOSE x \in T : TRUE}]]
<1>1. SumFunctionOnSet(f, S) = h[S]
  BY DEF SumFunctionOnSet, FoldFunctionOnSet, MapThenFoldSet
<1>2. \E j : j = [T \in SUBSET S |->
                  IF T = {} THEN 0 ELSE f[CHOOSE x \in T : TRUE] + j[T \ {CHOOSE x \in T : TRUE}]]
  <2>1. k = [T \in SUBSET S |->
               IF T = {} THEN 0 ELSE f[CHOOSE x \in T : TRUE] + k[T \ {CHOOSE x \in T : TRUE}]]
    BY <1>0 DEF Sums, SumAt, Picked
  <2>2. QED
    BY <2>1
<1>3. h = [T \in SUBSET S |->
             IF T = {} THEN 0 ELSE f[CHOOSE x \in T : TRUE] + h[T \ {CHOOSE x \in T : TRUE}]]
  BY <1>2
<1>4. Sums(h, f, S)
  BY <1>3 DEF Sums, SumAt, Picked
<1>5. QED
  BY <1>1, <1>4

\* The sum of nothing, and of one term and the rest, as the fold takes them.
LEMMA SumPicked ==
    ASSUME NEW S, IsFiniteSet(S), NEW f
    PROVE  SumFunctionOnSet(f, S) =
             IF S = {} THEN 0 ELSE f[Picked(S)] + SumFunctionOnSet(f, S \ {Picked(S)})
<1>1. PICK h : Sums(h, f, S) /\ SumFunctionOnSet(f, S) = h[S]
  BY SumSolves
<1>0. h[S] = SumAt(f, h, S)
  BY <1>1 DEF Sums
<1>2. CASE S = {}
  BY <1>0, <1>1, <1>2 DEF SumAt
<1>3. CASE S # {}
  <2>1. PICK R : R = S \ {Picked(S)}
    OBVIOUS
  <2>2. R \in SUBSET S /\ IsFiniteSet(R)
    BY <2>1, FS_Subset
  <2>3. PICK k : Sums(k, f, R) /\ SumFunctionOnSet(f, R) = k[R]
    BY <2>2, SumSolves
  <2>4. h[R] = k[R]
    BY <1>1, <2>2, <2>3, SumsAgree
  <2>5. h[S] = f[Picked(S)] + h[R]
    BY <1>0, <1>3, <2>1 DEF SumAt
  <2>6. QED
    BY <1>1, <1>3, <2>1, <2>3, <2>4, <2>5
<1>4. QED
  BY <1>2, <1>3

LEMMA SumEmpty == \A f : SumFunctionOnSet(f, {}) = 0
  BY SumPicked, FS_EmptySet

\* A sum of integers is an integer.
LEMMA SumInt ==
    ASSUME NEW S, IsFiniteSet(S), NEW f, \A x \in S : f[x] \in Int
    PROVE  SumFunctionOnSet(f, S) \in Int
<1> DEFINE Good == {T \in SUBSET S : SumFunctionOnSet(f, T) \in Int}
<1>1. ASSUME NEW T \in SUBSET S, \A x \in T : T \ {x} \in Good
      PROVE  T \in Good
  <2>1. IsFiniteSet(T)
    BY FS_Subset
  <2>2. CASE T = {}
    BY <2>2, SumEmpty
  <2>3. CASE T # {}
    <3>1. Picked(T) \in T
      BY <2>3 DEF Picked
    <3>2. SumFunctionOnSet(f, T \ {Picked(T)}) \in Int /\ f[Picked(T)] \in Int
      BY <1>1, <3>1
    <3>3. SumFunctionOnSet(f, T) = f[Picked(T)] + SumFunctionOnSet(f, T \ {Picked(T)})
      BY <2>1, <2>3, SumPicked
    <3>4. QED
      BY <3>2, <3>3
  <2>4. QED
    BY <2>2, <2>3
<1>2. Good \in SUBSET (SUBSET S)
  OBVIOUS
<1> HIDE DEF Good
<1>3. SUBSET S = Good
  <2>1. \A T \in SUBSET S : (\A x \in T : T \ {x} \in Good) => T \in Good
    BY <1>1
  <2>2. QED
    BY <1>2, <2>1, SubsetInduction
<1>4. QED
  BY <1>3 DEF Good

\* One term, whichever, and the rest.
LEMMA SumSplit ==
    ASSUME NEW S, IsFiniteSet(S), NEW f, \A y \in S : f[y] \in Int, NEW x \in S
    PROVE  SumFunctionOnSet(f, S) = f[x] + SumFunctionOnSet(f, S \ {x})
<1> DEFINE Sum(T) == SumFunctionOnSet(f, T)
           Good == {T \in SUBSET S : \A z \in T : Sum(T) = f[z] + Sum(T \ {z})}
<1>1. ASSUME NEW T \in SUBSET S, \A y \in T : T \ {y} \in Good
      PROVE  T \in Good
  <2> SUFFICES ASSUME NEW z \in T PROVE Sum(T) = f[z] + Sum(T \ {z})
    OBVIOUS
  <2>1. PICK p : p = Picked(T)
    OBVIOUS
  <2>2. p \in T
    BY <2>1 DEF Picked
  <2>3. \A U \in SUBSET T : IsFiniteSet(U) /\ Sum(U) \in Int
    BY FS_Subset, SumInt
  <2>4. Sum(T) = f[p] + Sum(T \ {p})
    BY <2>1, <2>3, SumPicked
  <2>5. CASE p = z
    BY <2>4, <2>5
  <2>6. CASE p # z
    <3>1. Sum(T \ {p}) = f[z] + Sum((T \ {p}) \ {z})
      BY <1>1, <2>2, <2>6
    <3>2. Sum(T \ {z}) = f[p] + Sum((T \ {z}) \ {p})
      BY <1>1, <2>2, <2>6
    <3>3. (T \ {p}) \ {z} = (T \ {z}) \ {p}
      OBVIOUS
    <3>4. PICK R : R = (T \ {z}) \ {p} /\ R = (T \ {p}) \ {z}
      BY <3>3
    <3>5. Sum(R) \in Int /\ f[p] \in Int /\ f[z] \in Int
      BY <2>2, <2>3, <3>4
    <3> HIDE DEF Sum
    <3>6. Sum(T \ {p}) = f[z] + Sum(R) /\ Sum(T \ {z}) = f[p] + Sum(R)
      BY <3>1, <3>2, <3>4
    <3>7. QED
      BY <2>4, <3>5, <3>6
  <2>7. QED
    BY <2>5, <2>6
<1>2. Good \in SUBSET (SUBSET S)
  OBVIOUS
<1> HIDE DEF Good
<1>3. SUBSET S = Good
  <2>1. \A T \in SUBSET S : (\A y \in T : T \ {y} \in Good) => T \in Good
    BY <1>1
  <2>2. QED
    BY <1>2, <2>1, SubsetInduction
<1>4. QED
  BY <1>3 DEF Good

\* The sum depends on the terms only.
LEMMA SumSame ==
    ASSUME NEW S, IsFiniteSet(S), NEW f, NEW g, \A x \in S : f[x] = g[x]
    PROVE  SumFunctionOnSet(f, S) = SumFunctionOnSet(g, S)
<1> DEFINE Good == {T \in SUBSET S : SumFunctionOnSet(f, T) = SumFunctionOnSet(g, T)}
<1>1. ASSUME NEW T \in SUBSET S, \A x \in T : T \ {x} \in Good
      PROVE  T \in Good
  <2>1. IsFiniteSet(T)
    BY FS_Subset
  <2>2. CASE T = {}
    BY <2>2, SumEmpty
  <2>3. CASE T # {}
    <3>1. Picked(T) \in T
      BY <2>3 DEF Picked
    <3>2. SumFunctionOnSet(f, T \ {Picked(T)}) = SumFunctionOnSet(g, T \ {Picked(T)})
      BY <1>1, <3>1
    <3>3. /\ SumFunctionOnSet(f, T) = f[Picked(T)] + SumFunctionOnSet(f, T \ {Picked(T)})
          /\ SumFunctionOnSet(g, T) = g[Picked(T)] + SumFunctionOnSet(g, T \ {Picked(T)})
      BY <2>1, <2>3, SumPicked
    <3>4. QED
      BY <3>1, <3>2, <3>3
  <2>4. QED
    BY <2>2, <2>3
<1>2. Good \in SUBSET (SUBSET S)
  OBVIOUS
<1> HIDE DEF Good
<1>3. SUBSET S = Good
  <2>1. \A T \in SUBSET S : (\A x \in T : T \ {x} \in Good) => T \in Good
    BY <1>1
  <2>2. QED
    BY <1>2, <2>1, SubsetInduction
<1>4. QED
  BY <1>3 DEF Good

\* A sum of larger terms is larger.
LEMMA SumMonotone ==
    ASSUME NEW S, IsFiniteSet(S), NEW f, NEW g,
           \A x \in S : f[x] \in Int /\ g[x] \in Int /\ f[x] <= g[x]
    PROVE  SumFunctionOnSet(f, S) <= SumFunctionOnSet(g, S)
<1> DEFINE Good == {T \in SUBSET S : SumFunctionOnSet(f, T) <= SumFunctionOnSet(g, T)}
<1>1. ASSUME NEW T \in SUBSET S, \A x \in T : T \ {x} \in Good
      PROVE  T \in Good
  <2>1. IsFiniteSet(T) /\ \A U \in SUBSET T : IsFiniteSet(U)
    BY FS_Subset
  <2>2. CASE T = {}
    BY <2>2, SumEmpty
  <2>3. CASE T # {}
    <3>1. PICK x : x = Picked(T)
      OBVIOUS
    <3>2. x \in T
      BY <2>3, <3>1 DEF Picked
    <3>3. PICK a, b : a = SumFunctionOnSet(f, T \ {x}) /\ b = SumFunctionOnSet(g, T \ {x})
      OBVIOUS
    <3>4. a \in Int /\ b \in Int
      BY <2>1, <3>3, SumInt
    <3>5. a <= b
      BY <1>1, <3>2, <3>3
    <3>6. SumFunctionOnSet(f, T) = f[x] + a /\ SumFunctionOnSet(g, T) = g[x] + b
      BY <2>1, <2>3, <3>1, <3>3, SumPicked
    <3>7. QED
      BY <3>2, <3>4, <3>5, <3>6
  <2>4. QED
    BY <2>2, <2>3
<1>2. Good \in SUBSET (SUBSET S)
  OBVIOUS
<1> HIDE DEF Good
<1>3. SUBSET S = Good
  <2>1. \A T \in SUBSET S : (\A x \in T : T \ {x} \in Good) => T \in Good
    BY <1>1
  <2>2. QED
    BY <1>2, <2>1, SubsetInduction
<1>4. QED
  BY <1>3 DEF Good

\* The terms of one sum, and those of two.
LEMMA SumPlus ==
    ASSUME NEW S, IsFiniteSet(S), NEW f, NEW g, NEW h,
           \A x \in S : f[x] \in Int /\ g[x] \in Int /\ h[x] = f[x] + g[x]
    PROVE  SumFunctionOnSet(h, S) = SumFunctionOnSet(f, S) + SumFunctionOnSet(g, S)
<1> DEFINE Good == {T \in SUBSET S :
              SumFunctionOnSet(h, T) = SumFunctionOnSet(f, T) + SumFunctionOnSet(g, T)}
<1>1. ASSUME NEW T \in SUBSET S, \A x \in T : T \ {x} \in Good
      PROVE  T \in Good
  <2>1. IsFiniteSet(T) /\ \A U \in SUBSET T : IsFiniteSet(U)
    BY FS_Subset
  <2>2. CASE T = {}
    BY <2>2, SumEmpty
  <2>3. CASE T # {}
    <3>1. PICK x : x = Picked(T)
      OBVIOUS
    <3>2. x \in T
      BY <2>3, <3>1 DEF Picked
    <3>3. PICK a, b : a = SumFunctionOnSet(f, T \ {x}) /\ b = SumFunctionOnSet(g, T \ {x})
      OBVIOUS
    <3>4. a \in Int /\ b \in Int
      BY <2>1, <3>3, SumInt
    <3>5. SumFunctionOnSet(h, T \ {x}) = a + b
      BY <1>1, <3>2, <3>3
    <3>6. /\ SumFunctionOnSet(f, T) = f[x] + a /\ SumFunctionOnSet(g, T) = g[x] + b
          /\ SumFunctionOnSet(h, T) = h[x] + SumFunctionOnSet(h, T \ {x})
      BY <2>1, <2>3, <3>1, <3>3, SumPicked
    <3>7. f[x] \in Int /\ g[x] \in Int /\ h[x] = f[x] + g[x]
      BY <3>2
    <3>8. QED
      BY <3>4, <3>5, <3>6, <3>7
  <2>4. QED
    BY <2>2, <2>3
<1>2. Good \in SUBSET (SUBSET S)
  OBVIOUS
<1> HIDE DEF Good
<1>3. SUBSET S = Good
  <2>1. \A T \in SUBSET S : (\A x \in T : T \ {x} \in Good) => T \in Good
    BY <1>1
  <2>2. QED
    BY <1>2, <2>1, SubsetInduction
<1>4. QED
  BY <1>3 DEF Good

\* One term changes.
LEMMA SumChanged ==
    ASSUME NEW S, IsFiniteSet(S), NEW f, NEW g, NEW x \in S,
           \A y \in S : f[y] \in Int, g[x] \in Int, \A y \in S \ {x} : g[y] = f[y]
    PROVE  SumFunctionOnSet(g, S) = SumFunctionOnSet(f, S) - f[x] + g[x]
<1>1. PICK R : R = S \ {x}
  OBVIOUS
<1>2. IsFiniteSet(R) /\ R \subseteq S
  BY <1>1, FS_Subset
<1>3. PICK a : a = SumFunctionOnSet(f, R)
  OBVIOUS
<1>4. a \in Int
  BY <1>2, <1>3, SumInt
<1>5. SumFunctionOnSet(g, R) = a
  BY <1>1, <1>2, <1>3, SumSame
<1>6. \A y \in S : g[y] \in Int
  BY <1>1
<1>7. SumFunctionOnSet(f, S) = f[x] + a /\ SumFunctionOnSet(g, S) = g[x] + a
  BY <1>1, <1>3, <1>5, <1>6, SumSplit
<1>8. QED
  BY <1>4, <1>7

\* One term is added.
LEMMA SumAdded ==
    ASSUME NEW S, IsFiniteSet(S), NEW f, NEW x, x \notin S,
           \A y \in S : f[y] \in Int, f[x] \in Int
    PROVE  SumFunctionOnSet(f, S \cup {x}) = SumFunctionOnSet(f, S) + f[x]
<1>1. PICK T : T = S \cup {x}
  OBVIOUS
<1>2. IsFiniteSet(T) /\ x \in T /\ T \ {x} = S
  BY <1>1, FS_AddElement
<1>3. SumFunctionOnSet(f, T) = f[x] + SumFunctionOnSet(f, T \ {x})
  BY <1>1, <1>2, SumSplit
<1>4. PICK a, b : a = SumFunctionOnSet(f, S) /\ b = f[x]
  OBVIOUS
<1>5. \A y \in S : f[y] \in Int
  OBVIOUS
<1>6. a \in Int
  BY <1>4, <1>5, SumInt
<1>7. b \in Int
  BY <1>4
<1>8. SumFunctionOnSet(f, T) = b + a
  BY <1>2, <1>3, <1>4
<1>9. b + a = a + b
  BY <1>6, <1>7
<1>10. QED
  BY <1>1, <1>4, <1>8, <1>9

-----------------------------------------------------------------------------
(* Lemmas about the cash tables, which sales, purchases and cash desks write *)

\* A statement on another table keeps the cash tables well typed.
LEMMA SameCashType == CashBookTypeOK /\ UNCHANGED cashVars => CashBookTypeOK'
  BY DEF CashBookTypeOK, cashVars

\* Adding the movements of a request to a book gives a book.
LEMMA AddType ==
    ASSUME NEW book \in Book, NEW more \in Book
    PROVE  Add(book, more) \in Book
  BY DEF Add, Book

\* The totals of a book are integers.
LEMMA BuildTotalsType ==
    ASSUME NEW book \in Book, NEW opening \in Int
    PROVE  BuildSessionTotals(book, opening) \in Totals
<1>1. \A m \in Method : IncomeBy(book, m) \in Int
  BY DEF IncomeBy, MoveType, Book
<1>2. \A t \in MoveType : SumOfType(book, t) \in Int
  BY DEF SumOfType, Method, Book
<1>3. QED
  BY <1>1, <1>2 DEF BuildSessionTotals, Totals, Method, MoveType

\* A session just opened is a CashSession row.
LEMMA NewSessionType ==
    ASSUME NEW user \in User \cup {None}, NEW opening \in Int
    PROVE  NewSession(user, opening) \in SessionRow
<1>1. BuildSessionTotals(NoPosting, 0) \in Totals
  BY BuildTotalsType DEF NoPosting, Book
<1>2. [BuildSessionTotals(NoPosting, 0) EXCEPT !.expected = opening] \in Totals
  BY <1>1 DEF Totals
<1>3. QED
  BY <1>2 DEF NewSession, SessionRow

\* The sessions open when the history starts are well typed.
LEMMA CashBookInitType == CashBookInit => CashBookTypeOK
<1> SUFFICES ASSUME CashBookInit PROVE CashBookTypeOK
  OBVIOUS
<1>1. NoSession \in SessionRow
  BY NewSessionType DEF NoSession, SessionRow
<1>2. \A s \in Session : s <= Len(OpenAtStart) => OpenAtStart[s] \in User
  <2>1. \A i \in 1..Len(OpenAtStart) : OpenAtStart[i] \in User
    BY SessionAssumption, ElementOfSeq
  <2>2. QED
    BY <2>1, SessionAssumption DEF Session
<1>3. session \in [Session -> SessionRow]
  BY <1>1, <1>2, NewSessionType DEF CashBookInit
<1>4. QED
  BY <1>3 DEF CashBookInit, CashBookTypeOK, NoPosting, Book

\* Committing the movements of a request keeps the tables well typed.
LEMMA CommitPostingsType ==
    ASSUME CashBookTypeOK, NEW r \in Request, CommitPostings(r), UNCHANGED session
    PROVE  CashBookTypeOK'
<1>1. \A s \in Session : Add(takings[s], posting[r]) \in Book
  BY AddType DEF CashBookTypeOK
<1>2. takings' \in [Session -> Book]
  BY <1>1 DEF CashBookTypeOK, CommitPostings
<1>3. QED
  BY <1>2 DEF CashBookTypeOK, CommitPostings, NoPosting, Book

\* So does dropping them.
LEMMA DropPostingsType ==
    ASSUME CashBookTypeOK, NEW r \in Request, DropPostings(r), UNCHANGED session
    PROVE  CashBookTypeOK'
  BY DEF CashBookTypeOK, DropPostings, NoPosting, Book

\* The payments of a sale make a book.
LEMMA PostType ==
    ASSUME NEW pays \in [Method -> Int]
    PROVE  Post("SALE", pays) \in Book
  BY DEF Post, NoPosting, Book, MoveType, Method

\* A single movement makes a book.
LEMMA PostOneType ==
    ASSUME NEW type \in MoveType, NEW method \in Method, NEW amount \in Int
    PROVE  PostOne(type, method, amount) \in Book
  BY DEF PostOne, NoPosting, Book, MoveType, Method

-----------------------------------------------------------------------------
(* Lemmas about the statements of ProductRows *)

\* A statement on another table keeps this one well typed.
LEMMA SameRowsType == RowsTypeOK /\ UNCHANGED rowVars => RowsTypeOK'
  BY DEF RowsTypeOK, rowVars

\* An update of the stock keeps the table well typed.
LEMMA WriteStockType ==
    ASSUME RowsTypeOK, NEW r \in Request, NEW p \in Product,
           NEW value \in Int, NEW delta \in Int, WriteStock(r, p, value, delta)
    PROVE  RowsTypeOK'
  BY DEF RowsTypeOK, WriteStock

\* So does the commit of a transaction.
LEMMA CommitRowsType ==
    ASSUME RowsTypeOK, NEW r \in Request, CommitRows(r)
    PROVE  RowsTypeOK'
  BY DEF RowsTypeOK, CommitRows, Visible, Released, NoMoves

\* So does its rollback.
LEMMA RollbackRowsType ==
    ASSUME RowsTypeOK, NEW r \in Request, RollbackRows(r)
    PROVE  RowsTypeOK'
  BY DEF RowsTypeOK, RollbackRows, Released, NoMoves

-----------------------------------------------------------------------------
(* Facts about the constants and the helpers *)

\* An order in the shape the actions use.
LEMMA OrderFacts ==
    ASSUME NEW o \in Order
    PROVE  /\ o.items \in Seq([product: Product, quantity: Nat \ {0}])
           /\ Len(o.items) \in Nat \ {0}
           /\ o.total \in Nat
           /\ o.pays \in [Method -> Nat]
           /\ \A i \in 1..Len(o.items) :
                /\ o.items[i].product \in Product
                /\ o.items[i].quantity \in Nat \ {0}
<1>1. /\ o.items \in Seq([product: Product, quantity: Nat \ {0}])
      /\ o.items # <<>>
      /\ o.total \in Nat
      /\ o.pays \in [Method -> Nat]
  BY SalesAssumption DEF OrderType
<1>2. Len(o.items) \in Nat \ {0}
  BY <1>1
<1>3. \A i \in 1..Len(o.items) : o.items[i] \in [product: Product, quantity: Nat \ {0}]
  BY <1>1, ElementOfSeq
<1>4. QED
  BY <1>1, <1>2, <1>3

\* None is no request: a free row is held by nobody.
LEMMA NoneIsNoRequest == None \notin Request
  BY RequestAssumption


-----------------------------------------------------------------------------
(* Type correctness *)

\* A handler in the middle of its items has an order and a valid index.
LocalAt(r) ==
    /\ pc[r] \in SaleLabel => order[r] \in Order
    /\ pc[r] \in {"validate", "decrement", "readStock", "restock"} =>
         at[r] \in 1..Len(order[r].items)
    /\ pc[r] \in {"count", "insert", "mark"} => at[r] = 1
    /\ pc[r] = "commitSale" => till[r] \in Session
    /\ pc[r] \in {"insert", "decrement", "collect", "commitSale"} => number[r] \in SaleNumber
    /\ pc[r] \in CancelLabel => number[r] \in Registered

LocalOK == \A r \in Request : LocalAt(r)

TypeInv == TypeOK /\ LocalOK

\* A cancelled sale is a Sale row.
LEMMA SaleRowExcept ==
    ASSUME NEW row \in SaleRow
    PROVE  [row EXCEPT !.status = "CANCELLED", !.cancellations = @ + 1] \in SaleRow
<1> DEFINE mid == [row EXCEPT !.status = "CANCELLED"]
<1>1. mid \in SaleRow
  BY DEF SaleRow
<1> HIDE DEF mid
<1>2. [mid EXCEPT !.cancellations = mid.cancellations + 1] \in SaleRow
  <2>1. mid.cancellations + 1 \in Nat
    BY <1>1 DEF SaleRow
  <2>2. QED
    BY <1>1, <2>1 DEF SaleRow
<1>3. mid.cancellations = row.cancellations
  BY DEF mid, SaleRow
<1>4. QED
  BY <1>1, <1>2, <1>3 DEF mid, SaleRow

\* The registered sales can be counted.
LEMMA RegisteredFinite ==
    /\ IsFiniteSet(Registered)
    /\ Cardinality(Registered) \in Nat
<1>1. IsFiniteSet(SaleNumber)
  BY FS_Interval, SalesAssumption DEF SaleNumber
<1>2. Registered \subseteq SaleNumber
  BY DEF Registered
<1>3. QED
  BY <1>1, <1>2, FS_Subset, FS_CardinalityType

\* The initial state has the type.
LEMMA InitTypeInv == Init => TypeInv
<1> SUFFICES ASSUME Init PROVE TypeInv
  OBVIOUS
<1>1. RowsTypeOK
  BY ProductAssumption DEF Init, RowsInit, RowsTypeOK, NoMoves
<1>2. CashBookTypeOK
  BY CashBookInitType DEF Init
<1>3. sale \in [SaleNumber -> SaleRow \cup {NoSale}]
  BY DEF Init
<1>4. QED
  BY <1>1, <1>2, <1>3 DEF Init, TypeInv, TypeOK, LocalOK, LocalAt, SaleLabel, CreateLabel, CancelLabel

\* The facts about its own item that a handler in a loop relies on.
LEMMA ItemFacts ==
    ASSUME TypeInv, NEW r \in Request,
           pc[r] \in {"validate", "decrement", "readStock", "restock"}
    PROVE  /\ order[r] \in Order
           /\ at[r] \in 1..Len(order[r].items)
           /\ Len(order[r].items) \in Nat \ {0}
           /\ Item(r).product \in Product
           /\ Item(r).quantity \in Nat \ {0}
<1>1. order[r] \in Order /\ at[r] \in 1..Len(order[r].items)
  BY DEF TypeInv, LocalOK, LocalAt, SaleLabel, CreateLabel, CancelLabel
<1>2. QED
  BY <1>1, OrderFacts DEF Item

\* A step of r leaves the local variables of the other handlers alone.
LEMMA LocalFrame ==
    ASSUME LocalOK, NEW r \in Request, LocalAt(r)', Registered \subseteq Registered',
           \A q \in Request \ {r} :
               /\ pc'[q] = pc[q]
               /\ order'[q] = order[q]
               /\ at'[q] = at[q]
               /\ number'[q] = number[q]
               /\ till'[q] = till[q]
    PROVE  LocalOK'
  BY DEF LocalOK, LocalAt

\* Moving to the next item keeps the index in range.
LEMMA NextItemFacts ==
    ASSUME TypeInv, NEW r \in Request, NEW from,
           NEW again \in SaleLabel, NEW next \in SaleLabel,
           from \in {"validate", "decrement", "readStock", "restock"},
           NextItem(r, from, again, next)
    PROVE  /\ pc[r] = from
           /\ DOMAIN pc' = Request
           /\ at' \in [Request -> Nat]
           /\ \A q \in Request \ {r} : pc'[q] = pc[q] /\ at'[q] = at[q]
           /\ \/ /\ pc' = [pc EXCEPT ![r] = again]
                 /\ at'[r] \in 1..Len(order[r].items)
              \/ /\ pc' = [pc EXCEPT ![r] = next]
                 /\ at'[r] = 1
<1>1. pc[r] = from
  BY DEF NextItem
<1>2. at[r] \in 1..Len(order[r].items) /\ Len(order[r].items) \in Nat \ {0}
  BY <1>1, ItemFacts
<1>3. DOMAIN pc = Request /\ at \in [Request -> Nat]
  BY DEF TypeInv, TypeOK
<1>4. CASE at[r] < Len(order[r].items)
  <2>1. pc' = [pc EXCEPT ![r] = again] /\ at' = [at EXCEPT ![r] = at[r] + 1]
    BY <1>2, <1>4 DEF NextItem, Step
  <2>2. at[r] + 1 \in 1..Len(order[r].items)
    BY <1>2, <1>4
  <2>3. QED
    BY <1>1, <1>3, <2>1, <2>2
<1>5. CASE at[r] >= Len(order[r].items)
  <2>1. pc' = [pc EXCEPT ![r] = next] /\ at' = [at EXCEPT ![r] = 1]
    BY <1>2, <1>5 DEF NextItem, Step
  <2>2. QED
    BY <1>1, <1>3, <2>1
<1>6. QED
  BY <1>2, <1>4, <1>5

\* Every step keeps it.
LEMMA NextTypeInv == TypeInv /\ [Next]_vars => TypeInv'
<1> SUFFICES ASSUME TypeInv, [Next]_vars PROVE TypeInv'
  OBVIOUS
<1> USE DEF SaleLabel, CreateLabel, CancelLabel, Step
<1>0. TypeOK /\ LocalOK
  BY DEF TypeInv
<1>1. ASSUME NEW r \in Request, NEW o \in Order, StartSale(r, o)
      PROVE  TypeInv'
  <2>1. TypeOK'
    BY <1>0, <1>1, SameRowsType, SameCashType DEF TypeOK, StartSale
  <2>2. LocalAt(r)'
    BY <1>0, <1>1, OrderFacts DEF TypeOK, StartSale, LocalAt
  <2>3. QED
    BY <1>0, <1>1, <2>1, <2>2, LocalFrame DEF StartSale, cashVars, Registered, TypeInv, TypeOK
<1>2. ASSUME NEW r \in Request, ValidateItem(r)
      PROVE  TypeInv'
  <2>1. NextItem(r, "validate", "validate", "count") /\ order[r] \in Order
    BY <1>2, ItemFacts DEF ValidateItem, NextItem
  <2>2. /\ DOMAIN pc' = Request
        /\ at' \in [Request -> Nat]
    BY <1>0, <2>1, NextItemFacts DEF TypeOK
  <2>3. TypeOK'
    BY <1>0, <1>2, <2>1, <2>2, SameRowsType, SameCashType DEF TypeOK, ValidateItem
  <2>4. LocalAt(r)'
    BY <1>0, <1>2, <2>1, NextItemFacts DEF TypeOK, ValidateItem, LocalAt
  <2>5. QED
    BY <1>0, <1>2, <2>1, <2>3, <2>4, LocalFrame, NextItemFacts
       DEF ValidateItem, cashVars, Registered, TypeInv
<1>3. ASSUME NEW r \in Request, CountSales(r)
      PROVE  TypeInv'
  <2>1. Cardinality(Registered) + 1 \in SaleNumber
    BY <1>3, RegisteredFinite, SalesAssumption DEF CountSales, SaleNumber
  <2>2. TypeOK'
    BY <1>0, <1>3, <2>1, SameRowsType, SameCashType DEF TypeOK, CountSales, SaleNumber
  <2>3. LocalAt(r)'
    BY <1>0, <1>3, <2>1 DEF TypeOK, LocalOK, CountSales, LocalAt
  <2>4. QED
    BY <1>0, <1>3, <2>2, <2>3, LocalFrame DEF CountSales, cashVars, Registered, TypeInv, TypeOK
<1>4. ASSUME NEW r \in Request, InsertSale(r)
      PROVE  TypeInv'
  <2>1. TypeOK'
    BY <1>0, <1>4, SameRowsType, SameCashType DEF TypeOK, InsertSale, saleVars
  <2>2. LocalAt(r)'
    BY <1>0, <1>4, OrderFacts DEF TypeOK, LocalOK, InsertSale, saleVars, LocalAt
  <2>3. QED
    BY <1>0, <1>4, <2>1, <2>2, LocalFrame DEF InsertSale, cashVars, saleVars, Registered,
       TypeInv, TypeOK
<1>5. ASSUME NEW r \in Request, DecrementStock(r)
      PROVE  TypeInv'
  <2>1. NextItem(r, "decrement", "decrement", "collect") /\ pc[r] = "decrement"
    BY <1>5 DEF DecrementStock, NextItem
  <2>2. RowsTypeOK'
    BY <1>0, <1>5, <2>1, ItemFacts, WriteStockType DEF DecrementStock, RowsTypeOK, TypeOK
  <2>3. /\ DOMAIN pc' = Request
        /\ at' \in [Request -> Nat]
    BY <1>0, <2>1, NextItemFacts DEF TypeOK
  <2>4. TypeOK'
    BY <1>0, <1>5, <2>1, <2>3, <2>2, SameCashType DEF TypeOK, DecrementStock
  <2>5. LocalAt(r)'
    BY <1>0, <1>5, <2>1, NextItemFacts, ItemFacts DEF TypeOK, LocalOK, DecrementStock, LocalAt
  <2>6. QED
    BY <1>0, <1>5, <2>1, <2>4, <2>5, LocalFrame, NextItemFacts
       DEF DecrementStock, cashVars, Registered, TypeInv
<1>6. ASSUME NEW r \in Request, CollectPayment(r)
      PROVE  TypeInv'
  <2>1. order[r].pays \in [Method -> Int]
    BY <1>0, <1>6, OrderFacts DEF CollectPayment, LocalOK, LocalAt
  <2>2. Post("SALE", order[r].pays) \in Book
    BY <2>1, PostType
  <2>3. /\ till' \in [Request -> Session \cup {None}]
        /\ till'[r] \in Session
    BY <1>0, <1>6 DEF CollectPayment, OpenSessionsOf, TypeOK, CashBookTypeOK
  <2>4. CashBookTypeOK'
    BY <1>0, <1>6, <2>2, <2>3 DEF TypeOK, CashBookTypeOK, CollectPayment
  <2>5. TypeOK'
    BY <1>0, <1>6, <2>4, SameRowsType DEF TypeOK, CollectPayment, saleVars
  <2>6. LocalAt(r)'
    BY <1>0, <1>6, <2>3 DEF TypeOK, LocalOK, CollectPayment, saleVars, LocalAt
  <2>7. QED
    BY <1>0, <1>6, <2>5, <2>6, LocalFrame DEF CollectPayment, saleVars, Registered, TypeInv,
       TypeOK, CashBookTypeOK
<1>7. ASSUME NEW r \in Request, CommitSale(r)
      PROVE  TypeInv'
  <2>1. RowsTypeOK' /\ CashBookTypeOK'
    BY <1>0, <1>7, CommitRowsType, CommitPostingsType DEF CommitSale, TypeOK
  <2>2. /\ Registered \subseteq Registered'
        /\ sale' \in [SaleNumber -> SaleRow \cup {NoSale}]
    BY <1>0, <1>7 DEF CommitSale, SaleRow, LocalOK, LocalAt, TypeOK, Registered
  <2>3. TypeOK'
    BY <1>0, <1>7, <2>1, <2>2 DEF TypeOK, CommitSale, Forget
  <2>4. LocalAt(r)'
    BY <1>0, <1>7 DEF TypeOK, CommitSale, LocalAt
  <2>5. QED
    BY <1>0, <1>7, <2>2, <2>3, <2>4, LocalFrame DEF CommitSale, Forget, CommitPostings,
       TypeInv, TypeOK, CashBookTypeOK
<1>8. ASSUME NEW r \in Request, NEW n \in SaleNumber, StartCancel(r, n)
      PROVE  TypeInv'
  <2>1. n \in Registered /\ sale[n].order \in Order /\ n \in Nat
    <3>1. sale[n] \in SaleRow
      BY <1>0, <1>8 DEF StartCancel, NoSale, TypeOK
    <3>2. sale[n].order \in Order
      BY <3>1 DEF SaleRow
    <3>3. QED
      BY <1>8, <3>2 DEF StartCancel, Registered, SaleNumber
  <2>2. TypeOK'
    BY <1>0, <1>8, <2>1, SameRowsType, SameCashType DEF TypeOK, StartCancel
  <2>3. LocalAt(r)'
    BY <1>0, <1>8, <2>1, OrderFacts DEF TypeOK, StartCancel, LocalAt, Registered
  <2>4. QED
    BY <1>0, <1>8, <2>2, <2>3, LocalFrame DEF StartCancel, cashVars, Registered, TypeInv, TypeOK
<1>9. ASSUME NEW r \in Request, ReadStock(r)
      PROVE  TypeInv'
  <2>1. Visible(r, Item(r).product) \in Int
    BY <1>0, <1>9, ItemFacts DEF ReadStock, Visible, RowsTypeOK, TypeOK
  <2>2. TypeOK'
    BY <1>0, <1>9, <2>1, SameRowsType, SameCashType DEF TypeOK, ReadStock
  <2>3. LocalAt(r)'
    BY <1>0, <1>9 DEF TypeOK, LocalOK, ReadStock, LocalAt, Registered
  <2>4. QED
    BY <1>0, <1>9, <2>2, <2>3, LocalFrame DEF ReadStock, cashVars, Registered, TypeInv, TypeOK
<1>10. ASSUME NEW r \in Request, Restock(r)
       PROVE  TypeInv'
  <2>1. NextItem(r, "restock", "readStock", "mark") /\ pc[r] = "restock"
    BY <1>10 DEF Restock, NextItem
  <2>2. RowsTypeOK'
    BY <1>0, <1>10, <2>1, ItemFacts, WriteStockType DEF Restock, RowsTypeOK, TypeOK
  <2>3. /\ DOMAIN pc' = Request
        /\ at' \in [Request -> Nat]
    BY <1>0, <2>1, NextItemFacts DEF TypeOK
  <2>4. TypeOK'
    BY <1>0, <1>10, <2>1, <2>3, <2>2, SameCashType DEF TypeOK, Restock
  <2>5. LocalAt(r)'
    BY <1>0, <1>10, <2>1, NextItemFacts, ItemFacts DEF TypeOK, LocalOK, Restock, LocalAt,
       Registered
  <2>6. QED
    BY <1>0, <1>10, <2>1, <2>4, <2>5, LocalFrame, NextItemFacts
       DEF Restock, cashVars, Registered, TypeInv
<1>11. ASSUME NEW r \in Request, MarkCancelled(r)
       PROVE  TypeInv'
  <2>1. TypeOK'
    BY <1>0, <1>11, SameRowsType, SameCashType DEF TypeOK, MarkCancelled, saleVars
  <2>2. LocalAt(r)'
    BY <1>0, <1>11 DEF TypeOK, LocalOK, MarkCancelled, saleVars, LocalAt, Registered
  <2>3. QED
    BY <1>0, <1>11, <2>1, <2>2, LocalFrame DEF MarkCancelled, cashVars, saleVars, Registered,
       TypeInv, TypeOK
<1>12. ASSUME NEW r \in Request, RefundSale(r)
       PROVE  TypeInv'
  <2>1. -order[r].total \in Int
    BY <1>0, <1>12, OrderFacts DEF RefundSale, LocalOK, LocalAt
  <2>2. PostOne("INCOME", "CASH", -order[r].total) \in Book
    BY <2>1, PostOneType DEF MoveType, Method
  <2>3. CashBookTypeOK'
    BY <1>0, <1>12, <2>2 DEF RefundSale, OpenSessionsOf, TypeOK, CashBookTypeOK
  <2>4. TypeOK'
    BY <1>0, <1>12, <2>3, SameRowsType DEF TypeOK, RefundSale, saleVars
  <2>5. LocalAt(r)'
    BY <1>0, <1>12 DEF TypeOK, LocalOK, RefundSale, saleVars, LocalAt, Registered
  <2>6. QED
    BY <1>0, <1>12, <2>4, <2>5, LocalFrame DEF RefundSale, saleVars, Registered, TypeInv,
       TypeOK, CashBookTypeOK
<1>13. ASSUME NEW r \in Request, CommitCancel(r)
       PROVE  TypeInv'
  <2>1. RowsTypeOK' /\ CashBookTypeOK'
    BY <1>0, <1>13, CommitRowsType, CommitPostingsType DEF CommitCancel, TypeOK
  <2>2. number[r] \in SaleNumber /\ sale[number[r]] \in SaleRow
    BY <1>0, <1>13 DEF CommitCancel, Registered, NoSale, LocalOK, LocalAt, TypeOK
  <2>3. sale' = [sale EXCEPT ![number[r]] =
                   [sale[number[r]] EXCEPT !.status = "CANCELLED", !.cancellations = @ + 1]]
    BY <1>0, <1>13, <2>2 DEF CommitCancel, TypeOK, SaleRow
  <2>4. [sale[number[r]] EXCEPT !.status = "CANCELLED", !.cancellations = @ + 1] \in SaleRow
    BY <2>2, SaleRowExcept
  <2>5. sale' \in [SaleNumber -> SaleRow \cup {NoSale}]
    BY <1>0, <2>2, <2>3, <2>4 DEF TypeOK
  <2>6. Registered' = Registered
    BY <1>0, <2>2, <2>3, <2>4 DEF TypeOK, SaleRow, Registered
  <2>7. TypeOK'
    BY <1>0, <1>13, <2>1, <2>5 DEF TypeOK, CommitCancel, Forget
  <2>8. LocalAt(r)'
    BY <1>0, <1>13 DEF TypeOK, CommitCancel, LocalAt
  <2>9. QED
    BY <1>0, <1>13, <2>6, <2>7, <2>8, LocalFrame DEF CommitCancel, Forget, CommitPostings,
       TypeInv, TypeOK, CashBookTypeOK
<1>14. ASSUME NEW r \in Request, RollbackSale(r)
       PROVE  TypeInv'
  <2>1. RowsTypeOK' /\ CashBookTypeOK'
    BY <1>0, <1>14, RollbackRowsType, DropPostingsType DEF RollbackSale, TypeOK
  <2>2. TypeOK'
    BY <1>0, <1>14, <2>1 DEF TypeOK, RollbackSale, Forget
  <2>3. LocalAt(r)'
    BY <1>0, <1>14 DEF TypeOK, RollbackSale, LocalAt
  <2>4. QED
    BY <1>0, <1>14, <2>2, <2>3, LocalFrame DEF RollbackSale, Forget, DropPostings, Registered,
       TypeInv, TypeOK, CashBookTypeOK
<1>15. ASSUME UNCHANGED vars
       PROVE  TypeInv'
  BY <1>0, <1>15 DEF vars, rowVars, cashVars, saleVars, RowsTypeOK, CashBookTypeOK, Registered,
     TypeInv, TypeOK, LocalOK, LocalAt
<1>16. QED
  BY <1>1, <1>2, <1>3, <1>4, <1>5, <1>6, <1>7, <1>8, <1>9, <1>10, <1>11, <1>12,
     <1>13, <1>14, <1>15 DEF Next, SellNext, CancelNext, CreateStep, CancelStep

\* The type invariant of Sales holds in every reachable state.
THEOREM SalesTypeOK == Spec => []TypeOK
<1>1. Init => TypeInv
  BY InitTypeInv
<1>2. TypeInv /\ [Next]_vars => TypeInv'
  BY NextTypeInv
<1>3. TypeInv => TypeOK
  BY DEF TypeInv
<1>4. QED
  BY <1>1, <1>2, <1>3, PTL DEF Spec

-----------------------------------------------------------------------------
(* The stock is never negative *)

\* Neither are the stocks the cancellations have read and will write back.
SeenNotNegative == \A r \in Request : seen[r] >= 0

StockInv == StockNeverNegative /\ SeenNotNegative

\* A version written without going below zero keeps the table so.
LEMMA WriteNotNegative ==
    ASSUME TypeInv, StockNeverNegative, NEW r \in Request, NEW p \in Product,
           NEW value \in Nat, NEW delta, WriteStock(r, p, value, delta)
    PROVE  StockNeverNegative'
  BY DEF TypeInv, TypeOK, RowsTypeOK, WriteStock, StockNeverNegative

\* What a request reads is not negative.
LEMMA VisibleNotNegative ==
    ASSUME TypeInv, StockNeverNegative, NEW r \in Request, NEW p \in Product
    PROVE  Visible(r, p) \in Nat
  BY DEF TypeInv, TypeOK, RowsTypeOK, Visible, StockNeverNegative

\* Every step keeps the stock from being negative.
LEMMA NextStockInv == TypeInv /\ StockInv /\ [Next]_vars => StockInv'
<1> SUFFICES ASSUME TypeInv, StockInv, [Next]_vars PROVE StockInv'
  OBVIOUS
<1>0. TypeOK /\ LocalOK /\ StockNeverNegative /\ SeenNotNegative
  BY DEF TypeInv, StockInv
<1>1. ASSUME UNCHANGED rowVars, UNCHANGED seen
      PROVE  StockInv'
  BY <1>0, <1>1 DEF StockInv, StockNeverNegative, SeenNotNegative, rowVars
<1>2. ASSUME NEW r \in Request, seen' = [seen EXCEPT ![r] = 0]
      PROVE  SeenNotNegative'
  BY <1>0, <1>2 DEF SeenNotNegative, TypeOK
<1>3. ASSUME NEW r \in Request, DecrementStock(r)
      PROVE  StockInv'
  <2>1. pc[r] = "decrement"
    BY <1>3 DEF DecrementStock, NextItem
  <2> DEFINE p == Item(r).product
             left == live[p] - Item(r).quantity
  <2>2. p \in Product /\ Item(r).quantity \in Nat \ {0} /\ live[p] \in Int
    BY <1>0, <2>1, ItemFacts DEF TypeOK, RowsTypeOK
  <2>3. left \in Nat
    BY <1>3, <2>2 DEF DecrementStock
  <2>4. StockNeverNegative'
    BY <1>0, <1>3, <2>2, <2>3, WriteNotNegative DEF DecrementStock
  <2>5. QED
    BY <1>0, <1>3, <2>4 DEF DecrementStock, StockInv, SeenNotNegative
<1>4. ASSUME NEW r \in Request, CommitRows(r) \/ RollbackRows(r), Forget(r)
      PROVE  StockInv'
  <2>1. StockNeverNegative'
    <3>1. CASE CommitRows(r)
      BY <1>0, <3>1, VisibleNotNegative DEF CommitRows, StockNeverNegative, TypeOK, RowsTypeOK
    <3>2. CASE RollbackRows(r)
      BY <1>0, <3>2 DEF RollbackRows, StockNeverNegative, TypeOK, RowsTypeOK
    <3>3. QED
      BY <1>4, <3>1, <3>2
  <2>2. QED
    BY <1>2, <1>4, <2>1 DEF Forget, StockInv
<1>5. ASSUME NEW r \in Request, ReadStock(r)
      PROVE  StockInv'
  <2>1. Visible(r, Item(r).product) \in Nat
    BY <1>0, <1>5, ItemFacts, VisibleNotNegative DEF ReadStock, Step
  <2>2. SeenNotNegative'
    BY <1>0, <1>5, <2>1 DEF ReadStock, SeenNotNegative, TypeOK
  <2>3. QED
    BY <1>0, <1>5, <2>2 DEF ReadStock, StockInv, StockNeverNegative, rowVars
<1>6. ASSUME NEW r \in Request, Restock(r)
      PROVE  StockInv'
  <2>1. pc[r] = "restock"
    BY <1>6 DEF Restock, NextItem
  <2>2. Item(r).product \in Product /\ seen[r] + Item(r).quantity \in Nat
    BY <1>0, <2>1, ItemFacts DEF SeenNotNegative, TypeOK
  <2>3. StockNeverNegative'
    BY <1>0, <1>6, <2>2, WriteNotNegative DEF Restock
  <2>4. QED
    BY <1>0, <1>6, <2>3 DEF Restock, StockInv, SeenNotNegative
<1>7. CASE UNCHANGED vars
  BY <1>1, <1>7 DEF vars, saleVars
<1>8. ASSUME NEW r \in Request, CreateStep(r) PROVE StockInv'
  BY <1>1, <1>3, <1>4, <1>8 DEF CreateStep, ValidateItem, CountSales, InsertSale,
     CollectPayment, CommitSale, saleVars
<1>9. ASSUME NEW r \in Request, CancelStep(r) PROVE StockInv'
  BY <1>1, <1>4, <1>5, <1>6, <1>9 DEF CancelStep, MarkCancelled, RefundSale, CommitCancel,
     saleVars
<1>10. ASSUME NEW r \in Request, RollbackSale(r) PROVE StockInv'
  BY <1>4, <1>10 DEF RollbackSale
<1>11. ASSUME NEW r \in Request, NEW o \in Order, StartSale(r, o) PROVE StockInv'
  BY <1>1, <1>11 DEF StartSale
<1>12. ASSUME NEW r \in Request, NEW n \in SaleNumber, StartCancel(r, n) PROVE StockInv'
  BY <1>1, <1>12 DEF StartCancel
<1>13. QED
  BY <1>7, <1>8, <1>9, <1>10, <1>11, <1>12 DEF Next, SellNext, CancelNext

\* Whatever sales and cancellations run at once, no stock goes below zero.
THEOREM SalesStockNeverNegative == Spec => []StockNeverNegative
<1>1. Init => TypeInv /\ StockInv
  <2>1. Init => StockInv
    BY ProductAssumption DEF Init, RowsInit, StockInv, StockNeverNegative, SeenNotNegative
  <2>2. QED
    BY <2>1, InitTypeInv
<1>2. TypeInv /\ StockInv /\ [Next]_vars => (TypeInv /\ StockInv)'
  BY NextTypeInv, NextStockInv
<1>3. TypeInv /\ StockInv => StockNeverNegative
  BY DEF StockInv
<1>4. QED
  BY <1>1, <1>2, <1>3, PTL DEF Spec

-----------------------------------------------------------------------------
(* Sale codes and the order of sales *)

\* A number computed by count + 1 is at most the next one, since sales are only
\* added; the one inserted and not yet committed is exactly the next.
NumbersInRange ==
    \A r \in Request :
        /\ pc[r] = "insert" => number[r] <= Cardinality(Registered) + 1
        /\ HasInserted(r) => number[r] = Cardinality(Registered) + 1

CodesInv == CodesAreConsecutive /\ NumbersInRange /\ SalesAreSerialised

\* A step that registers no sale, computes no number and enters no insert.
LEMMA CodesFrame ==
    ASSUME CodesInv, NEW r \in Request, Registered' = Registered,
           \A q \in Request \ {r} : pc'[q] = pc[q] /\ number'[q] = number[q],
           pc'[r] = "insert" => number'[r] <= Cardinality(Registered) + 1,
           HasInserted(r)' => HasInserted(r) /\ number'[r] = number[r]
    PROVE  CodesInv'
<1> USE DEF CodesInv, HasInserted
<1>1. CodesAreConsecutive'
  BY DEF CodesAreConsecutive
<1>2. NumbersInRange'
  BY DEF NumbersInRange
<1>3. SalesAreSerialised'
  BY DEF SalesAreSerialised
<1>4. QED
  BY <1>1, <1>2, <1>3

\* Every step keeps the codes consecutive.
LEMMA NextCodesInv == TypeInv /\ CodesInv /\ [Next]_vars => CodesInv'
<1> SUFFICES ASSUME TypeInv, CodesInv, [Next]_vars PROVE CodesInv'
  OBVIOUS
<1> DEFINE c == Cardinality(Registered)
<1>0. /\ TypeOK /\ LocalOK
      /\ CodesAreConsecutive /\ NumbersInRange /\ SalesAreSerialised
      /\ c \in Nat
  BY RegisteredFinite DEF TypeInv, CodesInv
<1>1. ASSUME NEW r \in Request, CountSales(r)
      PROVE  CodesInv'
  <2>1. Registered' = Registered
    BY <1>1 DEF CountSales, Registered
  <2>2. /\ number'[r] = c + 1
        /\ pc'[r] = "insert"
        /\ \A q \in Request \ {r} : pc'[q] = pc[q] /\ number'[q] = number[q]
    BY <1>0, <1>1 DEF CountSales, Step, TypeOK
  <2>3. QED
    BY <1>0, <2>1, <2>2, CodesFrame DEF HasInserted
<1>2. ASSUME NEW r \in Request, InsertSale(r)
      PROVE  CodesInv'
  <2>1. Registered' = Registered /\ number' = number
    BY <1>2 DEF InsertSale, saleVars, Registered
  <2>2. pc[r] = "insert" /\ pc' = [pc EXCEPT ![r] = "decrement"]
    BY <1>2 DEF InsertSale, Step
  <2>3. number[r] = c + 1
    <3>1. number[r] \in SaleNumber /\ number[r] <= c + 1
      BY <1>0, <2>2 DEF LocalOK, LocalAt, NumbersInRange
    <3>2. number[r] \notin 1..c
      BY <1>0, <1>2 DEF InsertSale, CodesAreConsecutive
    <3>3. QED
      BY <1>0, <3>1, <3>2, SalesAssumption DEF SaleNumber
  <2>4. \A q \in Request : ~HasInserted(q)
    BY <1>0, <1>2, <2>3 DEF InsertSale, NumbersInRange
  <2>5. \A q \in Request \ {r} : pc'[q] = pc[q]
    BY <1>0, <2>2 DEF TypeOK
  <2>6. CodesAreConsecutive'
    BY <1>0, <2>1 DEF CodesAreConsecutive
  <2>7. NumbersInRange'
    BY <1>0, <2>1, <2>2, <2>3, <2>4, <2>5 DEF NumbersInRange, HasInserted, TypeOK
  <2>8. SalesAreSerialised'
    BY <2>4, <2>5 DEF SalesAreSerialised, HasInserted
  <2>9. QED
    BY <2>6, <2>7, <2>8 DEF CodesInv
<1>3. ASSUME NEW r \in Request, CommitSale(r)
      PROVE  CodesInv'
  <2>1. pc[r] = "commitSale" /\ pc' = [pc EXCEPT ![r] = "idle"]
    BY <1>3 DEF CommitSale, Step
  <2>2. number[r] = c + 1 /\ number[r] \in SaleNumber
    BY <1>0, <2>1 DEF NumbersInRange, HasInserted, LocalOK, LocalAt
  <2>3. Registered' = Registered \cup {c + 1}
    BY <1>0, <1>3, <2>2 DEF CommitSale, Registered, TypeOK
  <2>4. c + 1 \notin Registered
    BY <1>0 DEF CodesAreConsecutive
  <2>5. Cardinality(Registered') = c + 1
    BY <2>3, <2>4, RegisteredFinite, FS_AddElement
  <2>6. /\ pc'[r] = "idle"
        /\ \A q \in Request \ {r} : pc'[q] = pc[q] /\ number'[q] = number[q]
    BY <1>0, <1>3, <2>1 DEF CommitSale, Forget, TypeOK
  <2>7. \A q \in Request : ~HasInserted(q)'
    BY <1>0, <2>1, <2>6 DEF SalesAreSerialised, HasInserted
  <2>8. CodesAreConsecutive'
    BY <1>0, <2>3, <2>5 DEF CodesAreConsecutive
  <2>9. NumbersInRange'
    BY <1>0, <2>5, <2>6, <2>7 DEF NumbersInRange, TypeOK
  <2>10. SalesAreSerialised'
    BY <2>7 DEF SalesAreSerialised
  <2>11. QED
    BY <2>8, <2>9, <2>10 DEF CodesInv
<1>4. ASSUME NEW r \in Request, CommitCancel(r)
      PROVE  CodesInv'
  <2>1. number[r] \in SaleNumber /\ sale[number[r]] \in SaleRow
    BY <1>0, <1>4 DEF CommitCancel, Step, Registered, NoSale, LocalOK, LocalAt, TypeOK,
       SaleLabel, CancelLabel
  <2>2. sale'[number[r]].status = "CANCELLED"
    BY <1>0, <1>4, <2>1 DEF CommitCancel, TypeOK, SaleRow
  <2>3. Registered' = Registered
    BY <1>0, <1>4, <2>1, <2>2 DEF CommitCancel, Registered, TypeOK, SaleRow
  <2>4. /\ pc'[r] = "idle"
        /\ \A q \in Request \ {r} : pc'[q] = pc[q] /\ number'[q] = number[q]
    BY <1>0, <1>4 DEF CommitCancel, Step, Forget, TypeOK
  <2>5. QED
    BY <2>3, <2>4, CodesFrame DEF HasInserted
<1>5. ASSUME NEW r \in Request, RollbackSale(r)
      PROVE  CodesInv'
  <2>1. Registered' = Registered
    BY <1>5 DEF RollbackSale, Registered
  <2>2. /\ pc'[r] = "idle"
        /\ \A q \in Request \ {r} : pc'[q] = pc[q] /\ number'[q] = number[q]
    BY <1>0, <1>5 DEF RollbackSale, Forget, TypeOK
  <2>3. QED
    BY <2>1, <2>2, CodesFrame DEF HasInserted
<1>6. ASSUME NEW r \in Request, sale' = sale, number' = number,
             pc[r] \notin {"count", "insert", "decrement", "collect"},
             \E to \in {"validate", "count", "restock", "readStock", "mark", "refund",
                       "commitCancel"} : pc' = [pc EXCEPT ![r] = to]
      PROVE  CodesInv'
  <2>1. Registered' = Registered
    BY <1>6 DEF Registered
  <2>2. QED
    BY <1>0, <1>6, <2>1, CodesFrame DEF HasInserted, TypeOK
<1>7. ASSUME NEW r \in Request, sale' = sale, number' = number,
             pc[r] \in {"decrement", "collect"},
             \E to \in {"decrement", "collect", "commitSale"} : pc' = [pc EXCEPT ![r] = to]
      PROVE  CodesInv'
  <2>1. Registered' = Registered
    BY <1>7 DEF Registered
  <2>2. QED
    BY <1>0, <1>7, <2>1, CodesFrame DEF HasInserted, TypeOK
<1>8. ASSUME NEW r \in Request, CreateStep(r)
      PROVE  CodesInv'
  BY <1>1, <1>2, <1>3, <1>6, <1>7, <1>8 DEF CreateStep, ValidateItem, DecrementStock,
     CollectPayment, NextItem, Step, saleVars
<1>9. ASSUME NEW r \in Request, CancelStep(r)
      PROVE  CodesInv'
  BY <1>4, <1>6, <1>9 DEF CancelStep, ReadStock, Restock, MarkCancelled, RefundSale,
     NextItem, Step, saleVars
<1>10. ASSUME NEW r \in Request, NEW o \in Order, StartSale(r, o)
       PROVE  CodesInv'
  BY <1>6, <1>10 DEF StartSale, Step
<1>11. ASSUME NEW r \in Request, NEW n \in SaleNumber, StartCancel(r, n)
       PROVE  CodesInv'
  <2>1. Registered' = Registered
    BY <1>11 DEF StartCancel, Registered
  <2>2. /\ pc'[r] = "readStock"
        /\ \A q \in Request \ {r} : pc'[q] = pc[q] /\ number'[q] = number[q]
    BY <1>0, <1>11 DEF StartCancel, Step, TypeOK
  <2>3. QED
    BY <2>1, <2>2, CodesFrame DEF HasInserted
<1>12. CASE UNCHANGED vars
  BY <1>12 DEF vars, saleVars, CodesInv, CodesAreConsecutive, NumbersInRange, SalesAreSerialised,
     HasInserted, Registered
<1>13. QED
  BY <1>5, <1>8, <1>9, <1>10, <1>11, <1>12 DEF Next, SellNext, CancelNext

\* Nothing is registered at first.
LEMMA InitCodesInv == Init => CodesInv
<1> SUFFICES ASSUME Init PROVE CodesInv
  OBVIOUS
<1>1. Registered = {} /\ Cardinality(Registered) = 0
  <2>1. Registered = {}
    BY DEF Init, Registered, NoSale
  <2>2. QED
    BY <2>1, FS_EmptySet
<1>2. QED
  BY <1>1 DEF Init, CodesInv, CodesAreConsecutive, NumbersInRange, SalesAreSerialised,
     HasInserted

\* The codes V-000001, V-000002, ... have no gap and no repetition.
THEOREM SalesCodesAreConsecutive == Spec => []CodesAreConsecutive
<1>1. Init => TypeInv /\ CodesInv
  BY InitTypeInv, InitCodesInv
<1>2. TypeInv /\ CodesInv /\ [Next]_vars => (TypeInv /\ CodesInv)'
  BY NextTypeInv, NextCodesInv
<1>3. TypeInv /\ CodesInv => CodesAreConsecutive
  BY DEF CodesInv
<1>4. QED
  BY <1>1, <1>2, <1>3, PTL DEF Spec

\* Two sales are never between insert and commit together, so they never wait
\* for each other's product rows.
THEOREM SalesSerialised == Spec => []SalesAreSerialised
<1>1. Init => TypeInv /\ CodesInv
  BY InitTypeInv, InitCodesInv
<1>2. TypeInv /\ CodesInv /\ [Next]_vars => (TypeInv /\ CodesInv)'
  BY NextTypeInv, NextCodesInv
<1>3. TypeInv /\ CodesInv => SalesAreSerialised
  BY DEF CodesInv
<1>4. QED
  BY <1>1, <1>2, <1>3, PTL DEF Spec

-----------------------------------------------------------------------------
(* Sales without cancellations are atomic *)

\* A row nobody holds is the committed one, a held row differs from it by the
\* movements of its holder, and only the holder has movements of a product.
RowsExplained ==
    /\ KardexExplainsStock
    /\ \A p \in Product : holder[p] = None => live[p] = stock[p]
    /\ \A r \in Request, p \in Product :
         IF holder[p] = r THEN live[p] = stock[p] + moved[r][p] ELSE moved[r][p] = 0

\* The items of its order that r has decremented.
Done(r) ==
    CASE pc[r] = "decrement" -> at[r] - 1
      [] pc[r] \in {"collect", "commitSale"} -> Len(order[r].items)
      [] OTHER -> 0

\* The movements of r are those of the items it has decremented.
MovedIsTaken ==
    \A r \in Request, p \in Product :
        moved[r][p] = IF pc[r] \in {"decrement", "collect", "commitSale"}
                      THEN -taken[order[r]][Done(r)][p]
                      ELSE 0

SellInv == TypeInv /\ StockInv /\ RowsExplained /\ MovedIsTaken

\* An update of a row and its movement agree.
LEMMA WriteExplained ==
    ASSUME TypeInv, RowsExplained, NEW r \in Request, NEW p \in Product, NEW delta \in Int,
           WriteStock(r, p, live[p] + delta, delta)
    PROVE  /\ RowsExplained'
           /\ moved' = [moved EXCEPT ![r][p] = @ + delta]
<1>0. RowsTypeOK /\ r # None
  BY NoneIsNoRequest DEF TypeInv, TypeOK
<1>1. /\ stock' = stock /\ kardex' = kardex
      /\ live' = [live EXCEPT ![p] = live[p] + delta]
      /\ holder' = [holder EXCEPT ![p] = r]
      /\ moved' = [moved EXCEPT ![r][p] = moved[r][p] + delta]
  BY DEF WriteStock
<1>2. live[p] = stock[p] + moved[r][p]
  <2>1. CASE holder[p] = None
    <3>1. live[p] = stock[p] /\ moved[r][p] = 0
      BY <1>0, <2>1 DEF RowsExplained
    <3>2. QED
      BY <1>0, <3>1 DEF RowsTypeOK
  <2>2. CASE holder[p] = r
    BY <2>2 DEF RowsExplained
  <2>3. QED
    BY <2>1, <2>2 DEF WriteStock, MayWrite
<1>3. \A q \in Request, x \in Product :
        moved'[q][x] = IF q = r /\ x = p THEN moved[r][p] + delta ELSE moved[q][x]
  BY <1>0, <1>1 DEF RowsTypeOK
<1>4. \A x \in Product :
        /\ live'[x] = IF x = p THEN live[p] + delta ELSE live[x]
        /\ holder'[x] = IF x = p THEN r ELSE holder[x]
  BY <1>0, <1>1 DEF RowsTypeOK
<1>5. KardexExplainsStock'
  BY <1>1 DEF RowsExplained, KardexExplainsStock
<1>6. ASSUME NEW x \in Product, holder'[x] = None
      PROVE  live'[x] = stock'[x]
  BY <1>0, <1>1, <1>4, <1>6 DEF RowsExplained
<1>7. ASSUME NEW q \in Request, NEW x \in Product
      PROVE  IF holder'[x] = q THEN live'[x] = stock'[x] + moved'[q][x] ELSE moved'[q][x] = 0
  <2>1. CASE x = p /\ q = r
    BY <1>0, <1>1, <1>2, <1>3, <1>4, <2>1 DEF RowsTypeOK
  <2>2. CASE x = p /\ q # r
    <3>1. holder[p] # q
      BY <2>2, NoneIsNoRequest DEF WriteStock, MayWrite
    <3>2. moved[q][p] = 0
      BY <3>1 DEF RowsExplained
    <3>3. QED
      BY <1>3, <1>4, <2>2, <3>2
  <2>3. CASE x # p
    BY <1>1, <1>3, <1>4, <2>3 DEF RowsExplained
  <2>4. QED
    BY <2>1, <2>2, <2>3
<1>8. QED
  BY <1>1, <1>5, <1>6, <1>7 DEF RowsExplained

\* A commit adds the movements of the transaction to the stock and the kardex.
LEMMA CommitExplained ==
    ASSUME TypeInv, RowsExplained, NEW r \in Request, CommitRows(r)
    PROVE  /\ RowsExplained'
           /\ \A p \in Product : /\ stock'[p] = stock[p] + moved[r][p]
                                 /\ kardex'[p] = kardex[p] + moved[r][p]
           /\ \A p \in Product : moved'[r][p] = 0
           /\ \A q \in Request \ {r} : moved'[q] = moved[q]
<1>0. RowsTypeOK /\ r # None
  BY NoneIsNoRequest DEF TypeInv, TypeOK
<1>1. \A p \in Product :
        /\ stock'[p] = stock[p] + moved[r][p]
        /\ kardex'[p] = kardex[p] + moved[r][p]
        /\ live'[p] = live[p]
        /\ holder'[p] = IF holder[p] = r THEN None ELSE holder[p]
  BY <1>0 DEF CommitRows, Visible, Released, RowsTypeOK, RowsExplained
<1>2. /\ \A p \in Product : moved'[r][p] = 0
      /\ \A q \in Request \ {r} : moved'[q] = moved[q]
  BY <1>0 DEF CommitRows, NoMoves, RowsTypeOK
<1>3. KardexExplainsStock'
  BY <1>0, <1>1, ProductAssumption DEF RowsExplained, KardexExplainsStock, RowsTypeOK
<1>4. ASSUME NEW p \in Product, holder'[p] = None
      PROVE  live'[p] = stock'[p]
  <2>1. CASE holder[p] = r
    BY <1>1, <2>1 DEF RowsExplained
  <2>2. CASE holder[p] # r
    <3>1. holder[p] = None /\ moved[r][p] = 0 /\ live[p] = stock[p]
      BY <1>1, <1>4, <2>2 DEF RowsExplained
    <3>2. QED
      BY <1>0, <1>1, <3>1 DEF RowsTypeOK
  <2>3. QED
    BY <2>1, <2>2
<1>5. ASSUME NEW q \in Request, NEW p \in Product
      PROVE  IF holder'[p] = q THEN live'[p] = stock'[p] + moved'[q][p] ELSE moved'[q][p] = 0
  <2>1. CASE q = r
    BY <1>0, <1>1, <1>2, <2>1
  <2>2. CASE q # r /\ holder[p] = q
    <3>1. moved[r][p] = 0 /\ live[p] = stock[p] + moved[q][p]
      BY <2>2 DEF RowsExplained
    <3>2. QED
      BY <1>0, <1>1, <1>2, <2>2, <3>1 DEF RowsTypeOK
  <2>3. CASE q # r /\ holder[p] # q
    BY <1>1, <1>2, <2>3, NoneIsNoRequest DEF RowsExplained
  <2>4. QED
    BY <2>1, <2>2, <2>3
<1>6. QED
  BY <1>1, <1>2, <1>3, <1>4, <1>5 DEF RowsExplained

\* A rollback leaves stock and kardex as they were.
LEMMA RollbackExplained ==
    ASSUME TypeInv, RowsExplained, NEW r \in Request, RollbackRows(r)
    PROVE  /\ RowsExplained'
           /\ \A p \in Product : moved'[r][p] = 0
           /\ \A q \in Request \ {r} : moved'[q] = moved[q]
<1>0. RowsTypeOK /\ r # None
  BY NoneIsNoRequest DEF TypeInv, TypeOK
<1>1. /\ stock' = stock /\ kardex' = kardex
      /\ \A p \in Product :
           /\ live'[p] = IF holder[p] = r THEN stock[p] ELSE live[p]
           /\ holder'[p] = IF holder[p] = r THEN None ELSE holder[p]
  BY DEF RollbackRows, Released
<1>2. /\ \A p \in Product : moved'[r][p] = 0
      /\ \A q \in Request \ {r} : moved'[q] = moved[q]
  BY <1>0 DEF RollbackRows, NoMoves, RowsTypeOK
<1>3. KardexExplainsStock'
  BY <1>1 DEF RowsExplained, KardexExplainsStock
<1>4. \A p \in Product : holder'[p] = None => live'[p] = stock'[p]
  BY <1>1 DEF RowsExplained
<1>5. ASSUME NEW q \in Request, NEW p \in Product
      PROVE  IF holder'[p] = q THEN live'[p] = stock'[p] + moved'[q][p] ELSE moved'[q][p] = 0
  <2>1. CASE q = r
    BY <1>0, <1>1, <1>2, <2>1
  <2>2. CASE q # r
    BY <1>1, <1>2, <2>2, NoneIsNoRequest DEF RowsExplained
  <2>3. QED
    BY <2>1, <2>2
<1>6. QED
  BY <1>2, <1>3, <1>4, <1>5 DEF RowsExplained

\* The units of the first items of an order, as the recurrence gives them.
LEMMA TakenFacts ==
    ASSUME NEW o \in Order
    PROVE  /\ \A i \in 0..Len(o.items), p \in Product : taken[o][i][p] \in Nat
           /\ \A p \in Product : taken[o][0][p] = 0
           /\ \A i \in 1..Len(o.items), p \in Product :
                taken[o][i][p] = taken[o][i - 1][p] +
                    (IF p = o.items[i].product THEN o.items[i].quantity ELSE 0)
<1>1. /\ taken[o] \in [0..Len(o.items) -> [Product -> Nat]]
      /\ taken[o][0] = NoMoves
      /\ \A i \in 1..Len(o.items) : taken[o][i] =
           [taken[o][i - 1] EXCEPT ![o.items[i].product] = @ + o.items[i].quantity]
  BY TakenAssumption
<1>2. \A i \in 0..Len(o.items), p \in Product : taken[o][i][p] \in Nat
  BY <1>1
<1>3. ASSUME NEW i \in 1..Len(o.items), NEW p \in Product
      PROVE  taken[o][i][p] = taken[o][i - 1][p] +
                 (IF p = o.items[i].product THEN o.items[i].quantity ELSE 0)
  <2>1. Len(o.items) \in Nat /\ i - 1 \in 0..Len(o.items)
    BY OrderFacts
  <2>2. taken[o][i - 1] \in [Product -> Nat]
    BY <1>1, <2>1
  <2>3. taken[o][i] = [taken[o][i - 1] EXCEPT ![o.items[i].product] = @ + o.items[i].quantity]
    BY <1>1
  <2>4. QED
    BY <2>2, <2>3
<1>4. QED
  BY <1>1, <1>2, <1>3 DEF NoMoves

\* A step of r that leaves its movements and its progress alone.
LEMMA MovedFrame ==
    ASSUME MovedIsTaken, NEW r \in Request,
           \A q \in Request \ {r} : /\ moved'[q] = moved[q] /\ pc'[q] = pc[q]
                                   /\ order'[q] = order[q] /\ at'[q] = at[q],
           \A p \in Product :
             moved'[r][p] = IF pc'[r] \in {"decrement", "collect", "commitSale"}
                            THEN -taken[order'[r]][Done(r)'][p]
                            ELSE 0
    PROVE  MovedIsTaken'
  BY DEF MovedIsTaken, Done

\* Every step without cancellations keeps stock, movements and orders in accord.
LEMMA SellStep ==
    ASSUME SellInv, SellNext
    PROVE  RowsExplained' /\ MovedIsTaken'
<1>0. TypeInv /\ TypeOK /\ LocalOK /\ RowsExplained /\ MovedIsTaken
  BY DEF SellInv, TypeInv
<1>1. ASSUME NEW r \in Request, UNCHANGED rowVars, UNCHANGED order, UNCHANGED at,
             NEW from, NEW to,
             from \in {"validate", "count"}, to \in {"validate", "count", "insert"},
             Step(r, from, to)
      PROVE  RowsExplained' /\ MovedIsTaken'
  <2>1. RowsExplained'
    BY <1>0, <1>1 DEF rowVars, RowsExplained, KardexExplainsStock
  <2>2. \A p \in Product : moved'[r][p] = 0 /\ pc'[r] = to
    BY <1>0, <1>1 DEF rowVars, MovedIsTaken, Step, TypeOK
  <2>3. QED
    BY <1>0, <1>1, <2>1, <2>2, MovedFrame DEF rowVars, Step, TypeOK
<1>2. ASSUME NEW r \in Request, ValidateItem(r)
      PROVE  RowsExplained' /\ MovedIsTaken'
  <2>1. RowsExplained'
    BY <1>0, <1>2 DEF ValidateItem, rowVars, RowsExplained, KardexExplainsStock
  <2>2. /\ pc[r] = "validate"
        /\ pc'[r] \in {"validate", "count"}
        /\ \A q \in Request \ {r} : pc'[q] = pc[q] /\ at'[q] = at[q]
    BY <1>0, <1>2 DEF ValidateItem, NextItem, Step, TypeOK
  <2>3. \A p \in Product : moved'[r][p] = 0
    BY <1>0, <1>2, <2>2 DEF ValidateItem, rowVars, MovedIsTaken
  <2>4. QED
    BY <1>0, <1>2, <2>1, <2>2, <2>3, MovedFrame DEF ValidateItem, rowVars
<1>3. ASSUME NEW r \in Request, NEW o \in Order, StartSale(r, o)
      PROVE  RowsExplained' /\ MovedIsTaken'
  <2>1. RowsExplained'
    BY <1>0, <1>3 DEF StartSale, rowVars, RowsExplained, KardexExplainsStock
  <2>2. /\ pc[r] = "idle" /\ pc'[r] = "validate"
        /\ \A q \in Request \ {r} : pc'[q] = pc[q] /\ at'[q] = at[q] /\ order'[q] = order[q]
    BY <1>0, <1>3 DEF StartSale, Step, TypeOK
  <2>3. \A p \in Product : moved'[r][p] = 0
    BY <1>0, <1>3, <2>2 DEF StartSale, rowVars, MovedIsTaken
  <2>4. QED
    BY <1>0, <1>3, <2>1, <2>2, <2>3, MovedFrame DEF StartSale, rowVars
<1>4. ASSUME NEW r \in Request, InsertSale(r)
      PROVE  RowsExplained' /\ MovedIsTaken'
  <2>1. RowsExplained'
    BY <1>0, <1>4 DEF InsertSale, rowVars, RowsExplained, KardexExplainsStock
  <2>2. /\ pc[r] = "insert" /\ pc'[r] = "decrement"
        /\ \A q \in Request \ {r} : pc'[q] = pc[q]
        /\ order' = order /\ at' = at /\ moved' = moved
    BY <1>0, <1>4 DEF InsertSale, Step, TypeOK, saleVars, rowVars
  <2>3. at[r] = 1 /\ order[r] \in Order
    BY <1>0, <2>2 DEF LocalOK, LocalAt, SaleLabel, CreateLabel
  <2>4. Done(r)' = 0
    BY <2>2, <2>3 DEF Done
  <2>5. \A p \in Product : taken[order[r]][0][p] = 0 /\ moved[r][p] = 0
    BY <1>0, <2>2, <2>3, TakenFacts DEF MovedIsTaken
  <2>6. QED
    BY <1>0, <2>1, <2>2, <2>4, <2>5, MovedFrame
<1>5. ASSUME NEW r \in Request, DecrementStock(r)
      PROVE  RowsExplained' /\ MovedIsTaken'
  <2> DEFINE p == Item(r).product
             n == Item(r).quantity
             k == at[r]
  <2>1. pc[r] = "decrement"
    BY <1>5 DEF DecrementStock, NextItem
  <2>2. /\ p \in Product /\ n \in Nat /\ live[p] \in Int /\ order[r] \in Order
        /\ k \in 1..Len(order[r].items) /\ Len(order[r].items) \in Nat
    BY <1>0, <2>1, ItemFacts DEF TypeOK, RowsTypeOK
  <2>3. WriteStock(r, p, live[p] + (-n), -n)
    BY <1>5, <2>2 DEF DecrementStock
  <2>4. RowsExplained' /\ moved' = [moved EXCEPT ![r][p] = @ + (-n)]
    <3>1. -n \in Int
      BY <2>2
    <3>2. QED
      BY <1>0, <2>2, <2>3, <3>1, WriteExplained
  <2>5. /\ \A q \in Request \ {r} : pc'[q] = pc[q] /\ at'[q] = at[q]
        /\ \/ pc'[r] = "decrement" /\ at'[r] = k + 1
           \/ pc'[r] = "collect" /\ k = Len(order[r].items)
    BY <1>0, <1>5, <2>1, <2>2 DEF DecrementStock, NextItem, Step, TypeOK
  <2>6. order' = order
    BY <1>5 DEF DecrementStock
  <2>7. Done(r) = k - 1 /\ Done(r)' = k
    BY <2>1, <2>2, <2>5, <2>6 DEF Done
  <2>8. \A x \in Product : moved'[r][x] = -taken[order[r]][k][x]
    <3>1. \A x \in Product : moved[r][x] = -taken[order[r]][k - 1][x]
      <4>1. \A x \in Product : moved[r][x] = -taken[order[r]][Done(r)][x]
        BY <1>0, <2>1 DEF MovedIsTaken
      <4>2. QED
        BY <2>7, <4>1
    <3>2. \A x \in Product : moved'[r][x] = IF x = p THEN moved[r][x] - n ELSE moved[r][x]
      BY <1>0, <2>2, <2>4 DEF TypeOK, RowsTypeOK
    <3>3. \A x \in Product :
            /\ taken[order[r]][k][x] = taken[order[r]][k - 1][x] + (IF x = p THEN n ELSE 0)
            /\ taken[order[r]][k - 1][x] \in Nat
      <4>1. k - 1 \in 0..Len(order[r].items)
        BY <2>2
      <4>2. PICK o : o = order[r]
        OBVIOUS
      <4>3. /\ o \in Order /\ k \in 1..Len(o.items) /\ k - 1 \in 0..Len(o.items)
            /\ p = o.items[k].product /\ n = o.items[k].quantity
        BY <2>2, <4>1, <4>2 DEF Item
      <4> HIDE DEF k, p, n
      <4>4. \A x \in Product :
              /\ taken[o][k][x] = taken[o][k - 1][x] + (IF x = p THEN n ELSE 0)
              /\ taken[o][k - 1][x] \in Nat
        BY <4>3, TakenFacts
      <4>5. QED
        BY <4>2, <4>4
    <3>4. ASSUME NEW x \in Product
          PROVE  moved'[r][x] = -taken[order[r]][k][x]
      <4> HIDE DEF p, n, k
      <4>1. /\ moved[r][x] = -taken[order[r]][k - 1][x]
            /\ moved'[r][x] = IF x = p THEN moved[r][x] - n ELSE moved[r][x]
            /\ taken[order[r]][k][x] = taken[order[r]][k - 1][x] + (IF x = p THEN n ELSE 0)
            /\ taken[order[r]][k - 1][x] \in Nat
            /\ n \in Nat
        BY <2>2, <3>1, <3>2, <3>3
      <4>2. QED
        BY <4>1
    <3>5. QED
      BY <3>4
  <2>9. \A q \in Request \ {r} : moved'[q] = moved[q]
    BY <1>0, <2>2, <2>4 DEF TypeOK, RowsTypeOK
  <2>10. QED
    BY <1>0, <2>4, <2>5, <2>6, <2>7, <2>8, <2>9, MovedFrame
<1>6. ASSUME NEW r \in Request, CollectPayment(r)
      PROVE  RowsExplained' /\ MovedIsTaken'
  <2>1. RowsExplained'
    BY <1>0, <1>6 DEF CollectPayment, rowVars, RowsExplained, KardexExplainsStock
  <2>2. /\ pc[r] = "collect" /\ pc'[r] = "commitSale"
        /\ \A q \in Request \ {r} : pc'[q] = pc[q]
        /\ order' = order /\ at' = at /\ moved' = moved
    BY <1>0, <1>6 DEF CollectPayment, Step, TypeOK, saleVars, rowVars
  <2>3. Done(r)' = Done(r)
    BY <2>2 DEF Done
  <2>4. QED
    BY <1>0, <2>1, <2>2, <2>3, MovedFrame DEF MovedIsTaken
<1>7. ASSUME NEW r \in Request, CommitRows(r) \/ RollbackRows(r), Forget(r),
             pc' = [pc EXCEPT ![r] = "idle"]
      PROVE  RowsExplained' /\ MovedIsTaken'
  <2>1. /\ RowsExplained'
        /\ \A p \in Product : moved'[r][p] = 0
        /\ \A q \in Request \ {r} : moved'[q] = moved[q]
    BY <1>0, <1>7, CommitExplained, RollbackExplained
  <2>2. /\ pc'[r] = "idle"
        /\ \A q \in Request \ {r} : pc'[q] = pc[q] /\ at'[q] = at[q] /\ order'[q] = order[q]
    BY <1>0, <1>7 DEF Forget, TypeOK
  <2>3. QED
    BY <1>0, <2>1, <2>2, MovedFrame
<1>8. ASSUME NEW r \in Request, CreateStep(r)
      PROVE  RowsExplained' /\ MovedIsTaken'
  BY <1>1, <1>2, <1>4, <1>5, <1>6, <1>7, <1>8 DEF CreateStep, CountSales, CommitSale, Step
<1>9. ASSUME NEW r \in Request, RollbackSale(r)
      PROVE  RowsExplained' /\ MovedIsTaken'
  BY <1>7, <1>9 DEF RollbackSale
<1>10. QED
  BY <1>3, <1>8, <1>9 DEF SellNext

\* The invariant of the sales without cancellations is inductive.
LEMMA SellInvInductive ==
    /\ Init => SellInv
    /\ SellInv /\ [SellNext]_vars => SellInv'
<1>1. Init => StockInv /\ RowsExplained /\ MovedIsTaken
  BY ProductAssumption, NoneIsNoRequest DEF Init, RowsInit, NoMoves, StockInv,
     StockNeverNegative, SeenNotNegative, RowsExplained, KardexExplainsStock, MovedIsTaken
<1>2. ASSUME SellInv, UNCHANGED vars
      PROVE  RowsExplained' /\ MovedIsTaken'
  BY <1>2 DEF SellInv, vars, rowVars, saleVars, RowsExplained, KardexExplainsStock,
     MovedIsTaken, Done
<1>3. SellInv /\ [SellNext]_vars => TypeInv' /\ StockInv'
  BY NextTypeInv, NextStockInv DEF SellInv, Next
<1>4. QED
  BY <1>1, <1>2, <1>3, InitTypeInv, SellStep DEF SellInv

\* Concurrent decrements lose no update: the stock is always the initial stock
\* plus what the kardex says.
THEOREM SalesKardexExplainsStock == SellSpec => []KardexExplainsStock
<1>1. SellInv => KardexExplainsStock
  BY DEF SellInv, RowsExplained
<1>2. QED
  BY <1>1, SellInvInductive, PTL DEF SellSpec

\* A commit is a sale of the whole order by the ledger; any other step leaves
\* stock and kardex alone.
LEMMA SellStepIsLedgerStep ==
    ASSUME SellInv, [SellNext]_vars
    PROVE  [Ledger!Next]_Ledger!vars
<1>0. /\ TypeInv /\ TypeOK /\ LocalOK /\ RowsExplained /\ MovedIsTaken /\ StockNeverNegative
      /\ RowsTypeOK
  BY DEF SellInv, TypeInv, TypeOK, StockInv
<1>1. ASSUME UNCHANGED <<stock, kardex>>
      PROVE  UNCHANGED Ledger!vars
  BY <1>1 DEF Ledger!vars
<1>2. ASSUME NEW r \in Request, CommitSale(r)
      PROVE  Ledger!Next
  <2> DEFINE demand == taken[order[r]][Len(order[r].items)]
  <2>1. pc[r] = "commitSale" /\ CommitRows(r)
    BY <1>2 DEF CommitSale, Step
  <2>2. order[r] \in Order
    BY <1>0, <2>1 DEF LocalOK, LocalAt, SaleLabel, CreateLabel
  <2>3. \A p \in Product : moved[r][p] = -demand[p] /\ demand[p] \in Nat
    <3>1. Len(order[r].items) \in 0..Len(order[r].items)
      BY <2>2, OrderFacts
    <3>2. QED
      BY <1>0, <2>1, <2>2, <3>1, TakenFacts DEF MovedIsTaken, Done
  <2>4. \A p \in Product : demand[p] <= stock[p]
    <3>1. ASSUME NEW p \in Product PROVE demand[p] <= stock[p]
      <4>1. CASE holder[p] = r
        BY <1>0, <2>3, <4>1 DEF RowsExplained, StockNeverNegative, RowsTypeOK
      <4>2. CASE holder[p] # r
        BY <1>0, <2>3, <4>2 DEF RowsExplained, StockNeverNegative, RowsTypeOK
      <4>3. QED
        BY <4>1, <4>2
    <3>2. QED
      BY <3>1
  <2>5. \A p \in Product : /\ stock'[p] = stock[p] + moved[r][p]
                          /\ kardex'[p] = kardex[p] + moved[r][p]
    BY <1>0, <2>1, CommitExplained
  <2>6. stock' = [p \in Product |-> stock[p] - demand[p]]
    <3>1. stock' = [p \in Product |-> stock'[p]]
      BY <2>1 DEF CommitRows
    <3>2. \A p \in Product : stock'[p] = stock[p] - demand[p]
      BY <1>0, <2>3, <2>5 DEF RowsTypeOK
    <3>3. QED
      BY <3>1, <3>2
  <2>7. ASSUME NEW p \in Product
        PROVE  -kardex'[p] = -kardex[p] + demand[p]
    <3>1. kardex[p] \in Int /\ demand[p] \in Nat /\ moved[r][p] = -demand[p]
      BY <1>0, <2>3 DEF RowsTypeOK
    <3>2. kardex'[p] = kardex[p] + moved[r][p]
      BY <2>5
    <3> HIDE DEF demand
    <3>3. QED
      BY <3>1, <3>2
  <2>8. [p \in Product |-> -kardex'[p]] =
          [p \in Product |-> [x \in Product |-> -kardex[x]][p] + demand[p]]
    BY <2>7
  <2>9. demand \in {taken[o][Len(o.items)] : o \in Order}
    BY <2>2
  <2> HIDE DEF demand
  <2>10. QED
    BY <2>4, <2>6, <2>8, <2>9 DEF Ledger!Next, Ledger!Sell
<1>3. ASSUME NEW r \in Request, DecrementStock(r)
      PROVE  UNCHANGED <<stock, kardex>>
  BY <1>3 DEF DecrementStock, WriteStock
<1>4. ASSUME NEW r \in Request, RollbackSale(r)
      PROVE  UNCHANGED <<stock, kardex>>
  BY <1>4 DEF RollbackSale, RollbackRows
<1>5. ASSUME UNCHANGED rowVars
      PROVE  UNCHANGED <<stock, kardex>>
  BY <1>5 DEF rowVars
<1>6. ASSUME NEW r \in Request, CreateStep(r)
      PROVE  Ledger!Next \/ UNCHANGED Ledger!vars
  BY <1>1, <1>2, <1>3, <1>5, <1>6 DEF CreateStep, ValidateItem, CountSales, InsertSale,
     CollectPayment
<1>7. ASSUME NEW r \in Request, NEW o \in Order, StartSale(r, o)
      PROVE  UNCHANGED Ledger!vars
  BY <1>1, <1>5, <1>7 DEF StartSale
<1>8. CASE UNCHANGED vars
  BY <1>1, <1>5, <1>8 DEF vars
<1>9. QED
  BY <1>1, <1>4, <1>6, <1>7, <1>8 DEF SellNext

\* Concurrent sales implement sales made one at a time: each takes all the
\* units of its order in one step, or none.
THEOREM SalesImplementLedger == SellSpec => SalesAreAtomic
<1>1. ASSUME Init
      PROVE  Ledger!Init
  <2>1. stock = InitialStock /\ \A p \in Product : -kardex[p] = 0
    <3>1. stock = InitialStock /\ kardex = NoMoves
      BY <1>1 DEF Init, RowsInit
    <3>2. \A p \in Product : kardex[p] = 0
      BY <3>1 DEF NoMoves
    <3>3. QED
      BY <3>1, <3>2
  <2>2. [p \in Product |-> -kardex[p]] = [p \in Product |-> 0]
    BY <2>1
  <2>3. QED
    BY <2>1, <2>2 DEF Ledger!Init
<1>2. SellInv /\ [SellNext]_vars => [Ledger!Next]_Ledger!vars
  BY SellStepIsLedgerStep
<1>3. QED
  BY <1>1, <1>2, SellInvInductive, PTL DEF SellSpec, SalesAreAtomic, Ledger!Spec
=============================================================================
