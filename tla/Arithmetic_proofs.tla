-------------------------- MODULE Arithmetic_proofs --------------------------
(***************************************************************************)
(* Integer division, induction over numbers and finite sets, and what it   *)
(* shows about the folds that the specifications use: sums over the values *)
(* of a function.                                                          *)
(*                                                                         *)
(* A set of counterexamples that is not empty has a least element          *)
(* (LeastElement) or a smallest set (SmallestSet); that it cannot be a     *)
(* counterexample is the induction step.                                   *)
(***************************************************************************)
EXTENDS Integers, FiniteSets, Functions, FiniteSetTheorems,
        WellFoundedInduction, TLAPS

-----------------------------------------------------------------------------
(* Integer division and remainder.                                         *)

\* The bounds of an integer quotient.
LEMMA DivisionBounds ==
    ASSUME NEW a \in Nat, NEW d \in Nat \ {0}
    PROVE  /\ a \div d \in Nat
           /\ (a \div d) * d <= a
           /\ a < (a \div d) * d + d
BY SMT

\* The bounds of a remainder.
LEMMA RemainderBounds ==
    ASSUME NEW a \in Nat, NEW d \in Nat \ {0}
    PROVE  /\ a % d \in 0 .. d - 1
           /\ a = (a \div d) * d + (a % d)
BY SMT

\* The multiples of d at smaller numbers stay d below those at larger ones.
LEMMA MultiplesApart ==
    ASSUME NEW p \in Nat, NEW q \in Nat, NEW d \in Nat \ {0}, p > q
    PROVE  p * d >= q * d + d
<1>1. PICK k \in Nat : p = q + 1 + k
  <2>1. p - q - 1 \in Nat
    OBVIOUS
  <2> QED BY <2>1
<1>2. p * d = q * d + d + k * d
  BY <1>1
<1>3. k * d \in Nat
  OBVIOUS
<1> QED BY <1>2, <1>3

\* Division preserves order.
LEMMA DivisionMonotone ==
    ASSUME NEW a \in Nat, NEW b \in Nat, NEW d \in Nat \ {0}, a <= b
    PROVE  a \div d <= b \div d
<1>1. SUFFICES ASSUME a \div d > b \div d PROVE FALSE
  BY DivisionBounds
<1>2. (a \div d) * d >= (b \div d) * d + d
  BY <1>1, DivisionBounds, MultiplesApart
<1> QED BY <1>2, DivisionBounds

\* A quotient is determined by its bounds.
LEMMA DivisionUnique ==
    ASSUME NEW a \in Nat, NEW d \in Nat \ {0}, NEW q \in Nat,
           q * d <= a, a < q * d + d
    PROVE  a \div d = q
<1> DEFINE p == a \div d
<1>1. p \in Nat /\ p * d <= a /\ a < p * d + d
  BY DivisionBounds
<1> HIDE DEF p
<1>2. ~(p > q)
  BY <1>1, MultiplesApart
<1>3. ~(q > p)
  BY <1>1, MultiplesApart
<1>4. p = q
  BY <1>1, <1>2, <1>3
<1> QED BY <1>4 DEF p

\* A number below the modulus is its own remainder.
LEMMA RemainderOfSmall ==
    ASSUME NEW d \in Nat \ {0}, NEW a \in Nat, a < d
    PROVE  a % d = a
<1>1. 0 * d <= a /\ a < 0 * d + d
  OBVIOUS
<1>2. a \div d = 0
  BY <1>1, DivisionUnique
<1>3. a = 0 * d + (a % d) /\ a % d \in Nat
  BY <1>2, RemainderBounds
<1> QED BY <1>3

-----------------------------------------------------------------------------
(* Least counterexamples.                                                  *)

\* A set of natural numbers has a least element.
LEMMA LeastElement ==
    ASSUME NEW S \in SUBSET Nat, S # {}
    PROVE  \E v \in S : \A w \in S : v <= w
<1> DEFINE R == OpToRel(<, Nat)
<1>1. IsWellFoundedOn(R, Nat)
  BY NatLessThanWellFounded
<1> HIDE DEF R
<1>2. PICK v \in S : \A w \in S : <<w, v>> \notin R
  BY <1>1, WFMin
<1>3. ASSUME NEW w \in S PROVE v <= w
  <2>1. w < v => <<w, v>> \in R
    BY DEF R, OpToRel
  <2> QED  BY <1>2, <2>1
<1> QED  BY <1>3

\* A set of numbers that holds the successor of each of its members, and 0,
\* holds all natural numbers.
LEMMA AllNumbers ==
    ASSUME NEW S, 0 \in S, \A n \in Nat : n \in S => n + 1 \in S
    PROVE  \A n \in Nat : n \in S
<1> DEFINE Bad == Nat \ S
<1> SUFFICES ASSUME Bad # {} PROVE FALSE
  OBVIOUS
<1>1. PICK n \in Bad : \A k \in Bad : n <= k
  BY LeastElement
<1>2. n # 0 /\ n - 1 \in Nat /\ n - 1 \notin Bad
  BY <1>1
<1> QED  BY <1>1, <1>2

\* A set of subsets of a finite set has a member without proper subsets in
\* the set.
LEMMA SmallestSet ==
    ASSUME NEW D, IsFiniteSet(D), NEW T \in SUBSET (SUBSET D), T # {}
    PROVE  \E s \in T : \A t \in T : t \subseteq s => t = s
<1> DEFINE Sizes == {Cardinality(s) : s \in T}
<1>1. \A s \in T : IsFiniteSet(s) /\ Cardinality(s) \in Nat
  BY FS_Subset, FS_CardinalityType
<1>2. Sizes \in SUBSET Nat /\ Sizes # {}
  BY <1>1
<1>3. PICK n \in Sizes : \A k \in Sizes : n <= k
  <2> HIDE DEF Sizes
  <2> QED  BY <1>2, LeastElement
<1>4. PICK s \in T : n = Cardinality(s)
  BY <1>3
<1>5. ASSUME NEW t \in T, t \subseteq s PROVE t = s
  <2>1. Cardinality(s) <= Cardinality(t)
    BY <1>3, <1>4
  <2>2. Cardinality(t) <= Cardinality(s) /\ (Cardinality(s) = Cardinality(t) => s = t)
    BY <1>1, <1>5, FS_Subset
  <2> QED  BY <1>1, <2>1, <2>2
<1> QED  BY <1>5

-----------------------------------------------------------------------------
(* Recursion over the subsets of a finite set.                             *)

\* pick takes an element off every set that is not empty, step yields values
\* in V.
Recursion(D, V, v0, pick, step) ==
    /\ IsFiniteSet(D)
    /\ v0 \in V
    /\ \A s \in SUBSET D : s # {} => pick[s] \in s
    /\ \A x \in D, v \in V : step[x][v] \in V

\* The function that they define on the subsets of D.
Solves(f, D, V, v0, pick, step) ==
    /\ f \in [SUBSET D -> V]
    /\ \A s \in SUBSET D :
          f[s] = IF s = {} THEN v0 ELSE step[pick[s]][f[s \ {pick[s]}]]

\* Such a function exists.
LEMMA RecursionExists ==
    ASSUME NEW D, NEW V, NEW v0, NEW pick, NEW step,
           Recursion(D, V, v0, pick, step)
    PROVE  \E f : Solves(f, D, V, v0, pick, step)
<1> USE DEF Recursion
<1> DEFINE Small(n) == {s \in SUBSET D : Cardinality(s) <= n}
           Fits(f, s) ==
              f[s] = IF s = {} THEN v0 ELSE step[pick[s]][f[s \ {pick[s]}]]
           Good == {n \in Nat : \E f \in [Small(n) -> V] :
                                   \A s \in Small(n) : Fits(f, s)}
<1>1. \A s \in SUBSET D : IsFiniteSet(s) /\ Cardinality(s) \in Nat
  BY FS_Subset, FS_CardinalityType
<1>2. 0 \in Good
  <2>1. \A s \in Small(0) : s = {}
    BY <1>1, FS_EmptySet
  <2>2. PICK f : f = [s \in Small(0) |-> v0]
    OBVIOUS
  <2>3. f \in [Small(0) -> V] /\ \A s \in Small(0) : Fits(f, s)
    BY <2>1, <2>2
  <2> QED  BY <2>3
<1>3. ASSUME NEW n \in Nat, n \in Good PROVE n + 1 \in Good
  <2>1. PICK f \in [Small(n) -> V] : \A s \in Small(n) : Fits(f, s)
    BY <1>3
  <2>2. ASSUME NEW s \in Small(n + 1), s # {}
        PROVE  pick[s] \in D /\ s \ {pick[s]} \in Small(n)
    <3>1. pick[s] \in s /\ s \in SUBSET D
      BY <2>2
    <3>2. Cardinality(s \ {pick[s]}) = Cardinality(s) - 1
      BY <1>1, <3>1, FS_RemoveElement
    <3> QED  BY <1>1, <2>2, <3>1, <3>2
  <2> DEFINE g == [s \in Small(n + 1) |->
                     IF s = {} THEN v0 ELSE step[pick[s]][f[s \ {pick[s]}]]]
  <2>3. g \in [Small(n + 1) -> V]
    <3>1. ASSUME NEW s \in Small(n + 1), s # {}
          PROVE  step[pick[s]][f[s \ {pick[s]}]] \in V
      <4> HIDE DEF Small
      <4> QED  BY <2>1, <2>2, <3>1
    <3> HIDE DEF Small
    <3> QED  BY <3>1
  <2>4. \A s \in Small(n) : s \in Small(n + 1) /\ g[s] = f[s]
    <3>1. \A s \in Small(n) : s \in Small(n + 1)
      BY <1>1
    <3> HIDE DEF Small
    <3> QED  BY <2>1, <3>1
  <2>5. \A s \in Small(n + 1) : Fits(g, s)
    <3> HIDE DEF Small
    <3> QED  BY <2>2, <2>4
  <2> HIDE DEF Fits, g, Small
  <2> QED  BY <2>3, <2>5
<1>4. Cardinality(D) \in Nat
  BY FS_CardinalityType
<1>5. Cardinality(D) \in Good
  <2> HIDE DEF Good
  <2> QED  BY <1>2, <1>3, <1>4, AllNumbers
<1>6. Small(Cardinality(D)) = SUBSET D
  BY FS_Subset
<1> QED  BY <1>5, <1>6 DEF Solves

-----------------------------------------------------------------------------
(* Sums of the values of a function over a finite set, as Functions.tla    *)
(* defines them.                                                           *)

\* it gives the sum over every subset of D, and takes off one element after
\* another to find it.
SumsUp(it, fun, D) ==
    /\ it \in [SUBSET D -> Nat]
    /\ \A s \in SUBSET D :
          it[s] = IF s = {} THEN 0
                  ELSE fun[CHOOSE x \in s : TRUE]
                          + it[s \ {CHOOSE x \in s : TRUE}]
    /\ SumFunctionOnSet(fun, D) = it[D]

\* A sum over D is the value at D of such a function.
LEMMA SumIsRecursive ==
    ASSUME NEW fun, NEW D, IsFiniteSet(D), \A x \in D : fun[x] \in Nat
    PROVE  \E it : SumsUp(it, fun, D)
<1> DEFINE pick == [s \in SUBSET D |-> CHOOSE x \in s : TRUE]
           step == [x \in D |-> [v \in Nat |-> fun[x] + v]]
           It == CHOOSE it : it =
                    [s \in SUBSET D |->
                       IF s = {} THEN 0
                       ELSE fun[CHOOSE x \in s : TRUE]
                               + it[s \ {CHOOSE x \in s : TRUE}]]
<1>1. \A s \in SUBSET D : s # {} => pick[s] \in s
  OBVIOUS
<1>2. \A x \in D, v \in Nat : step[x][v] = fun[x] + v /\ step[x][v] \in Nat
  OBVIOUS
<1>3. PICK f : Solves(f, D, Nat, 0, pick, step)
  <2>1. Recursion(D, Nat, 0, pick, step)
    <3> HIDE DEF pick, step, It
    <3> QED  BY <1>1, <1>2 DEF Recursion
  <2> HIDE DEF pick, step, It
  <2> QED  BY <2>1, RecursionExists
<1>4. ASSUME NEW s \in SUBSET D
      PROVE  f[s] = IF s = {} THEN 0
                    ELSE fun[CHOOSE x \in s : TRUE]
                            + f[s \ {CHOOSE x \in s : TRUE}]
  <2>1. CASE s = {}
    BY <1>3, <2>1 DEF Solves
  <2>2. CASE s # {}
    <3>1. pick[s] \in D /\ f[s \ {pick[s]}] \in Nat
      BY <1>1, <1>3, <2>2 DEF Solves
    <3>2. step[pick[s]][f[s \ {pick[s]}]] = fun[pick[s]] + f[s \ {pick[s]}]
      BY <1>2, <3>1
    <3>3. f[s] = fun[pick[s]] + f[s \ {pick[s]}]
      BY <1>3, <2>2, <3>2 DEF Solves
    <3> QED  BY <2>2, <3>3
  <2> QED  BY <2>1, <2>2
<1>5. f = [s \in SUBSET D |->
             IF s = {} THEN 0
             ELSE fun[CHOOSE x \in s : TRUE] + f[s \ {CHOOSE x \in s : TRUE}]]
  BY <1>3, <1>4 DEF Solves
<1>6. It = [s \in SUBSET D |->
              IF s = {} THEN 0
              ELSE fun[CHOOSE x \in s : TRUE]
                      + It[s \ {CHOOSE x \in s : TRUE}]]
  BY <1>5, Zenon
<1>7. ASSUME NEW s \in SUBSET D
      PROVE  It[s] = IF s = {} THEN 0
                     ELSE fun[CHOOSE x \in s : TRUE]
                             + It[s \ {CHOOSE x \in s : TRUE}]
  <2> HIDE DEF It
  <2> QED  BY <1>6, Zenon
<1>8. \A s \in SUBSET D : It[s] = f[s]
  <2> DEFINE Bad == {s \in SUBSET D : It[s] # f[s]}
  <2> HIDE DEF It
  <2> SUFFICES ASSUME Bad # {} PROVE FALSE
    OBVIOUS
  <2>1. PICK s \in Bad : \A t \in Bad : t \subseteq s => t = s
    <3>1. Bad \in SUBSET (SUBSET D)
      OBVIOUS
    <3> HIDE DEF Bad
    <3> QED  BY <3>1, SmallestSet
  <2> DEFINE c == CHOOSE x \in s : TRUE
  <2>2. s # {} /\ c \in s
    BY <1>4, <1>7, <2>1
  <2>3. s \ {c} \in SUBSET D /\ s \ {c} \notin Bad
    BY <2>1, <2>2
  <2>4. It[s \ {c}] = f[s \ {c}]
    BY <2>3
  <2>5. f[s] = fun[c] + f[s \ {c}] /\ It[s] = fun[c] + It[s \ {c}]
    <3>1. s \in SUBSET D
      BY <2>1
    <3> HIDE DEF Bad
    <3> QED  BY <1>4, <1>7, <2>2, <3>1, Zenon
  <2> QED  BY <2>1, <2>4, <2>5
<1>9. SumFunctionOnSet(fun, D) = It[D]
  BY Zenon DEF SumFunctionOnSet, FoldFunctionOnSet, MapThenFoldSet
<1>10. SumsUp(f, fun, D)
  <2>1. f \in [SUBSET D -> Nat] /\ D \in SUBSET D
    BY <1>3 DEF Solves
  <2>2. SumFunctionOnSet(fun, D) = f[D]
    <3> HIDE DEF It
    <3> QED  BY <1>8, <1>9, <2>1
  <2> HIDE DEF It, pick, step
  <2> QED  BY <1>4, <2>1, <2>2 DEF SumsUp
<1> QED  BY <1>10

\* A sum over a finite set of natural numbers is a natural number.
LEMMA SumType ==
    ASSUME NEW fun, NEW D, IsFiniteSet(D), \A x \in D : fun[x] \in Nat
    PROVE  SumFunctionOnSet(fun, D) \in Nat
<1>1. D \in SUBSET D
  OBVIOUS
<1>2. PICK it : SumsUp(it, fun, D)
  BY SumIsRecursive
<1> QED  BY <1>1, <1>2 DEF SumsUp

\* The sum over no elements is 0.
LEMMA SumEmpty ==
    ASSUME NEW fun
    PROVE  SumFunctionOnSet(fun, {}) = 0
<1>1. IsFiniteSet({})
  BY FS_EmptySet
<1>2. PICK it : SumsUp(it, fun, {})
  BY <1>1, SumIsRecursive
<1> QED  BY <1>2 DEF SumsUp

\* The first element that the definition takes off.
LEMMA SumFirst ==
    ASSUME NEW fun, NEW D, IsFiniteSet(D), \A x \in D : fun[x] \in Nat,
           D # {}
    PROVE  /\ (CHOOSE x \in D : TRUE) \in D
           /\ SumFunctionOnSet(fun, D) =
                 fun[CHOOSE x \in D : TRUE]
                    + SumFunctionOnSet(fun, D \ {CHOOSE x \in D : TRUE})
<1> DEFINE c == CHOOSE x \in D : TRUE
           E == D \ {c}
<1>1. c \in D
  OBVIOUS
<1>2. IsFiniteSet(E)
  BY FS_Subset
<1>3. PICK f : SumsUp(f, fun, D)
  BY SumIsRecursive
<1>4. PICK g : SumsUp(g, fun, E)
  <2>1. \A x \in E : fun[x] \in Nat
    OBVIOUS
  <2> HIDE DEF E
  <2> QED  BY <1>2, <2>1, SumIsRecursive
<1> USE DEF SumsUp
<1>5. \A s \in SUBSET E : s \in SUBSET D /\ f[s] = g[s]
  <2> DEFINE Bad == {s \in SUBSET E : f[s] # g[s]}
  <2>1. SUBSET E \subseteq SUBSET D
    OBVIOUS
  <2> SUFFICES ASSUME Bad # {} PROVE FALSE
    BY <2>1
  <2> HIDE DEF c, E
  <2>2. PICK s \in Bad : \A t \in Bad : t \subseteq s => t = s
    <3>1. Bad \in SUBSET (SUBSET E)
      OBVIOUS
    <3> HIDE DEF Bad
    <3> QED  BY <1>2, <3>1, SmallestSet
  <2> DEFINE d == CHOOSE x \in s : TRUE
  <2>3. s \in SUBSET E /\ s \in SUBSET D /\ f[s] # g[s]
    BY <2>1, <2>2
  <2>4. s # {}
    BY <1>3, <1>4, <2>3
  <2>5. d \in s
    BY <2>4
  <2>6. s \ {d} \in SUBSET E /\ s \ {d} \notin Bad
    BY <2>2, <2>3, <2>5
  <2>7. f[s \ {d}] = g[s \ {d}]
    BY <2>6
  <2>8. f[s] = fun[d] + f[s \ {d}] /\ g[s] = fun[d] + g[s \ {d}]
    <3> HIDE DEF Bad
    <3> QED  BY <1>3, <1>4, <2>3, <2>4, Zenon
  <2> QED  BY <2>3, <2>7, <2>8
<1>6. f[D] = fun[c] + f[E]
  <2>1. D \in SUBSET D
    OBVIOUS
  <2> QED  BY <1>3, <2>1, Zenon
<1>7. f[E] = g[E]
  <2> HIDE DEF E
  <2> QED  BY <1>5
<1> QED  BY <1>1, <1>3, <1>4, <1>6, <1>7

\* Any element may be taken off first.
LEMMA SumRemove ==
    ASSUME NEW fun, NEW D, IsFiniteSet(D), \A x \in D : fun[x] \in Nat,
           NEW y \in D
    PROVE  SumFunctionOnSet(fun, D) = fun[y] + SumFunctionOnSet(fun, D \ {y})
<1> DEFINE Sum(s) == SumFunctionOnSet(fun, s)
           Bad == {s \in SUBSET D : \E x \in s : Sum(s) # fun[x] + Sum(s \ {x})}
<1>1. \A s \in SUBSET D : IsFiniteSet(s) /\ \A x \in s : fun[x] \in Nat
  BY FS_Subset
<1>2. \A s \in SUBSET D : Sum(s) \in Nat
  BY <1>1, SumType
<1> HIDE DEF Sum
<1>3. ASSUME Bad # {} PROVE FALSE
  <2>1. PICK s \in Bad : \A t \in Bad : t \subseteq s => t = s
    <3>1. Bad \in SUBSET (SUBSET D)
      OBVIOUS
    <3> HIDE DEF Bad
    <3> QED  BY <1>3, <3>1, SmallestSet
  <2>2. PICK x \in s : Sum(s) # fun[x] + Sum(s \ {x})
    BY <2>1
  <2> DEFINE c == CHOOSE z \in s : TRUE
  <2>3. s \in SUBSET D /\ s # {}
    BY <2>1, <2>2
  <2>4. c \in s /\ Sum(s) = fun[c] + Sum(s \ {c})
    <3> HIDE DEF Bad
    <3> QED  BY <1>1, <2>3, SumFirst DEF Sum
  <2> HIDE DEF c
  <2>5. x # c
    BY <2>2, <2>4
  <2>6. s \ {c} \in SUBSET D /\ s \ {c} \notin Bad /\ x \in s \ {c}
    BY <2>1, <2>3, <2>4, <2>5
  <2>7. Sum(s \ {c}) = fun[x] + Sum((s \ {c}) \ {x})
    BY <2>6
  <2>8. s \ {x} \in SUBSET D /\ s \ {x} \notin Bad /\ c \in s \ {x}
    BY <2>1, <2>2, <2>3, <2>4, <2>5
  <2>9. Sum(s \ {x}) = fun[c] + Sum((s \ {x}) \ {c})
    BY <2>8
  <2>10. (s \ {x}) \ {c} = (s \ {c}) \ {x}
    OBVIOUS
  <2>11. /\ fun[x] \in Nat
         /\ fun[c] \in Nat
         /\ (s \ {c}) \ {x} \in SUBSET D
    BY <2>2, <2>3, <2>4
  <2>12. Sum((s \ {c}) \ {x}) \in Nat
    BY <1>2, <2>11
  <2> HIDE DEF Bad
  <2> QED  BY <2>2, <2>4, <2>7, <2>9, <2>10, <2>11, <2>12
<1>4. D \in SUBSET D /\ D \notin Bad
  <2> HIDE DEF Bad
  <2> QED  BY <1>3
<1>5. Sum(D) = fun[y] + Sum(D \ {y})
  BY <1>4
<1> QED  BY <1>5 DEF Sum

\* Functions that agree on a set have the same sum over it.
LEMMA SumCongruent ==
    ASSUME NEW fun, NEW gun, NEW D, IsFiniteSet(D),
           \A x \in D : fun[x] \in Nat, \A x \in D : fun[x] = gun[x]
    PROVE  SumFunctionOnSet(fun, D) = SumFunctionOnSet(gun, D)
<1> DEFINE Bad == {s \in SUBSET D :
                      SumFunctionOnSet(fun, s) # SumFunctionOnSet(gun, s)}
<1>1. ASSUME Bad # {} PROVE FALSE
  <2>1. PICK s \in Bad : \A t \in Bad : t \subseteq s => t = s
    <3>1. Bad \in SUBSET (SUBSET D)
      OBVIOUS
    <3> HIDE DEF Bad
    <3> QED  BY <1>1, <3>1, SmallestSet
  <2>2. /\ IsFiniteSet(s)
        /\ \A x \in s : fun[x] \in Nat /\ gun[x] \in Nat /\ fun[x] = gun[x]
    BY <2>1, FS_Subset
  <2>3. s # {}
    BY <2>1, SumEmpty
  <2>4. PICK x \in s : TRUE
    BY <2>3
  <2>5. s \ {x} \notin Bad /\ s \ {x} \in SUBSET D
    BY <2>1, <2>4
  <2>6. SumFunctionOnSet(fun, s \ {x}) = SumFunctionOnSet(gun, s \ {x})
    BY <2>5
  <2>7. /\ SumFunctionOnSet(fun, s) = fun[x] + SumFunctionOnSet(fun, s \ {x})
        /\ SumFunctionOnSet(gun, s) = gun[x] + SumFunctionOnSet(gun, s \ {x})
    <3> HIDE DEF Bad
    <3> QED  BY <2>2, SumRemove
  <2>8. SumFunctionOnSet(fun, s) = SumFunctionOnSet(gun, s)
    <3> HIDE DEF Bad
    <3> QED  BY <2>2, <2>6, <2>7
  <2> QED  BY <2>1, <2>8
<1> QED  BY <1>1

\* A change of one value changes the sum by as much.
LEMMA SumChange ==
    ASSUME NEW fun, NEW gun, NEW D, IsFiniteSet(D),
           \A x \in D : fun[x] \in Nat /\ gun[x] \in Nat,
           NEW y \in D, \A x \in D : x # y => fun[x] = gun[x]
    PROVE  SumFunctionOnSet(gun, D) =
              SumFunctionOnSet(fun, D) + gun[y] - fun[y]
<1>1. IsFiniteSet(D \ {y})
  BY FS_Subset
<1>2. SumFunctionOnSet(fun, D \ {y}) = SumFunctionOnSet(gun, D \ {y})
  BY <1>1, SumCongruent
<1>3. SumFunctionOnSet(fun, D) = fun[y] + SumFunctionOnSet(fun, D \ {y})
  BY SumRemove
<1>4. SumFunctionOnSet(gun, D) = gun[y] + SumFunctionOnSet(gun, D \ {y})
  BY SumRemove
<1>5. SumFunctionOnSet(fun, D \ {y}) \in Nat
  BY <1>1, SumType
<1> QED  BY <1>2, <1>3, <1>4, <1>5

\* The sum of two functions.
LEMMA SumAdd ==
    ASSUME NEW fun, NEW gun, NEW hun, NEW D, IsFiniteSet(D),
           \A x \in D : /\ fun[x] \in Nat /\ gun[x] \in Nat
                        /\ hun[x] = fun[x] + gun[x]
    PROVE  SumFunctionOnSet(hun, D) =
              SumFunctionOnSet(fun, D) + SumFunctionOnSet(gun, D)
<1> DEFINE F(s) == SumFunctionOnSet(fun, s)
           G(s) == SumFunctionOnSet(gun, s)
           H(s) == SumFunctionOnSet(hun, s)
           Bad == {s \in SUBSET D : H(s) # F(s) + G(s)}
<1>1. \A s \in SUBSET D :
        /\ IsFiniteSet(s)
        /\ \A x \in s : fun[x] \in Nat /\ gun[x] \in Nat /\ hun[x] \in Nat
  BY FS_Subset
<1>2. \A s \in SUBSET D : F(s) \in Nat /\ G(s) \in Nat /\ H(s) \in Nat
  BY <1>1, SumType
<1>3. F({}) = 0 /\ G({}) = 0 /\ H({}) = 0
  BY SumEmpty
<1>4. \A s \in SUBSET D : \A x \in s :
        /\ F(s) = fun[x] + F(s \ {x})
        /\ G(s) = gun[x] + G(s \ {x})
        /\ H(s) = hun[x] + H(s \ {x})
  <2> TAKE s \in SUBSET D
  <2> TAKE x \in s
  <2>1. /\ IsFiniteSet(s)
        /\ \A y \in s : fun[y] \in Nat /\ gun[y] \in Nat /\ hun[y] \in Nat
    BY <1>1
  <2>2. F(s) = fun[x] + F(s \ {x})
    BY <2>1, SumRemove
  <2>3. G(s) = gun[x] + G(s \ {x})
    BY <2>1, SumRemove
  <2>4. H(s) = hun[x] + H(s \ {x})
    BY <2>1, SumRemove
  <2> QED  BY <2>2, <2>3, <2>4
<1> HIDE DEF F, G, H
<1>5. ASSUME Bad # {} PROVE FALSE
  <2>1. PICK s \in Bad : \A t \in Bad : t \subseteq s => t = s
    <3>1. Bad \in SUBSET (SUBSET D)
      OBVIOUS
    <3> HIDE DEF Bad
    <3> QED  BY <1>5, <3>1, SmallestSet
  <2>2. s \in SUBSET D /\ s # {}
    <3>1. s \in SUBSET D /\ H(s) # F(s) + G(s)
      BY <2>1
    <3>2. H({}) = F({}) + G({})
      BY <1>3
    <3> QED  BY <3>1, <3>2
  <2>3. PICK x \in s : TRUE
    BY <2>2
  <2>4. s \ {x} \in SUBSET D /\ s \ {x} \notin Bad
    BY <2>1, <2>2, <2>3
  <2>5. H(s \ {x}) = F(s \ {x}) + G(s \ {x})
    BY <2>4
  <2>6. /\ F(s \ {x}) \in Nat /\ G(s \ {x}) \in Nat
        /\ fun[x] \in Nat /\ gun[x] \in Nat /\ hun[x] = fun[x] + gun[x]
    BY <1>2, <2>2, <2>3, <2>4
  <2>7. H(s) = F(s) + G(s)
    <3>1. /\ F(s) = fun[x] + F(s \ {x})
          /\ G(s) = gun[x] + G(s \ {x})
          /\ H(s) = hun[x] + H(s \ {x})
      BY <1>4, <2>2, <2>3
    <3> HIDE DEF Bad
    <3> QED  BY <2>5, <2>6, <3>1
  <2> QED  BY <2>1, <2>7
<1>6. D \in SUBSET D /\ D \notin Bad
  BY <1>5
<1> QED  BY <1>6 DEF F, G, H

\* The sum over equal values.
LEMMA SumOfConstant ==
    ASSUME NEW fun, NEW D, IsFiniteSet(D), NEW v \in Nat,
           \A x \in D : fun[x] = v
    PROVE  SumFunctionOnSet(fun, D) = Cardinality(D) * v
<1> DEFINE Bad == {s \in SUBSET D :
                      SumFunctionOnSet(fun, s) # Cardinality(s) * v}
<1>1. ASSUME Bad # {} PROVE FALSE
  <2>1. PICK s \in Bad : \A t \in Bad : t \subseteq s => t = s
    <3>1. Bad \in SUBSET (SUBSET D)
      OBVIOUS
    <3> HIDE DEF Bad
    <3> QED  BY <1>1, <3>1, SmallestSet
  <2>2. IsFiniteSet(s) /\ \A x \in s : fun[x] \in Nat /\ fun[x] = v
    BY <2>1, FS_Subset
  <2>3. s # {}
    <3>1. Cardinality({}) = 0 /\ SumFunctionOnSet(fun, {}) = 0
      BY SumEmpty, FS_EmptySet
    <3>2. {} \notin Bad
      BY <3>1
    <3> QED  BY <2>1, <3>2
  <2>4. PICK x \in s : TRUE
    BY <2>3
  <2> DEFINE rest == s \ {x}
             n == Cardinality(rest)
  <2>5. rest \notin Bad /\ rest \in SUBSET D
    BY <2>1, <2>4
  <2>6. SumFunctionOnSet(fun, rest) = n * v
    BY <2>5
  <2>7. SumFunctionOnSet(fun, s) = fun[x] + SumFunctionOnSet(fun, rest)
    <3> HIDE DEF Bad
    <3> QED  BY <2>2, SumRemove
  <2>8. n \in Nat /\ Cardinality(s) = n + 1
    <3>1. /\ Cardinality(rest) = Cardinality(s) - 1
          /\ Cardinality(s) \in Nat /\ Cardinality(rest) \in Nat
      BY <2>2, FS_RemoveElement, FS_Subset, FS_CardinalityType
    <3> QED  BY <3>1
  <2>9. (n + 1) * v = n * v + v /\ n * v \in Nat
    <3> HIDE DEF n
    <3> QED  BY <2>8
  <2>10. fun[x] = v
    BY <2>2, <2>4
  <2>11. SumFunctionOnSet(fun, s) = Cardinality(s) * v
    <3> HIDE DEF Bad, n, rest
    <3> QED  BY <2>6, <2>7, <2>8, <2>9, <2>10
  <2> QED  BY <2>1, <2>11
<1>2. D \in SUBSET D /\ D \notin Bad
  BY <1>1
<1> QED  BY <1>2

\* The sum over zeros is 0.
LEMMA SumOfZeros ==
    ASSUME NEW fun, NEW D, IsFiniteSet(D), \A x \in D : fun[x] = 0
    PROVE  SumFunctionOnSet(fun, D) = 0
<1>1. SumFunctionOnSet(fun, D) = Cardinality(D) * 0 /\ Cardinality(D) \in Nat
  BY SumOfConstant, FS_CardinalityType
<1> QED  BY <1>1

\* A set that is cut into m parts of c elements each.
LEMMA EqualParts ==
    ASSUME NEW P, IsFiniteSet(P), NEW m \in Nat, NEW c \in Nat,
           NEW part \in [P -> 0 .. m - 1],
           \A i \in 0 .. m - 1 : Cardinality({k \in P : part[k] = i}) = c
    PROVE  Cardinality(P) = m * c
<1> DEFINE Below(n) == {k \in P : part[k] < n}
           Good == {n \in Nat : n <= m => Cardinality(Below(n)) = n * c}
<1>1. 0 \in Good
  <2>1. Below(0) = {} /\ 0 * c = 0
    OBVIOUS
  <2>2. Cardinality(Below(0)) = 0
    BY <2>1, FS_EmptySet
  <2>3. Cardinality(Below(0)) = 0 * c
    <3> HIDE DEF Below
    <3> QED  BY <2>1, <2>2
  <2> QED  BY <2>3
<1>2. ASSUME NEW n \in Nat, n \in Good, n + 1 <= m
      PROVE  Cardinality(Below(n + 1)) = (n + 1) * c
  <2> DEFINE B == {k \in P : part[k] = n}
  <2>1. /\ IsFiniteSet(Below(n)) /\ IsFiniteSet(B) /\ Below(n) \cap B = {}
        /\ Below(n + 1) = Below(n) \cup B
    <3>1. Below(n) \in SUBSET P /\ B \in SUBSET P
      OBVIOUS
    <3>2. IsFiniteSet(Below(n)) /\ IsFiniteSet(B)
      BY <3>1, FS_Subset
    <3>3. \A k \in P : /\ part[k] < n + 1 <=> (part[k] < n \/ part[k] = n)
                       /\ ~(part[k] < n /\ part[k] = n)
      OBVIOUS
    <3> QED  BY <3>2, <3>3
  <2>2. Cardinality(Below(n)) = n * c /\ Cardinality(B) = c
    <3>1. n \in 0 .. m - 1 /\ n <= m
      BY <1>2
    <3> QED  BY <1>2, <3>1
  <2>3. Cardinality(Below(n) \cap B) = 0
    BY <2>1, FS_EmptySet
  <2> HIDE DEF B, Below, Good
  <2>4. Cardinality(Below(n) \cup B)
          = Cardinality(Below(n)) + Cardinality(B) - Cardinality(Below(n) \cap B)
    BY <2>1, FS_Union
  <2>5. n * c \in Nat /\ (n + 1) * c = n * c + c
    OBVIOUS
  <2>6. Cardinality(Below(n + 1)) = n * c + c
    <3>1. Cardinality(Below(n + 1)) = n * c + c - 0
      BY <2>1, <2>2, <2>3, <2>4
    <3> QED  BY <2>5, <3>1
  <2> QED  BY <2>5, <2>6
<1>3. m \in Good
  <2>1. \A n \in Nat : n \in Good => n + 1 \in Good
    BY <1>2
  <2> HIDE DEF Good
  <2> QED  BY <1>1, <2>1, AllNumbers
<1>4. Below(m) = P
  OBVIOUS
<1> QED  BY <1>3, <1>4

=============================================================================
