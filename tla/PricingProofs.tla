--------------------------- MODULE PricingProofs ---------------------------
(***************************************************************************)
(* The amounts, for every menu, cart and set of zones: an order is worth   *)
(* its zone's minimum, iiko is told to collect what the client was         *)
(* charged, and that sum is the one of the items it is asked for.          *)
(***************************************************************************)
EXTENDS GatewayProofs, WellFoundedInduction

----------------------------------------------------------------------------
(* Numbers and finite sets                                                 *)

\* Every set of numbers has a least one.
LEMMA LeastNumber ==
  ASSUME NEW T \in SUBSET Nat, T # {}
  PROVE  \E n \in T : \A m \in T : n <= m
<1> DEFINE R == {ss \in Nat \X Nat : ss[1] < ss[2]}
<1>1. R = OpToRel(<, Nat)
  BY DEF OpToRel
<1>2. IsWellFoundedOn(R, Nat)
  BY <1>1, NatLessThanWellFounded
<1>3. PICK n \in T : \A m \in T : ~(<<m, n>> \in R)
  <2> HIDE DEF R
  <2> QED BY <1>2, WFMin
<1>4. \A m \in T : n <= m
  <2> SUFFICES ASSUME NEW m \in T PROVE n <= m
    OBVIOUS
  <2>1. <<m, n>> \notin R
    BY <1>3
  <2> QED BY <2>1
<1> QED BY <1>4

\* What holds of 0, and of n + 1 whenever of n, holds of every number.
LEMMA EveryNumber ==
  ASSUME NEW T, 0 \in T, \A n \in Nat : n \in T => n + 1 \in T
  PROVE  Nat \subseteq T
<1> SUFFICES ASSUME Nat \ T # {} PROVE FALSE
  OBVIOUS
<1>1. PICK n \in Nat \ T : \A m \in Nat \ T : n <= m
  BY LeastNumber
<1>2. n - 1 \in Nat /\ n - 1 \notin Nat \ T
  BY <1>1
<1> QED BY <1>2

\* A collection of subsets of a finite set that has the empty one, and with
\* each set those with one element more, has the whole set.
LEMMA WholeSet ==
  ASSUME NEW S, IsFiniteSet(S), NEW T, {} \in T,
         \A A \in SUBSET S : \A x \in S \ A : A \in T => A \cup {x} \in T
  PROVE  S \in T
<1> DEFINE Sizes == {n \in Nat : \A A \in SUBSET S : Cardinality(A) = n => A \in T}
<1>1. 0 \in Sizes
  BY FS_EmptySet, FS_Subset
<1>2. ASSUME NEW n \in Nat, n \in Sizes PROVE n + 1 \in Sizes
  <2> SUFFICES ASSUME NEW A \in SUBSET S, Cardinality(A) = n + 1 PROVE A \in T
    OBVIOUS
  <2>1. IsFiniteSet(A)
    BY FS_Subset
  <2>2. PICK x \in A : TRUE
    BY <2>1, FS_EmptySet
  <2>3. Cardinality(A \ {x}) = n
    <3>1. Cardinality(A \ {x}) = Cardinality(A) - 1
      BY <2>1, <2>2, FS_RemoveElement
    <3> QED BY <3>1
  <2>4. A \ {x} \in T
    BY <2>3, <1>2
  <2>5. (A \ {x}) \cup {x} \in T
    BY <2>4, <2>2
  <2>6. (A \ {x}) \cup {x} = A
    BY <2>2
  <2> QED BY <2>5, <2>6
<1>3. Nat \subseteq Sizes
  <2> HIDE DEF Sizes
  <2> QED BY <1>1, <1>2, EveryNumber
<1>4. Cardinality(S) \in Nat
  BY FS_CardinalityType
<1> QED BY <1>3, <1>4

----------------------------------------------------------------------------
(* Sums: SumFunctionOnSet does not depend on the order of its summands     *)

\* The element at which a sum begins.
Chosen(s) == CHOOSE x \in s : TRUE

\* What h must be at s when it sums f.
Part(f, h, s) == IF s = {} THEN 0 ELSE f[Chosen(s)] + h[s \ {Chosen(s)}]

\* h is how the sum of f on S is computed.
Sums(f, h, S) == h = [s \in SUBSET S |-> Part(f, h, s)]

\* What is added are numbers.
Numbers(f, S) == \A x \in S : f[x] \in Nat

\* The sums of the subsets of S, as SumFunctionOnSet defines them.
Partials(f, S) == CHOOSE h : Sums(f, h, S)

\* What is chosen from a set is in it.
LEMMA ChosenFrom == \A s : s # {} => Chosen(s) \in s
BY DEF Chosen

\* SumFunctionOnSet, with its parts named.
LEMMA SumUnfolds ==
  ASSUME NEW f, NEW S
  PROVE  SumFunctionOnSet(f, S) = Partials(f, S)[S]
BY DEF SumFunctionOnSet, FoldFunctionOnSet, MapThenFoldSet, Partials, Sums, Part, Chosen

\* The subsets of at most n elements.
UpTo(S, n) == {s \in SUBSET S : Cardinality(s) <= n}

\* Without the element that is chosen a set has one element less.
LEMMA UpToLess ==
  ASSUME NEW S, IsFiniteSet(S), NEW n \in Nat, NEW s \in UpTo(S, n), s # {}
  PROVE  n > 0 /\ s \ {Chosen(s)} \in UpTo(S, n - 1) /\ Chosen(s) \in S
<1>1. IsFiniteSet(s) /\ s \in SUBSET S /\ Cardinality(s) \in Nat
  BY FS_Subset, FS_CardinalityType DEF UpTo
<1>2. Chosen(s) \in s
  BY ChosenFrom
<1>3. Cardinality(s) # 0
  BY <1>1, FS_EmptySet
<1>4. Cardinality(s \ {Chosen(s)}) = Cardinality(s) - 1
  BY <1>1, <1>2, FS_RemoveElement
<1> QED BY <1>1, <1>2, <1>3, <1>4 DEF UpTo

\* Only the empty set has no element.
LEMMA UpToNone ==
  ASSUME NEW S, IsFiniteSet(S)
  PROVE  \A s \in UpTo(S, 0) : s = {}
<1> SUFFICES ASSUME NEW s \in UpTo(S, 0) PROVE s = {}
  OBVIOUS
<1>1. IsFiniteSet(s) /\ Cardinality(s) \in Nat /\ Cardinality(s) <= 0
  BY FS_Subset, FS_CardinalityType DEF UpTo
<1>2. Cardinality(s) = 0
  BY <1>1
<1> QED BY <1>1, <1>2, FS_EmptySet

\* The sum of f on a set is computed alike within every set around it.
LEMMA SumsAgree ==
  ASSUME NEW f, NEW S, IsFiniteSet(S)
  PROVE  \A R \in SUBSET S : \A h, g :
           Sums(f, h, S) /\ Sums(f, g, R) => \A s \in SUBSET R : h[s] = g[s]
<1> SUFFICES ASSUME NEW R \in SUBSET S, NEW h, NEW g, Sums(f, h, S), Sums(f, g, R)
             PROVE  \A s \in SUBSET R : h[s] = g[s]
  OBVIOUS
<1> DEFINE T == {n \in Nat : \A s \in UpTo(R, n) : h[s] = g[s]}
<1>1. IsFiniteSet(R)
  BY FS_Subset
<1>2. \A s \in SUBSET R : h[s] = Part(f, h, s) /\ g[s] = Part(f, g, s)
  BY DEF Sums
<1>3. 0 \in T
  <2>1. \A s \in UpTo(R, 0) : s = {} /\ s \in SUBSET R
    BY <1>1, UpToNone DEF UpTo
  <2> QED BY <1>2, <2>1 DEF Part
<1>4. ASSUME NEW n \in Nat, n \in T PROVE n + 1 \in T
  <2> SUFFICES ASSUME NEW s \in UpTo(R, n + 1) PROVE h[s] = g[s]
    OBVIOUS
  <2>0. s \in SUBSET R
    BY DEF UpTo
  <2>1. CASE s = {}
    BY <2>1, <1>2 DEF Part
  <2>2. CASE s # {}
    <3>1. s \ {Chosen(s)} \in UpTo(R, (n + 1) - 1)
      BY <2>2, <1>1, UpToLess
    <3>2. s \ {Chosen(s)} \in UpTo(R, n)
      BY <3>1
    <3>3. h[s \ {Chosen(s)}] = g[s \ {Chosen(s)}]
      BY <3>2, <1>4
    <3> QED BY <3>3, <1>2, <2>0, <2>2 DEF Part
  <2> QED BY <2>1, <2>2
<1>5. Nat \subseteq T
  <2> HIDE DEF T
  <2> QED BY <1>3, <1>4, EveryNumber
<1>6. Cardinality(R) \in T /\ UpTo(R, Cardinality(R)) = SUBSET R
  BY <1>5, <1>1, FS_CardinalityType, FS_Subset DEF UpTo
<1> QED BY <1>6

\* The recursive function that sums is there, and its values are numbers.
LEMMA SumsExist ==
  ASSUME NEW f, NEW S, IsFiniteSet(S), Numbers(f, S)
  PROVE  /\ Sums(f, Partials(f, S), S)
         /\ \A s \in SUBSET S : Partials(f, S)[s] \in Nat
<1> DEFINE Good(h, n) == \A s \in UpTo(S, n) : h[s] = Part(f, h, s) /\ h[s] \in Nat
<1> DEFINE T == {n \in Nat : \E h : Good(h, n)}
<1>1. 0 \in T
  <2> DEFINE h == [s \in SUBSET S |-> 0]
  <2>1. \A s \in UpTo(S, 0) : s = {}
    BY UpToNone
  <2>2. {} \in SUBSET S
    OBVIOUS
  <2>3. Good(h, 0)
    BY <2>1, <2>2 DEF Part
  <2> QED BY <2>3
<1>2. ASSUME NEW n \in Nat, n \in T PROVE n + 1 \in T
  <2>1. PICK h : Good(h, n)
    BY <1>2
  <2> DEFINE g == [s \in SUBSET S |-> Part(f, h, s)]
  <2>2. \A s \in UpTo(S, n) : g[s] = h[s] /\ g[s] \in Nat
    BY <2>1 DEF UpTo
  <2>3. ASSUME NEW s \in UpTo(S, n + 1) PROVE g[s] = Part(f, g, s) /\ g[s] \in Nat
    <3>0. s \in SUBSET S
      BY DEF UpTo
    <3>1. CASE s = {}
      BY <3>1, <3>0 DEF Part
    <3>2. CASE s # {}
      <4>1. s \ {Chosen(s)} \in UpTo(S, (n + 1) - 1) /\ Chosen(s) \in S
        BY <3>2, UpToLess
      <4>2. s \ {Chosen(s)} \in UpTo(S, n)
        BY <4>1
      <4>3. g[s \ {Chosen(s)}] = h[s \ {Chosen(s)}] /\ g[s \ {Chosen(s)}] \in Nat
        BY <4>2, <2>2
      <4>4. f[Chosen(s)] \in Nat
        BY <4>1 DEF Numbers
      <4>5. g[s] = Part(f, h, s)
        BY <3>0
      <4> HIDE DEF g
      <4> QED BY <4>3, <4>4, <4>5, <3>2 DEF Part
    <3> QED BY <3>1, <3>2
  <2>4. Good(g, n + 1)
    <3> HIDE DEF g
    <3> QED BY <2>3
  <2> QED
    <3> HIDE DEF g, Good
    <3> QED BY <2>4
<1>3. Nat \subseteq T
  <2> HIDE DEF T
  <2> QED BY <1>1, <1>2, EveryNumber
<1>4. PICK h : Good(h, Cardinality(S))
  BY <1>3, FS_CardinalityType
<1>5. UpTo(S, Cardinality(S)) = SUBSET S
  BY FS_Subset DEF UpTo
<1> DEFINE g == [s \in SUBSET S |-> h[s]]
<1>6. \A s \in SUBSET S : Part(f, g, s) = Part(f, h, s)
  <2> SUFFICES ASSUME NEW s \in SUBSET S PROVE Part(f, g, s) = Part(f, h, s)
    OBVIOUS
  <2>1. s \ {Chosen(s)} \in SUBSET S
    OBVIOUS
  <2>2. g[s \ {Chosen(s)}] = h[s \ {Chosen(s)}]
    BY <2>1
  <2> QED BY <2>2 DEF Part
<1>7. \A s \in SUBSET S : g[s] = Part(f, g, s)
  BY <1>4, <1>5, <1>6
<1>8. Sums(f, g, S)
  <2>1. g = [s \in SUBSET S |-> g[s]]
    OBVIOUS
  <2> HIDE DEF g
  <2> QED BY <1>7, <2>1 DEF Sums
<1>9. Sums(f, Partials(f, S), S)
  BY <1>8 DEF Partials
<1>10. \A s \in SUBSET S : Partials(f, S)[s] \in Nat
  <2>1. \A s \in SUBSET S : Partials(f, S)[s] = g[s]
    <3> HIDE DEF g
    <3>1. S \in SUBSET S
      OBVIOUS
    <3> DEFINE p == Partials(f, S)
    <3>2. Sums(f, p, S)
      BY <1>9
    <3> HIDE DEF p
    <3>3. \A s \in SUBSET S : p[s] = g[s]
      BY <3>1, <3>2, <1>8, SumsAgree
    <3> QED BY <3>3 DEF p
  <2>2. \A s \in SUBSET S : g[s] \in Nat
    BY <1>4, <1>5
  <2> QED BY <2>1, <2>2
<1> QED BY <1>9, <1>10

\* The sum over nothing.
LEMMA SumNothing == \A f : SumFunctionOnSet(f, {}) = 0
<1> SUFFICES ASSUME NEW f PROVE SumFunctionOnSet(f, {}) = 0
  OBVIOUS
<1>1. IsFiniteSet({}) /\ Numbers(f, {}) /\ {} \in SUBSET {}
  BY FS_EmptySet DEF Numbers
<1>2. Sums(f, Partials(f, {}), {})
  BY <1>1, SumsExist
<1>3. Partials(f, {})[{}] = Part(f, Partials(f, {}), {})
  BY <1>1, <1>2 DEF Sums
<1> QED BY <1>3, SumUnfolds DEF Part

\* A sum of numbers is a number.
LEMMA SumType ==
  ASSUME NEW f, NEW S, IsFiniteSet(S), Numbers(f, S)
  PROVE  SumFunctionOnSet(f, S) \in Nat
BY SumsExist, SumUnfolds

\* The element that is chosen first.
LEMMA SumFirst ==
  ASSUME NEW f, NEW S, IsFiniteSet(S), Numbers(f, S), S # {}
  PROVE  SumFunctionOnSet(f, S) = f[Chosen(S)] + SumFunctionOnSet(f, S \ {Chosen(S)})
<1> DEFINE R == S \ {Chosen(S)}
           p == Partials(f, S)
           q == Partials(f, R)
<1>1. R \in SUBSET S /\ S \in SUBSET S /\ R \in SUBSET R
  OBVIOUS
<1>2. IsFiniteSet(R) /\ Numbers(f, R)
  BY FS_Subset DEF Numbers
<1>3. Sums(f, p, S) /\ Sums(f, q, R)
  <2> HIDE DEF R
  <2> QED BY <1>2, SumsExist
<1>4. SumFunctionOnSet(f, S) = p[S] /\ SumFunctionOnSet(f, R) = q[R]
  <2> HIDE DEF R
  <2> QED BY SumUnfolds
<1>5. p[R] = q[R]
  <2> HIDE DEF R, p, q
  <2>1. R \in SUBSET S /\ Sums(f, p, S) /\ Sums(f, q, R)
    BY <1>1, <1>3
  <2>2. \A h, g : Sums(f, h, S) /\ Sums(f, g, R) => \A s \in SUBSET R : h[s] = g[s]
    BY <2>1, SumsAgree
  <2>3. \A s \in SUBSET R : p[s] = q[s]
    BY <2>1, <2>2
  <2> QED BY <2>3, <1>1
<1>6. p[S] = f[Chosen(S)] + p[R]
  <2> HIDE DEF p
  <2> QED BY <1>1, <1>3 DEF Sums, Part
<1> QED BY <1>4, <1>5, <1>6

\* Any element.
LEMMA SumRest ==
  ASSUME NEW f, NEW U, IsFiniteSet(U), Numbers(f, U)
  PROVE  \A S \in SUBSET U : \A x \in S :
           SumFunctionOnSet(f, S) = f[x] + SumFunctionOnSet(f, S \ {x})
<1> DEFINE Splits(S) == \A x \in S : SumFunctionOnSet(f, S) = f[x] + SumFunctionOnSet(f, S \ {x})
           T == {n \in Nat : \A S \in UpTo(U, n) : Splits(S)}
<1>0. \A S \in SUBSET U : IsFiniteSet(S) /\ Numbers(f, S) /\ Cardinality(S) \in Nat
                          /\ SumFunctionOnSet(f, S) \in Nat
  <2> SUFFICES ASSUME NEW S \in SUBSET U
               PROVE  IsFiniteSet(S) /\ Numbers(f, S) /\ Cardinality(S) \in Nat
                          /\ SumFunctionOnSet(f, S) \in Nat
    OBVIOUS
  <2>1. IsFiniteSet(S) /\ Numbers(f, S)
    BY FS_Subset DEF Numbers
  <2> QED BY <2>1, FS_CardinalityType, SumType
<1>1. 0 \in T
  BY UpToNone
<1>2. ASSUME NEW n \in Nat, n \in T PROVE n + 1 \in T
  <2> SUFFICES ASSUME NEW S \in UpTo(U, n + 1), NEW x \in S
               PROVE  SumFunctionOnSet(f, S) = f[x] + SumFunctionOnSet(f, S \ {x})
    OBVIOUS
  <2> DEFINE c == Chosen(S)
  <2>0. S \in SUBSET U /\ c \in S /\ Cardinality(S) <= n + 1
    BY ChosenFrom DEF UpTo
  <2>1. SumFunctionOnSet(f, S) = f[c] + SumFunctionOnSet(f, S \ {c})
    BY <1>0, <2>0, SumFirst
  <2> HIDE DEF c
  <2>2. CASE x = c
    BY <2>1, <2>2
  <2>3. CASE x # c
    <3>1. Cardinality(S \ {x}) = Cardinality(S) - 1 /\ Cardinality(S \ {c}) = Cardinality(S) - 1
      BY <1>0, <2>0, FS_RemoveElement
    <3>2. S \ {x} \in UpTo(U, n) /\ S \ {c} \in UpTo(U, n)
      <4>1. Cardinality(S) \in Nat
        BY <1>0, <2>0
      <4> QED BY <3>1, <4>1, <2>0 DEF UpTo
    <3>3. SumFunctionOnSet(f, S \ {x}) = f[c] + SumFunctionOnSet(f, (S \ {x}) \ {c})
      BY <3>2, <2>0, <2>3, <1>2
    <3>4. SumFunctionOnSet(f, S \ {c}) = f[x] + SumFunctionOnSet(f, (S \ {c}) \ {x})
      BY <3>2, <2>0, <2>3, <1>2
    <3>5. (S \ {c}) \ {x} = (S \ {x}) \ {c} /\ (S \ {x}) \ {c} \in SUBSET U
      BY <2>0
    <3>6. f[x] \in Nat /\ f[c] \in Nat
      BY <2>0 DEF Numbers
    <3>7. SumFunctionOnSet(f, (S \ {x}) \ {c}) \in Nat
      BY <3>5, <1>0
    <3> DEFINE v == SumFunctionOnSet(f, (S \ {x}) \ {c})
    <3>8. SumFunctionOnSet(f, (S \ {c}) \ {x}) = v
      BY <3>5
    <3>9. /\ SumFunctionOnSet(f, S \ {x}) = f[c] + v
          /\ SumFunctionOnSet(f, S) = f[c] + (f[x] + v)
      BY <2>1, <3>3, <3>4, <3>8
    <3>10. v \in Nat
      BY <3>7
    <3> HIDE DEF v
    <3> QED BY <3>6, <3>9, <3>10
  <2> QED BY <2>2, <2>3
<1>3. Nat \subseteq T
  <2> HIDE DEF T
  <2> QED BY <1>1, <1>2, EveryNumber
<1> QED
  <2> SUFFICES ASSUME NEW S \in SUBSET U PROVE Splits(S)
    OBVIOUS
  <2>1. Cardinality(S) \in T
    BY <1>0, <1>3
  <2> QED BY <2>1, <1>0 DEF UpTo

\* One element more.
LEMMA SumMore ==
  ASSUME NEW f, NEW S, IsFiniteSet(S), Numbers(f, S), NEW A \in SUBSET S, NEW x \in S \ A
  PROVE  SumFunctionOnSet(f, A \cup {x}) = f[x] + SumFunctionOnSet(f, A)
<1> DEFINE B == A \cup {x}
<1>1. B \in SUBSET S /\ x \in B /\ B \ {x} = A
  OBVIOUS
<1> HIDE DEF B
<1>2. SumFunctionOnSet(f, B) = f[x] + SumFunctionOnSet(f, B \ {x})
  BY <1>1, SumRest
<1> QED BY <1>1, <1>2 DEF B

\* Of numbers that are alike.
LEMMA SumAlike ==
  ASSUME NEW f, NEW g, NEW S, IsFiniteSet(S), Numbers(f, S), \A x \in S : f[x] = g[x]
  PROVE  SumFunctionOnSet(f, S) = SumFunctionOnSet(g, S)
<1> DEFINE T == {A \in SUBSET S : SumFunctionOnSet(f, A) = SumFunctionOnSet(g, A)}
<1>1. {} \in T
  BY SumNothing
<1>2. ASSUME NEW A \in SUBSET S, NEW x \in S \ A, A \in T PROVE A \cup {x} \in T
  <2>1. Numbers(g, S)
    BY DEF Numbers
  <2>2. SumFunctionOnSet(f, A \cup {x}) = f[x] + SumFunctionOnSet(f, A)
    BY SumMore
  <2>3. SumFunctionOnSet(g, A \cup {x}) = g[x] + SumFunctionOnSet(g, A)
    BY <2>1, SumMore
  <2> QED BY <1>2, <2>2, <2>3
<1>3. S \in T
  <2> HIDE DEF T
  <2> QED BY <1>1, <1>2, WholeSet
<1> QED BY <1>3

\* The sum of sums.
LEMMA SumPlus ==
  ASSUME NEW f, NEW g, NEW h, NEW S, IsFiniteSet(S), Numbers(f, S), Numbers(g, S),
         \A x \in S : h[x] = f[x] + g[x]
  PROVE  SumFunctionOnSet(h, S) = SumFunctionOnSet(f, S) + SumFunctionOnSet(g, S)
<1> DEFINE T == {A \in SUBSET S : SumFunctionOnSet(h, A)
                                  = SumFunctionOnSet(f, A) + SumFunctionOnSet(g, A)}
<1>1. {} \in T
  BY SumNothing
<1>2. ASSUME NEW A \in SUBSET S, NEW x \in S \ A, A \in T PROVE A \cup {x} \in T
  <2>1. Numbers(h, S)
    BY DEF Numbers
  <2>2. SumFunctionOnSet(f, A \cup {x}) = f[x] + SumFunctionOnSet(f, A)
    BY SumMore
  <2>3. SumFunctionOnSet(g, A \cup {x}) = g[x] + SumFunctionOnSet(g, A)
    BY SumMore
  <2>4. SumFunctionOnSet(h, A \cup {x}) = h[x] + SumFunctionOnSet(h, A)
    BY <2>1, SumMore
  <2>5. f[x] \in Nat /\ g[x] \in Nat
    BY DEF Numbers
  <2>6. IsFiniteSet(A) /\ Numbers(f, A) /\ Numbers(g, A)
    BY FS_Subset DEF Numbers
  <2>7. SumFunctionOnSet(f, A) \in Nat /\ SumFunctionOnSet(g, A) \in Nat
    BY <2>6, SumType
  <2>8. A \cup {x} \in SUBSET S
    OBVIOUS
  <2> QED BY <1>2, <2>2, <2>3, <2>4, <2>5, <2>7, <2>8
<1>3. S \in T
  <2> HIDE DEF T
  <2> QED BY <1>1, <1>2, WholeSet
<1> QED BY <1>3

\* Zeros add nothing.
LEMMA SumZeros ==
  ASSUME NEW f, NEW S, IsFiniteSet(S), Numbers(f, S),
         NEW R \in SUBSET S, \A x \in S \ R : f[x] = 0
  PROVE  SumFunctionOnSet(f, S) = SumFunctionOnSet(f, R)
<1> DEFINE T == {A \in SUBSET S : SumFunctionOnSet(f, A) = SumFunctionOnSet(f, A \cap R)}
<1>1. {} \in T
  OBVIOUS
<1>2. ASSUME NEW A \in SUBSET S, NEW x \in S \ A, A \in T PROVE A \cup {x} \in T
  <2>1. SumFunctionOnSet(f, A \cup {x}) = f[x] + SumFunctionOnSet(f, A)
    BY SumMore
  <2>2. CASE x \in R
    <3> DEFINE B == A \cap R
    <3>1. B \in SUBSET S /\ x \in S \ B /\ (A \cup {x}) \cap R = B \cup {x}
      BY <2>2
    <3>2. SumFunctionOnSet(f, A) = SumFunctionOnSet(f, B)
      BY <1>2
    <3> HIDE DEF B
    <3>3. SumFunctionOnSet(f, B \cup {x}) = f[x] + SumFunctionOnSet(f, B)
      BY <3>1, SumMore
    <3> QED BY <2>1, <3>1, <3>2, <3>3
  <2>3. CASE x \notin R
    <3>1. (A \cup {x}) \cap R = A \cap R
      BY <2>3
    <3>2. f[x] = 0 /\ IsFiniteSet(A) /\ Numbers(f, A)
      BY <2>3, FS_Subset DEF Numbers
    <3>3. SumFunctionOnSet(f, A) \in Nat
      BY <3>2, SumType
    <3> QED BY <1>2, <2>1, <3>1, <3>2, <3>3
  <2> QED BY <2>2, <2>3
<1>3. S \in T
  <2> HIDE DEF T
  <2> QED BY <1>1, <1>2, WholeSet
<1>4. S \cap R = R
  OBVIOUS
<1> QED BY <1>3, <1>4

\* The sum of a function is that over its domain.
LEMMA SumOfAll ==
  ASSUME NEW f, NEW D, DOMAIN f = D
  PROVE  SumFunction(f) = SumFunctionOnSet(f, D)
BY DEF SumFunction

\* Numbers that are added group by group are added.
Grouped(q, k, w, P, A) ==
  [p \in P |-> SumFunctionOnSet(q, {l \in A : k[l] = p}) * w[p]]

Valued(q, k, w, S) == [l \in S |-> q[l] * w[k[l]]]

\* What one more element adds to its group.
LEMMA OneMoreInGroup ==
  ASSUME NEW P, IsFiniteSet(P), NEW S, IsFiniteSet(S), NEW q, Numbers(q, S),
         NEW w, Numbers(w, P), NEW k \in [S -> P], NEW A \in SUBSET S, NEW x \in S \ A
  PROVE  /\ Numbers(Grouped(q, k, w, P, A), P)
         /\ SumFunctionOnSet(Grouped(q, k, w, P, A \cup {x}), P)
              = SumFunctionOnSet(Grouped(q, k, w, P, A), P) + q[x] * w[k[x]]
<1> DEFINE B == A \cup {x}
           In(D, p) == {l \in D : k[l] = p}
           f == Grouped(q, k, w, P, A)
           h == Grouped(q, k, w, P, B)
           d == [p \in P |-> IF p = k[x] THEN q[x] * w[p] ELSE 0]
<1>1. k[x] \in P /\ q[x] \in Nat /\ w[k[x]] \in Nat /\ \A p \in P : w[p] \in Nat
  BY DEF Numbers
<1>2. ASSUME NEW p \in P
      PROVE  /\ SumFunctionOnSet(q, In(A, p)) \in Nat
             /\ SumFunctionOnSet(q, In(B, p))
                  = SumFunctionOnSet(q, In(A, p)) + (IF p = k[x] THEN q[x] ELSE 0)
  <2>1. In(A, p) \in SUBSET S /\ x \notin In(A, p)
    OBVIOUS
  <2>2. In(B, p) = IF p = k[x] THEN In(A, p) \cup {x} ELSE In(A, p)
    OBVIOUS
  <2> DEFINE D == In(A, p)
  <2>3. D \in SUBSET S /\ x \in S \ D /\ In(B, p) = IF p = k[x] THEN D \cup {x} ELSE D
    BY <2>1, <2>2
  <2> HIDE DEF D
  <2>4. IsFiniteSet(D) /\ Numbers(q, D)
    BY <2>3, FS_Subset DEF Numbers
  <2>5. SumFunctionOnSet(q, D) \in Nat
    BY <2>4, SumType
  <2>6. SumFunctionOnSet(q, D \cup {x}) = q[x] + SumFunctionOnSet(q, D)
    BY <2>3, SumMore
  <2>7. /\ SumFunctionOnSet(q, D) \in Nat
        /\ SumFunctionOnSet(q, In(B, p))
             = SumFunctionOnSet(q, D) + (IF p = k[x] THEN q[x] ELSE 0)
    <3>1. CASE p = k[x]
      BY <1>1, <2>3, <2>5, <2>6, <3>1
    <3>2. CASE p # k[x]
      BY <2>3, <2>5, <3>2
    <3> QED
      BY <3>1, <3>2
  <2> QED
    BY <2>7 DEF D
<1> HIDE DEF B, In
<1>3. ASSUME NEW p \in P
      PROVE  f[p] \in Nat /\ d[p] \in Nat /\ h[p] = f[p] + d[p]
  <2> DEFINE m == SumFunctionOnSet(q, In(A, p))
  <2>1. f[p] = m * w[p] /\ h[p] = SumFunctionOnSet(q, In(B, p)) * w[p]
    BY DEF Grouped, In
  <2>2. m \in Nat /\ SumFunctionOnSet(q, In(B, p)) = m + (IF p = k[x] THEN q[x] ELSE 0)
    BY <1>2
  <2> HIDE DEF m
  <2>3. m * w[p] \in Nat /\ q[x] * w[p] \in Nat
        /\ (m + q[x]) * w[p] = m * w[p] + q[x] * w[p]
    <3>1. \A a, b, c \in Nat : a * c \in Nat /\ (a + b) * c = a * c + b * c
      BY Z3
    <3> QED
      BY <1>1, <2>2, <3>1
  <2>4. CASE p = k[x]
    BY <2>1, <2>2, <2>3, <2>4
  <2>5. CASE p # k[x]
    BY <1>1, <2>1, <2>2, <2>3, <2>5
  <2> QED
    BY <2>4, <2>5
<1>4. d[k[x]] = q[x] * w[k[x]] /\ \A p \in P \ {k[x]} : d[p] = 0
  BY <1>1
<1> HIDE DEF f, h, d
<1>5. Numbers(f, P) /\ Numbers(d, P)
  BY <1>3 DEF Numbers
<1>6. SumFunctionOnSet(h, P) = SumFunctionOnSet(f, P) + SumFunctionOnSet(d, P)
  BY <1>3, <1>5, SumPlus
<1>7. SumFunctionOnSet(d, P) = d[k[x]]
  <2> DEFINE y == k[x]
             E == {}
             Y == E \cup {y}
  <2>1. Y \in SUBSET P /\ \A p \in P \ Y : d[p] = 0
    BY <1>1, <1>4
  <2>2. E \in SUBSET P /\ y \in P \ E /\ d[y] \in Nat
    BY <1>1, <1>3
  <2>3. SumFunctionOnSet(d, E) = 0
    BY SumNothing
  <2> HIDE DEF y, E
  <2>4. SumFunctionOnSet(d, Y) = d[y] + SumFunctionOnSet(d, E)
    BY <1>5, <2>2, SumMore
  <2> HIDE DEF Y
  <2>5. SumFunctionOnSet(d, P) = SumFunctionOnSet(d, Y)
    BY <1>5, <2>1, SumZeros
  <2> QED
    BY <2>2, <2>3, <2>4, <2>5 DEF y
<1>8. SumFunctionOnSet(h, P) = SumFunctionOnSet(f, P) + q[x] * w[k[x]]
  BY <1>4, <1>6, <1>7
<1> QED
  BY <1>5, <1>8 DEF f, h, B

\* A double sum is a sum.
LEMMA SumByGroup ==
  ASSUME NEW P, IsFiniteSet(P), NEW S, IsFiniteSet(S), NEW q, Numbers(q, S),
         NEW w, Numbers(w, P), NEW k \in [S -> P]
  PROVE  /\ Numbers(Grouped(q, k, w, P, S), P)
         /\ SumFunctionOnSet(Grouped(q, k, w, P, S), P) = SumFunctionOnSet(Valued(q, k, w, S), S)
<1> DEFINE v == Valued(q, k, w, S)
           T == {A \in SUBSET S : /\ Numbers(Grouped(q, k, w, P, A), P)
                                  /\ SumFunctionOnSet(Grouped(q, k, w, P, A), P)
                                       = SumFunctionOnSet(v, A)}
<1>1. \A l \in S : v[l] = q[l] * w[k[l]] /\ v[l] \in Nat
  BY DEF Valued, Numbers
<1>2. {} \in T
  <2> DEFINE E == {}
             z == Grouped(q, k, w, P, E)
  <2>1. \A p \in P : z[p] = 0
    <3> SUFFICES ASSUME NEW p \in P PROVE z[p] = 0
      OBVIOUS
    <3>1. {l \in E : k[l] = p} = {}
      OBVIOUS
    <3>2. z[p] = SumFunctionOnSet(q, {}) * w[p] /\ w[p] \in Nat
      BY <3>1 DEF Grouped, Numbers
    <3> QED
      BY <3>2, SumNothing
  <2> HIDE DEF z
  <2>2. Numbers(z, P)
    BY <2>1 DEF Numbers
  <2> DEFINE R == {}
  <2>3. R \in SUBSET P /\ \A p \in P \ R : z[p] = 0
    BY <2>1
  <2>4. SumFunctionOnSet(z, R) = 0 /\ SumFunctionOnSet(v, E) = 0
    BY SumNothing
  <2> HIDE DEF R
  <2>5. SumFunctionOnSet(z, P) = SumFunctionOnSet(z, R)
    BY <2>2, <2>3, SumZeros
  <2> QED
    BY <2>2, <2>4, <2>5 DEF z
<1> HIDE DEF v
<1>3. ASSUME NEW A \in SUBSET S, NEW x \in S \ A, A \in T PROVE A \cup {x} \in T
  <2> DEFINE B == A \cup {x}
  <2>1. B \in SUBSET S /\ Numbers(v, S)
    BY <1>1 DEF Numbers
  <2>2. /\ Numbers(Grouped(q, k, w, P, A), P)
        /\ SumFunctionOnSet(Grouped(q, k, w, P, A), P) = SumFunctionOnSet(v, A)
    BY <1>3
  <2>3. SumFunctionOnSet(Grouped(q, k, w, P, B), P)
          = SumFunctionOnSet(Grouped(q, k, w, P, A), P) + q[x] * w[k[x]]
    BY OneMoreInGroup
  <2>4. SumFunctionOnSet(v, B) = v[x] + SumFunctionOnSet(v, A)
    BY <2>1, SumMore
  <2>5. SumFunctionOnSet(v, A) \in Nat
    <3>1. IsFiniteSet(A) /\ Numbers(v, A)
      BY <2>1, FS_Subset DEF Numbers
    <3> QED
      BY <3>1, SumType
  <2>6. v[x] = q[x] * w[k[x]] /\ v[x] \in Nat
    BY <1>1
  <2>7. Numbers(Grouped(q, k, w, P, B), P)
    <3> HIDE DEF B
    <3>1. \A l \in S : q[l] \in Nat
      BY DEF Numbers
    <3>2. ASSUME NEW p \in P PROVE Grouped(q, k, w, P, B)[p] \in Nat
      <4> DEFINE D == {l \in B : k[l] = p}
      <4>1. D \in SUBSET S
        BY <2>1
      <4>2. Grouped(q, k, w, P, B)[p] = SumFunctionOnSet(q, D) * w[p] /\ w[p] \in Nat
        BY DEF Grouped, Numbers
      <4> HIDE DEF D
      <4>3. IsFiniteSet(D) /\ Numbers(q, D)
        BY <3>1, <4>1, FS_Subset DEF Numbers
      <4>4. SumFunctionOnSet(q, D) \in Nat
        BY <4>3, SumType
      <4> QED
        BY <4>2, <4>4
    <3> QED
      BY <3>2 DEF Numbers
  <2> HIDE DEF B
  <2>8. SumFunctionOnSet(Grouped(q, k, w, P, B), P) = SumFunctionOnSet(v, B)
    BY <2>2, <2>3, <2>4, <2>5, <2>6
  <2> QED
    BY <2>1, <2>7, <2>8 DEF B
<1>4. S \in T
  <2> HIDE DEF T
  <2> QED
    BY <1>2, <1>3, WholeSet
<1> QED
  BY <1>4 DEF v

----------------------------------------------------------------------------
(* What an order is worth, by the prices of a table t of products          *)

CostedIn(t, p) == t[p] # Absent /\ t[p].sizes # <<>>

CostIn(t, p) == t[p].sizes[1]

\* The lines that are packed.
Boxed(t, q) == {p \in Lines(q) : t[p].box # NoBox}

\* Every line can be priced, and so can its box.
AllCosted(t, q) ==
  /\ \A p \in Lines(q) : CostedIn(t, p)
  /\ \A p \in Boxed(t, q) : CostedIn(t, t[p].box)

Worth(t, q) ==
  SumFunction([p \in Lines(q) |-> CostIn(t, p) * q[p]])
    + SumFunction([p \in Boxed(t, q) |-> CostIn(t, t[p].box) * q[p]])

\* The lines in D were read, and say what t says.
ReadFrom(t, b, D) ==
  /\ DOMAIN b.price = D
  /\ \A p \in D : CostedIn(t, p) /\ b.price[p] = CostIn(t, p)
  /\ DOMAIN b.boxOf = {p \in D : t[p].box # NoBox}
  /\ \A p \in DOMAIN b.boxOf : b.boxOf[p] = t[p].box
  /\ \A x \in DOMAIN b.box : CostedIn(t, x) /\ b.box[x] = CostIn(t, x)

\* What iiko would be asked for.
ItemsOf(t, q) ==
  [p \in Product |-> q[p] + SumFunctionOnSet(q, {l \in Boxed(t, q) : t[l].box = p})]

TableOK(t) == t \in [Item -> Row \cup {Absent}]

\* Nothing that an order can tell is different.
SameTags(t, u) ==
  \A p \in Product :
    /\ CostedIn(t, p) <=> CostedIn(u, p)
    /\ CostedIn(t, p) => CostIn(t, p) = CostIn(u, p) /\ t[p].box = u[p].box

\* The types of what was read, and of the order it was read for.
Priced(b) ==
  /\ b.qty \in [Product -> Nat]
  /\ OnProducts(b.price, Nat) /\ OnProducts(b.box, Nat)
  /\ OnProducts(b.boxOf, Product)
  /\ DOMAIN b.price \subseteq Lines(b.qty) /\ DOMAIN b.boxOf \subseteq Lines(b.qty)

BoxesKnown(b) == \A p \in DOMAIN b.boxOf : b.boxOf[p] \in DOMAIN b.box

\* Sets of products are finite.
LEMMA SomeProducts == \A D \in SUBSET Product : IsFiniteSet(D)
BY ProductAssumption, FS_Subset

\* A price of the table is a number.
LEMMA CostType ==
  ASSUME NEW t, TableOK(t), NEW p \in Product, CostedIn(t, p)
  PROVE  CostIn(t, p) \in Nat /\ t[p].box \in Product \cup {NoBox}
<1>1. t[p] \in Row
  BY DEF TableOK, CostedIn, Item
<1>2. t[p].sizes \in Seq(Nat) /\ t[p].sizes # <<>>
  BY <1>1, OffersAssumption DEF Row, CostedIn
<1>3. t[p].sizes[1] \in Nat
  BY <1>2
<1> QED
  BY <1>1, <1>3 DEF Row, CostIn

\* A total is a number.
LEMMA TotalType ==
  ASSUME NEW b, Priced(b), BoxesKnown(b)
  PROVE  BoxesTotal(b) \in Nat /\ ItemsTotal(b) \in Nat
<1> DEFINE f == [p \in DOMAIN b.boxOf |-> b.box[b.boxOf[p]] * b.qty[p]]
           g == [p \in DOMAIN b.price |-> b.price[p] * b.qty[p]]
<1>1. Numbers(f, DOMAIN b.boxOf)
  <2>1. \A p \in DOMAIN b.boxOf : b.box[b.boxOf[p]] \in Nat /\ b.qty[p] \in Nat
    BY DEF Priced, BoxesKnown, OnProducts
  <2> QED
    BY <2>1 DEF Numbers
<1>2. Numbers(g, DOMAIN b.price)
  <2>1. \A p \in DOMAIN b.price : b.price[p] \in Nat /\ b.qty[p] \in Nat
    BY DEF Priced, OnProducts
  <2> QED
    BY <2>1 DEF Numbers
<1>3. IsFiniteSet(DOMAIN b.boxOf) /\ IsFiniteSet(DOMAIN b.price)
  BY SomeProducts DEF Priced, OnProducts
<1>4. DOMAIN f = DOMAIN b.boxOf /\ DOMAIN g = DOMAIN b.price
  OBVIOUS
<1>5. BoxesTotal(b) = SumFunction(f) /\ ItemsTotal(b) = SumFunction(g) + BoxesTotal(b)
  BY DEF BoxesTotal, ItemsTotal
<1> HIDE DEF f, g
<1>6. SumFunction(f) \in Nat /\ SumFunction(g) \in Nat
  BY <1>1, <1>2, <1>3, <1>4, SumOfAll, SumType
<1> QED
  BY <1>5, <1>6

\* Who has read every line knows what the order is worth.
LEMMA WorthRead ==
  ASSUME NEW t, NEW b, ReadFrom(t, b, Lines(b.qty)), BoxesKnown(b)
  PROVE  ItemsTotal(b) = Worth(t, b.qty) /\ AllCosted(t, b.qty)
<1>1. [p \in DOMAIN b.price |-> b.price[p] * b.qty[p]]
      = [p \in Lines(b.qty) |-> CostIn(t, p) * b.qty[p]]
  BY DEF ReadFrom
<1>2. DOMAIN b.boxOf = Boxed(t, b.qty)
  BY DEF ReadFrom, Boxed
<1>3. \A p \in DOMAIN b.boxOf : /\ b.boxOf[p] = t[p].box /\ CostedIn(t, t[p].box)
                                /\ b.box[b.boxOf[p]] = CostIn(t, t[p].box)
  BY DEF ReadFrom, BoxesKnown
<1>4. [p \in DOMAIN b.boxOf |-> b.box[b.boxOf[p]] * b.qty[p]]
      = [p \in Boxed(t, b.qty) |-> CostIn(t, t[p].box) * b.qty[p]]
  BY <1>2, <1>3
<1>5. ItemsTotal(b) = Worth(t, b.qty)
  BY <1>1, <1>4 DEF ItemsTotal, BoxesTotal, Worth
<1>6. AllCosted(t, b.qty)
  BY <1>2, <1>3 DEF AllCosted, ReadFrom
<1> QED
  BY <1>5, <1>6

\* What is read stays true while no price changes.
LEMMA ReadStays ==
  ASSUME NEW t, NEW u, SameTags(t, u), NEW b, Priced(b), NEW D \in SUBSET Product,
         ReadFrom(t, b, D)
  PROVE  ReadFrom(u, b, D)
BY DEF ReadFrom, SameTags, Priced, OnProducts

\* And an order stays worth what it is.
LEMMA WorthStays ==
  ASSUME NEW t, NEW u, TableOK(t), SameTags(t, u), NEW q \in [Product -> Nat],
         AllCosted(t, q)
  PROVE  AllCosted(u, q) /\ Worth(u, q) = Worth(t, q) /\ ItemsOf(u, q) = ItemsOf(t, q)
<1>1. Lines(q) \subseteq Product
  BY DEF Lines
<1>2. \A p \in Lines(q) : /\ CostedIn(t, p) /\ CostedIn(u, p)
                          /\ CostIn(u, p) = CostIn(t, p) /\ u[p].box = t[p].box
  BY <1>1 DEF AllCosted, SameTags
<1>3. Boxed(u, q) = Boxed(t, q) /\ \A p \in Boxed(t, q) : u[p].box = t[p].box
  BY <1>2 DEF Boxed
<1>4. \A p \in Boxed(t, q) : t[p].box \in Product /\ CostedIn(t, t[p].box)
  BY <1>1, <1>2, CostType DEF Boxed, AllCosted
<1>5. \A p \in Boxed(t, q) : /\ CostedIn(u, t[p].box)
                             /\ CostIn(u, t[p].box) = CostIn(t, t[p].box)
  BY <1>4 DEF SameTags
<1>6. AllCosted(u, q)
  BY <1>2, <1>3, <1>5 DEF AllCosted
<1>7. [p \in Lines(q) |-> CostIn(u, p) * q[p]] = [p \in Lines(q) |-> CostIn(t, p) * q[p]]
  BY <1>2
<1>8. [p \in Boxed(u, q) |-> CostIn(u, u[p].box) * q[p]]
      = [p \in Boxed(t, q) |-> CostIn(t, t[p].box) * q[p]]
  BY <1>3, <1>5
<1>9. Worth(u, q) = Worth(t, q)
  BY <1>7, <1>8 DEF Worth
<1>10. \A p \in Product : {l \in Boxed(u, q) : u[l].box = p} = {l \in Boxed(t, q) : t[l].box = p}
  BY <1>3
<1>11. ItemsOf(u, q) = ItemsOf(t, q)
  BY <1>10 DEF ItemsOf
<1> QED
  BY <1>6, <1>9, <1>11

----------------------------------------------------------------------------
(* The invariant                                                           *)

InLoop(r) == pc[r] \in {"price", "price_box"}

\* Who submits an order is in the client's hands, or back.
Sending(r) == pc[r] = "sent" \/ (pc[r] \in TokenPC /\ client[r].back = "sent")

Spots == Places \cup {"pickup"}

\* Where the shop delivers, and how it can be paid.
Deliverable(b) ==
  /\ b.place \in Spots /\ (b.place # "pickup" => ZoneAt(b.place) # 0)
  /\ b.method \in Methods

BillFields == {"ord", "stage", "strict", "qty", "todo", "line", "price", "boxOf",
               "box", "place", "method", "amount"}

RowFields == {"qty", "price", "boxOf", "box", "place", "method", "fee", "link", "sent"}

BillType(b) ==
  /\ DOMAIN b = BillFields
  /\ b.ord \in Order \cup {NoOrder}
  /\ b.line \in Product \cup {NoBox}
  /\ b.todo \subseteq Product
  /\ OnProducts(b.price, Nat) /\ OnProducts(b.box, Nat)
  /\ OnProducts(b.boxOf, Product)

\* A bill that is being made up: of an order that nobody else knows, until it
\* is placed; and nothing was read that is not so any more, or the order counts
\* as drifted.
BillOK(r) ==
  /\ bill[r].ord \in Order /\ Priced(bill[r]) /\ bill[r].amount \in Nat
  /\ bill[r].todo \subseteq Lines(bill[r].qty)
  /\ bill[r].stage = "place" =>
       /\ bill[r].strict /\ ~Placed(bill[r].ord) /\ Deliverable(bill[r])
       /\ \A s \in Req \ {r} : bill[s].ord # bill[r].ord
  /\ bill[r].stage # "place" =>
       Placed(bill[r].ord) /\ bill[r].qty = orders[bill[r].ord].qty
  /\ \A p \in DOMAIN bill[r].boxOf :
       \/ bill[r].boxOf[p] \in DOMAIN bill[r].box
       \/ pc[r] = "price_box" /\ p = bill[r].line
  /\ pc[r] = "price_box" => bill[r].line \in DOMAIN bill[r].boxOf
  /\ bill[r].ord \notin drifted =>
       ReadFrom(rows, bill[r], Lines(bill[r].qty) \ bill[r].todo)

BillsOK ==
  /\ DOMAIN bill = Req
  /\ \A r \in Req :
       /\ BillType(bill[r])
       /\ InLoop(r) \/ Sending(r) => BillOK(r)
       /\ Sending(r) => bill[r].stage = "send" /\ bill[r].todo = {}

\* What the link of an order asks for.
Asked(t, row) ==
  IF row.method = "PAYME" THEN 100 * (Worth(t, row.qty) + row.fee)
                          ELSE Worth(t, row.qty) + row.fee

RowOK(row) ==
  /\ DOMAIN row = RowFields
  /\ Priced(row) /\ BoxesKnown(row) /\ Deliverable(row)
  /\ row.fee = Fee(row.place) /\ row.link \in Nat /\ row.sent \in BOOLEAN
  /\ ItemsTotal(row) >= Minimum(row.place)

RowIsNow(t, row) ==
  /\ AllCosted(t, row.qty) /\ ReadFrom(t, row, Lines(row.qty))
  /\ row.link # 0 => row.link = Asked(t, row)

OrdersOK ==
  /\ DOMAIN orders \subseteq Order
  /\ \A o \in DOMAIN orders : /\ RowOK(orders[o])
                              /\ o \notin drifted => RowIsNow(rows, orders[o])

ChargeNow(t, row) == [som |-> Worth(t, row.qty) + row.fee, tiyin |-> 0]

ChargedOK ==
  /\ charged \in [Order -> SUBSET Paid]
  /\ \A o \in Order : \A k \in charged[o] :
       /\ Placed(o)
       /\ o \notin drifted => k = ChargeNow(rows, orders[o])

FeeOf(row) == IF row.place = "pickup" THEN 0 ELSE row.fee

TicketNow(t, row) ==
  [sum |-> Worth(t, row.qty), fee |-> FeeOf(row), items |-> ItemsOf(t, row.qty)]

Tickets == [sum : Nat, fee : Nat, items : [Product -> Nat]]

KitchenOK ==
  /\ DOMAIN kitchen = Order
  /\ \A o \in Order : \A k \in kitchen[o] :
       /\ k \in Tickets /\ Placed(o)
       /\ o \notin drifted => k = TicketNow(rows, orders[o])

PricingInv ==
  BillsOK /\ OrdersOK /\ ChargedOK /\ KitchenOK /\ drifted \subseteq Order

\* Nobody's bill.
LEMMA NoBillType ==
  /\ BillType(NoBill)
  /\ NoBill.ord = NoOrder /\ NoBill.amount = 0 /\ NoBill.line = NoBox
  /\ DOMAIN NoBill.price = {} /\ DOMAIN NoBill.boxOf = {} /\ DOMAIN NoBill.box = {}
<1>1. DOMAIN <<>> = {}
  OBVIOUS
<1> QED
  BY <1>1 DEF BillType, NoBill, BillFields, OnProducts

\* The bills of the others, in a turn of r that leaves them alone.
LEMMA OthersBills ==
  ASSUME PricingInv, NEW r \in Req, UNCHANGED rows,
         \A s \in Req \ {r} : pc'[s] = pc[s] /\ client'[s] = client[s] /\ bill'[s] = bill[s],
         drifted \subseteq drifted', DOMAIN orders \subseteq DOMAIN orders',
         \A o \in DOMAIN orders : orders'[o].qty = orders[o].qty,
         \A o \in DOMAIN orders' \ DOMAIN orders :
           BillOK(r) /\ bill[r].stage = "place" /\ o = bill[r].ord,
         \/ bill'[r].ord \in {bill[r].ord, NoOrder} \cup DOMAIN orders
         \/ \A s \in Req : bill[s].ord # bill'[r].ord
  PROVE  \A s \in Req \ {r} :
           /\ BillType(bill'[s])
           /\ (InLoop(s) \/ Sending(s))' => BillOK(s)'
           /\ Sending(s)' => bill'[s].stage = "send" /\ bill'[s].todo = {}
<1> SUFFICES ASSUME NEW s \in Req \ {r}
             PROVE  /\ BillType(bill'[s])
                    /\ (InLoop(s) \/ Sending(s))' => BillOK(s)'
                    /\ Sending(s)' => bill'[s].stage = "send" /\ bill'[s].todo = {}
  OBVIOUS
<1>1. bill'[s] = bill[s] /\ pc'[s] = pc[s] /\ client'[s] = client[s]
  OBVIOUS
<1>2. (InLoop(s)' <=> InLoop(s)) /\ (Sending(s)' <=> Sending(s))
  BY <1>1 DEF InLoop, Sending
<1>3. ASSUME BillOK(s) PROVE BillOK(s)'
  <2>1. ASSUME bill[s].stage = "place"
        PROVE  ~Placed(bill[s].ord)' /\ \A v \in Req \ {s} : bill'[v].ord # bill[s].ord
    <3>1. bill[s].ord \in Order /\ bill[s].ord \notin DOMAIN orders
          /\ \A v \in Req \ {s} : bill[v].ord # bill[s].ord
      BY <1>3, <2>1 DEF BillOK, Placed
    <3>2. bill[s].ord \notin DOMAIN orders'
      BY <3>1
    <3>3. bill'[r].ord # bill[s].ord
      BY <3>1, NoOrderAssumption
    <3> QED
      BY <3>1, <3>2, <3>3, <1>1 DEF Placed
  <2>2. ASSUME bill[s].stage # "place"
        PROVE  Placed(bill[s].ord)' /\ bill[s].qty = orders'[bill[s].ord].qty
    BY <1>1, <1>3, <2>2 DEF BillOK, Placed
  <2> QED
    BY <1>1, <1>3, <2>1, <2>2 DEF BillOK, Placed
<1> QED
  BY <1>1, <1>2, <1>3 DEF PricingInv, BillsOK

\* And so all of them, when r's is one.
LEMMA TurnBills ==
  ASSUME PricingInv, NEW r \in Req, DOMAIN bill' = Req,
         \A s \in Req \ {r} :
           /\ BillType(bill'[s])
           /\ (InLoop(s) \/ Sending(s))' => BillOK(s)'
           /\ Sending(s)' => bill'[s].stage = "send" /\ bill'[s].todo = {},
         BillType(bill'[r]),
         (InLoop(r) \/ Sending(r))' => BillOK(r)',
         Sending(r)' => bill'[r].stage = "send" /\ bill'[r].todo = {}
  PROVE  BillsOK'
<1> SUFFICES ASSUME NEW s \in Req
             PROVE  /\ BillType(bill'[s])
                    /\ (InLoop(s) \/ Sending(s))' => BillOK(s)'
                    /\ Sending(s)' => bill'[s].stage = "send" /\ bill'[s].todo = {}
  BY DEF BillsOK
<1> QED
  OBVIOUS

\* The orders stay what they are when neither they nor the rows change.
LEMMA OrdersApart ==
  ASSUME PricingInv, UNCHANGED <<rows, orders, charged, kitchen>>,
         drifted \subseteq drifted', drifted' \subseteq Order
  PROVE  OrdersOK' /\ ChargedOK' /\ KitchenOK'
BY DEF PricingInv, OrdersOK, ChargedOK, KitchenOK, Placed

----------------------------------------------------------------------------
(* Steps of the handlers                                                   *)

\* A request that ends leaves the bills of the others as they are.
LEMMA DropKeeps ==
  ASSUME PricingInv, TokenInv, NEW r \in Req, Drop(r), UNCHANGED rows,
         \A s \in Req \ {r} : client'[s] = client[s],
         drifted \subseteq drifted', DOMAIN orders' = DOMAIN orders,
         \A o \in DOMAIN orders : orders'[o].qty = orders[o].qty
  PROVE  BillsOK'
<1>1. DOMAIN bill = Req /\ DOMAIN pc = Req
  BY DEF PricingInv, BillsOK, TokenInv
<1>2. /\ DOMAIN bill' = Req /\ bill'[r] = NoBill /\ pc'[r] = "idle"
      /\ \A s \in Req \ {r} : pc'[s] = pc[s] /\ bill'[s] = bill[s]
  BY <1>1 DEF Drop, Goto, Bill
<1>3. bill'[r].ord \in {bill[r].ord, NoOrder} \cup DOMAIN orders
  BY <1>2, NoBillType
<1>4. ~(InLoop(r) \/ Sending(r))' /\ BillType(bill'[r])
  BY <1>2, NoBillType DEF InLoop, Sending, TokenPC
<1> QED
  BY <1>2, <1>3, <1>4, OthersBills, TurnBills

\* A request that goes on does, too.
LEMMA GoesOnKeeps ==
  ASSUME PricingInv, TokenInv, NEW r \in Req, UNCHANGED <<rows, client>>,
         NEW l \in {"price", "price_box"}, Goto(r, l),
         NEW b, Bill(r, b), BillType(b), BillOK(r)',
         drifted \subseteq drifted', DOMAIN orders \subseteq DOMAIN orders',
         \A o \in DOMAIN orders : orders'[o].qty = orders[o].qty,
         \A o \in DOMAIN orders' \ DOMAIN orders :
           BillOK(r) /\ bill[r].stage = "place" /\ o = bill[r].ord,
         \/ b.ord \in {bill[r].ord, NoOrder} \cup DOMAIN orders
         \/ \A s \in Req : bill[s].ord # b.ord
  PROVE  BillsOK'
<1>1. DOMAIN bill = Req /\ DOMAIN pc = Req
  BY DEF PricingInv, BillsOK, TokenInv
<1>2. /\ DOMAIN bill' = Req /\ bill'[r] = b /\ pc'[r] = l
      /\ \A s \in Req \ {r} : pc'[s] = pc[s] /\ bill'[s] = bill[s] /\ client'[s] = client[s]
  BY <1>1 DEF Goto, Bill
<1>3. ~Sending(r)'
  BY <1>2 DEF Sending, TokenPC
<1>4. \A s \in Req \ {r} :
        /\ BillType(bill'[s])
        /\ (InLoop(s) \/ Sending(s))' => BillOK(s)'
        /\ Sending(s)' => bill'[s].stage = "send" /\ bill'[s].todo = {}
  BY <1>2, OthersBills
<1> QED
  BY <1>2, <1>3, <1>4, TurnBills

\* A line more was read.
LEMMA ReadMore ==
  ASSUME NEW t, NEW b, NEW D, ReadFrom(t, b, D), NEW p, CostedIn(t, p), NEW c,
         c.price = Put(b.price, p, CostIn(t, p)), c.box = b.box,
         c.boxOf = IF t[p].box = NoBox THEN b.boxOf ELSE Put(b.boxOf, p, t[p].box)
  PROVE  ReadFrom(t, c, D \cup {p})
<1>1. DOMAIN c.price = D \cup {p}
  BY DEF ReadFrom, Put
<1>2. \A x \in D \cup {p} : CostedIn(t, x) /\ c.price[x] = CostIn(t, x)
  BY DEF ReadFrom, Put
<1>3. DOMAIN c.boxOf = {x \in D \cup {p} : t[x].box # NoBox}
  <2>1. CASE t[p].box = NoBox
    BY <2>1 DEF ReadFrom
  <2>2. CASE t[p].box # NoBox
    BY <2>2 DEF ReadFrom, Put
  <2> QED
    BY <2>1, <2>2
<1>4. \A x \in DOMAIN c.boxOf : c.boxOf[x] = t[x].box
  <2>1. CASE t[p].box = NoBox
    BY <2>1 DEF ReadFrom
  <2>2. CASE t[p].box # NoBox
    BY <2>2 DEF ReadFrom, Put
  <2> QED
    BY <2>1, <2>2
<1> QED
  BY <1>1, <1>2, <1>3, <1>4 DEF ReadFrom

\* An order that did not drift has no line that cannot be priced.
LEMMA NothingMissing ==
  ASSUME PricingInv, NEW r \in Req, BillOK(r), bill[r].ord \notin drifted,
         bill[r].stage # "place"
  PROVE  AllCosted(rows, bill[r].qty)
BY DEF BillOK, PricingInv, OrdersOK, RowIsNow, Placed

\* The module's words for the rows.
LEMMA CostedHere ==
  ASSUME NEW p
  PROVE  (Costed(p) <=> CostedIn(rows, p)) /\ Cost(p) = CostIn(rows, p)
BY DEF Costed, There, Cost, CostedIn, CostIn

\* The query of a product.
LEMMA ReadPriceKeeps ==
  ASSUME PricingInv, TokenInv, TableOK(rows), NEW r \in Req, ReadPrice(r),
         UNCHANGED rows, UNCHANGED client
  PROVE  PricingInv'
<1>1. /\ pc[r] = "price" /\ BillOK(r) /\ BillType(bill[r]) /\ drifted \subseteq Order
  BY DEF ReadPrice, At, PricingInv, BillsOK, InLoop
<1>2. UNCHANGED <<orders, charged, kitchen>>
  BY DEF ReadPrice
<1>3. PICK p \in bill[r].todo :
        LET left == [bill[r] EXCEPT !.todo = @ \ {p}]
            read == [left EXCEPT !.price = Put(@, p, Cost(p))]
            box  == rows[p].box
        IN \/ /\ Costed(p)
              /\ IF box \in {NoBox} \cup DOMAIN bill[r].box
                   THEN /\ Goto(r, "price")
                        /\ Bill(r, IF box = NoBox THEN read
                                   ELSE [read EXCEPT !.boxOf = Put(@, p, box)])
                   ELSE /\ Goto(r, "price_box")
                        /\ Bill(r, [read EXCEPT !.line = p,
                                                !.boxOf = Put(@, p, box)])
              /\ UNCHANGED drifted
           \/ Missing(r, p, left)
  BY DEF ReadPrice
<1> DEFINE left == [bill[r] EXCEPT !.todo = @ \ {p}]
           box == rows[p].box
<1>4. p \in Product /\ p \in Lines(bill[r].qty) /\ Lines(bill[r].qty) \subseteq Product
  BY <1>1 DEF BillOK, Lines, BillType
<1>5. ASSUME Costed(p), NEW l \in {"price", "price_box"}, Goto(r, l),
             NEW b, Bill(r, b), UNCHANGED drifted, DOMAIN b = BillFields,
             b.ord = bill[r].ord, b.stage = bill[r].stage, b.strict = bill[r].strict,
             b.qty = bill[r].qty, b.todo = bill[r].todo \ {p},
             b.price = Put(bill[r].price, p, Cost(p)), b.box = bill[r].box,
             b.boxOf = IF box = NoBox THEN bill[r].boxOf ELSE Put(bill[r].boxOf, p, box),
             b.place = bill[r].place, b.method = bill[r].method, b.amount = bill[r].amount,
             b.line \in Product \cup {NoBox},
             IF box \in {NoBox} \cup DOMAIN bill[r].box THEN l = "price"
               ELSE l = "price_box" /\ b.line = p
      PROVE  PricingInv'
  <2>1. CostIn(rows, p) \in Nat /\ box \in Product \cup {NoBox} /\ CostedIn(rows, p)
    BY <1>4, <1>5, CostType, CostedHere
  <2>2. Cost(p) = CostIn(rows, p)
    BY CostedHere
  <2>3. OnProducts(b.price, Nat) /\ DOMAIN b.price \subseteq Lines(b.qty)
    BY <1>1, <1>4, <1>5, <2>1, <2>2 DEF BillOK, Priced, OnProducts, Put
  <2>4. OnProducts(b.boxOf, Product) /\ DOMAIN b.boxOf \subseteq Lines(b.qty)
    BY <1>1, <1>4, <1>5, <2>1 DEF BillOK, Priced, OnProducts, Put
  <2>5. OnProducts(b.box, Nat) /\ b.qty \in [Product -> Nat] /\ Priced(b)
    BY <1>1, <1>5, <2>3, <2>4 DEF BillOK, Priced
  <2>6. BillType(b)
    BY <1>1, <1>5, <2>3, <2>4, <2>5 DEF BillType
  <2>7. bill'[r] = b /\ pc'[r] = l /\ \A s \in Req \ {r} : bill'[s] = bill[s]
    BY <1>5 DEF Bill, Goto, PricingInv, BillsOK, TokenInv
  <2>8. b.ord \notin drifted => ReadFrom(rows, b, Lines(b.qty) \ b.todo)
    <3> SUFFICES ASSUME b.ord \notin drifted
                 PROVE  ReadFrom(rows, b, Lines(b.qty) \ b.todo)
      OBVIOUS
    <3>1. ReadFrom(rows, bill[r], Lines(bill[r].qty) \ bill[r].todo)
      BY <1>1, <1>5 DEF BillOK
    <3>2. ReadFrom(rows, b, (Lines(bill[r].qty) \ bill[r].todo) \cup {p})
      BY <1>5, <2>1, <2>2, <3>1, ReadMore
    <3>3. (Lines(bill[r].qty) \ bill[r].todo) \cup {p} = Lines(b.qty) \ b.todo
      BY <1>4, <1>5
    <3> QED
      BY <3>2, <3>3
  <2>9. \A x \in DOMAIN b.boxOf :
          b.boxOf[x] \in DOMAIN b.box \/ (l = "price_box" /\ x = b.line)
    <3>1. \A x \in DOMAIN bill[r].boxOf : bill[r].boxOf[x] \in DOMAIN bill[r].box
      BY <1>1 DEF BillOK
    <3> QED
      BY <1>5, <3>1 DEF Put
  <2>10. l = "price_box" => b.line \in DOMAIN b.boxOf
    BY <1>5 DEF Put
  <2>11. BillOK(r)'
    <3>1. b.stage = "place" => /\ b.strict /\ ~Placed(b.ord)' /\ Deliverable(b)
                               /\ \A s \in Req \ {r} : bill'[s].ord # b.ord
      BY <1>1, <1>2, <1>5, <2>7 DEF BillOK, Deliverable, Placed
    <3>2. b.stage # "place" => Placed(b.ord)' /\ b.qty = orders'[b.ord].qty
      BY <1>1, <1>2, <1>5 DEF BillOK, Placed
    <3>3. /\ b.ord \in Order /\ b.amount \in Nat
          /\ b.todo \subseteq Lines(b.qty)
      BY <1>1, <1>5 DEF BillOK
    <3> QED
      BY <1>2, <1>5, <2>5, <2>7, <2>8, <2>9, <2>10, <3>1, <3>2, <3>3 DEF BillOK
  <2>12. BillsOK'
    BY <1>2, <1>5, <2>6, <2>11, GoesOnKeeps
  <2> QED
    BY <1>1, <1>2, <1>5, <2>12, OrdersApart DEF PricingInv
<1>6. ASSUME Missing(r, p, left) PROVE PricingInv'
  <2>1. drifted \subseteq drifted' /\ drifted' \subseteq Order
    BY <1>1, <1>6 DEF Missing, BillOK
  <2>2. CASE Drop(r)
    BY <1>2, <2>1, <2>2, DropKeeps, OrdersApart DEF PricingInv
  <2>3. CASE ~bill[r].strict /\ Goto(r, "price") /\ Bill(r, left)
    <3>1. /\ left.ord = bill[r].ord /\ left.stage = bill[r].stage
          /\ left.strict = bill[r].strict /\ left.qty = bill[r].qty
          /\ left.todo = bill[r].todo \ {p} /\ left.price = bill[r].price
          /\ left.box = bill[r].box /\ left.boxOf = bill[r].boxOf
          /\ left.place = bill[r].place /\ left.method = bill[r].method
          /\ left.amount = bill[r].amount /\ left.line = bill[r].line
          /\ DOMAIN left = BillFields
      BY <1>1 DEF BillType, BillFields
    <3>2. bill'[r] = left /\ pc'[r] = "price"
      BY <2>3 DEF Bill, Goto, PricingInv, BillsOK, TokenInv
    <3>3. bill[r].stage # "place"
      BY <1>1, <2>3 DEF BillOK
    <3>4. bill[r].ord \in drifted'
      <4>1. CASE Costed(p)
        BY <1>6, <4>1 DEF Missing
      <4>2. CASE ~Costed(p) /\ bill[r].ord \notin drifted
        BY <1>1, <1>4, <3>3, <4>2, NothingMissing, CostedHere DEF AllCosted
      <4> QED
        BY <2>1, <4>1, <4>2
    <3> HIDE DEF left
    <3>5. BillOK(r)'
      BY <1>1, <1>2, <3>1, <3>2, <3>3, <3>4 DEF BillOK, Placed, Priced
    <3>6. BillType(left)
      BY <1>1, <3>1 DEF BillType
    <3>7. BillsOK'
      BY <1>2, <2>1, <2>3, <3>1, <3>5, <3>6, GoesOnKeeps
    <3> QED
      BY <1>2, <2>1, <3>7, OrdersApart DEF PricingInv
  <2> QED
    BY <1>6, <2>2, <2>3 DEF Missing
<1>7. CASE Missing(r, p, left)
  BY <1>6, <1>7
<1>8. CASE ~Missing(r, p, left)
  <2> DEFINE read == [left EXCEPT !.price = Put(@, p, Cost(p))]
             c == [read EXCEPT !.boxOf = Put(@, p, box)]
             d == [read EXCEPT !.line = p, !.boxOf = Put(@, p, box)]
  <2>1. /\ Costed(p) /\ UNCHANGED drifted
        /\ IF box \in {NoBox} \cup DOMAIN bill[r].box
             THEN Goto(r, "price") /\ Bill(r, IF box = NoBox THEN read ELSE c)
             ELSE Goto(r, "price_box") /\ Bill(r, d)
    BY <1>3, <1>8
  <2>2. bill[r].line \in Product \cup {NoBox} /\ DOMAIN bill[r] = BillFields
    BY <1>1 DEF BillType
  <2>3. CASE box = NoBox
    <3>1. /\ read.ord = bill[r].ord /\ read.stage = bill[r].stage
          /\ read.strict = bill[r].strict /\ read.qty = bill[r].qty
          /\ read.todo = bill[r].todo \ {p}
          /\ read.price = Put(bill[r].price, p, Cost(p))
          /\ read.box = bill[r].box /\ read.boxOf = bill[r].boxOf
          /\ read.place = bill[r].place /\ read.method = bill[r].method
          /\ read.amount = bill[r].amount /\ read.line = bill[r].line
          /\ DOMAIN read = BillFields
      BY <2>2 DEF BillFields
    <3>2. Goto(r, "price") /\ Bill(r, read)
      BY <2>1, <2>3
    <3> HIDE DEF read
    <3> QED
      BY <1>5, <2>1, <2>2, <2>3, <3>1, <3>2
  <2>4. CASE box # NoBox /\ box \in DOMAIN bill[r].box
    <3>1. /\ c.ord = bill[r].ord /\ c.stage = bill[r].stage
          /\ c.strict = bill[r].strict /\ c.qty = bill[r].qty
          /\ c.todo = bill[r].todo \ {p}
          /\ c.price = Put(bill[r].price, p, Cost(p))
          /\ c.box = bill[r].box /\ c.boxOf = Put(bill[r].boxOf, p, box)
          /\ c.place = bill[r].place /\ c.method = bill[r].method
          /\ c.amount = bill[r].amount /\ c.line = bill[r].line
          /\ DOMAIN c = BillFields
      BY <2>2 DEF BillFields
    <3>2. Goto(r, "price") /\ Bill(r, c)
      BY <2>1, <2>4
    <3> HIDE DEF c
    <3> QED
      BY <1>5, <2>1, <2>2, <2>4, <3>1, <3>2
  <2>5. CASE box \notin {NoBox} \cup DOMAIN bill[r].box
    <3>1. /\ d.ord = bill[r].ord /\ d.stage = bill[r].stage
          /\ d.strict = bill[r].strict /\ d.qty = bill[r].qty
          /\ d.todo = bill[r].todo \ {p}
          /\ d.price = Put(bill[r].price, p, Cost(p))
          /\ d.box = bill[r].box /\ d.boxOf = Put(bill[r].boxOf, p, box)
          /\ d.place = bill[r].place /\ d.method = bill[r].method
          /\ d.amount = bill[r].amount /\ d.line = p
          /\ DOMAIN d = BillFields
      BY <2>2 DEF BillFields
    <3>2. Goto(r, "price_box") /\ Bill(r, d)
      BY <2>1, <2>5
    <3> HIDE DEF d
    <3> QED
      BY <1>4, <1>5, <2>1, <2>2, <2>5, <3>1, <3>2
  <2> QED
    BY <2>3, <2>4, <2>5
<1> QED
  BY <1>7, <1>8

\* The query of a box.
LEMMA ReadBoxPriceKeeps ==
  ASSUME PricingInv, TokenInv, TableOK(rows), NEW r \in Req, ReadBoxPrice(r),
         UNCHANGED rows, UNCHANGED client
  PROVE  PricingInv'
<1> DEFINE p == bill[r].line
           box == bill[r].boxOf[p]
           out == [bill[r] EXCEPT !.line = NoBox]
           found == [out EXCEPT !.box = Put(@, box, Cost(box))]
           gone == [out EXCEPT !.boxOf = Restrict(@, DOMAIN @ \ {p})]
<1>1. /\ pc[r] = "price_box" /\ BillOK(r) /\ BillType(bill[r]) /\ drifted \subseteq Order
  BY DEF ReadBoxPrice, At, PricingInv, BillsOK, InLoop
<1>2. UNCHANGED <<orders, charged, kitchen>>
  BY DEF ReadBoxPrice
<1>3. \/ Costed(box) /\ Goto(r, "price") /\ Bill(r, found) /\ UNCHANGED drifted
      \/ Missing(r, box, gone)
  BY DEF ReadBoxPrice
<1>4. /\ p \in DOMAIN bill[r].boxOf /\ p \in Lines(bill[r].qty) /\ box \in Product
  BY <1>1 DEF BillOK, Priced, OnProducts
<1>5. ASSUME Costed(box), Goto(r, "price"), Bill(r, found), UNCHANGED drifted
      PROVE  PricingInv'
  <2>1. /\ found.ord = bill[r].ord /\ found.stage = bill[r].stage
        /\ found.strict = bill[r].strict /\ found.qty = bill[r].qty
        /\ found.todo = bill[r].todo /\ found.price = bill[r].price
        /\ found.box = Put(bill[r].box, box, Cost(box))
        /\ found.boxOf = bill[r].boxOf
        /\ found.place = bill[r].place /\ found.method = bill[r].method
        /\ found.amount = bill[r].amount /\ found.line = NoBox
        /\ DOMAIN found = BillFields
    BY <1>1 DEF BillType, BillFields
  <2>2. bill'[r] = found /\ pc'[r] = "price" /\ \A s \in Req \ {r} : bill'[s] = bill[s]
    BY <1>5 DEF Bill, Goto, PricingInv, BillsOK, TokenInv
  <2> DEFINE b == found
  <2> HIDE DEF found, box, p, out
  <2>3. CostIn(rows, box) \in Nat /\ CostedIn(rows, box) /\ Cost(box) = CostIn(rows, box)
    BY <1>4, <1>5, CostType, CostedHere
  <2>4. OnProducts(found.box, Nat)
    BY <1>1, <1>4, <2>1, <2>3 DEF BillOK, Priced, OnProducts, Put
  <2>5. Priced(found) /\ BillType(found)
    BY <1>1, <2>1, <2>4 DEF BillOK, Priced, BillType
  <2>6. \A x \in DOMAIN found.boxOf : found.boxOf[x] \in DOMAIN found.box
    <3>1. \A x \in DOMAIN bill[r].boxOf :
            bill[r].boxOf[x] \in DOMAIN bill[r].box \/ bill[r].boxOf[x] = box
      BY <1>1 DEF BillOK, box, p
    <3> QED
      BY <2>1, <3>1 DEF Put
  <2>7. found.ord \notin drifted => ReadFrom(rows, found, Lines(found.qty) \ found.todo)
    BY <1>1, <2>1, <2>3 DEF BillOK, ReadFrom, Put
  <2>8. BillOK(r)'
    <3>1. found.stage = "place" =>
            /\ found.strict /\ found.ord \notin DOMAIN orders' /\ Deliverable(found)
            /\ \A s \in Req \ {r} : bill'[s].ord # found.ord
      BY <1>1, <1>2, <2>1, <2>2 DEF BillOK, Deliverable, Placed
    <3>2. found.stage # "place" =>
            found.ord \in DOMAIN orders' /\ found.qty = orders'[found.ord].qty
      BY <1>1, <1>2, <2>1 DEF BillOK, Placed
    <3>3. /\ found.ord \in Order /\ found.amount \in Nat
          /\ found.todo \subseteq Lines(found.qty)
      BY <1>1, <2>1 DEF BillOK
    <3> QED
      BY <1>2, <1>5, <2>2, <2>5, <2>6, <2>7, <3>1, <3>2, <3>3 DEF BillOK, Placed
  <2>9. BillsOK'
    BY <1>2, <1>5, <2>1, <2>5, <2>8, GoesOnKeeps
  <2> QED
    BY <1>1, <1>2, <1>5, <2>9, OrdersApart DEF PricingInv
<1>6. ASSUME Missing(r, box, gone) PROVE PricingInv'
  <2>1. drifted \subseteq drifted' /\ drifted' \subseteq Order
    BY <1>1, <1>6 DEF Missing, BillOK
  <2>2. CASE Drop(r)
    BY <1>2, <2>1, <2>2, DropKeeps, OrdersApart DEF PricingInv
  <2>3. CASE ~bill[r].strict /\ Goto(r, "price") /\ Bill(r, gone)
    <3>1. /\ gone.ord = bill[r].ord /\ gone.stage = bill[r].stage
          /\ gone.strict = bill[r].strict /\ gone.qty = bill[r].qty
          /\ gone.todo = bill[r].todo /\ gone.price = bill[r].price
          /\ gone.box = bill[r].box
          /\ gone.boxOf = Restrict(bill[r].boxOf, DOMAIN bill[r].boxOf \ {p})
          /\ gone.place = bill[r].place /\ gone.method = bill[r].method
          /\ gone.amount = bill[r].amount /\ gone.line = NoBox
          /\ DOMAIN gone = BillFields
      BY <1>1 DEF BillType, BillFields
    <3>2. bill'[r] = gone /\ pc'[r] = "price"
      BY <2>3 DEF Bill, Goto, PricingInv, BillsOK, TokenInv
    <3>3. bill[r].stage # "place"
      BY <1>1, <2>3 DEF BillOK
    <3>4. bill[r].ord \in drifted'
      <4>1. CASE Costed(box)
        BY <1>6, <4>1 DEF Missing
      <4>2. CASE ~Costed(box) /\ bill[r].ord \notin drifted
        <5>1. AllCosted(rows, bill[r].qty)
          BY <1>1, <3>3, <4>2, NothingMissing
        <5>2. ReadFrom(rows, bill[r], Lines(bill[r].qty) \ bill[r].todo)
          BY <1>1, <4>2 DEF BillOK
        <5>3. p \in Boxed(rows, bill[r].qty) /\ box = rows[p].box
          BY <1>4, <5>2 DEF ReadFrom, Boxed
        <5> QED
          BY <4>2, <5>1, <5>3, CostedHere DEF AllCosted
      <4> QED
        BY <2>1, <4>1, <4>2
    <3> HIDE DEF gone, out, box
    <3>5. /\ DOMAIN gone.boxOf = DOMAIN bill[r].boxOf \ {p}
          /\ \A x \in DOMAIN gone.boxOf : gone.boxOf[x] = bill[r].boxOf[x]
      BY <3>1 DEF Restrict
    <3>6. OnProducts(gone.boxOf, Product) /\ DOMAIN gone.boxOf \subseteq Lines(gone.qty)
      BY <1>1, <3>1, <3>5 DEF BillOK, Priced, OnProducts
    <3>7. Priced(gone) /\ BillType(gone)
      BY <1>1, <3>1, <3>6 DEF BillOK, Priced, BillType
    <3>8. \A x \in DOMAIN gone.boxOf : gone.boxOf[x] \in DOMAIN gone.box
      BY <1>1, <3>1, <3>5 DEF BillOK
    <3>9. BillOK(r)'
      BY <1>1, <1>2, <3>1, <3>2, <3>3, <3>4, <3>7, <3>8 DEF BillOK, Placed
    <3>10. BillsOK'
      BY <1>2, <2>1, <2>3, <3>1, <3>7, <3>9, GoesOnKeeps
    <3> QED
      BY <1>2, <2>1, <3>10, OrdersApart DEF PricingInv
  <2> QED
    BY <1>6, <2>2, <2>3 DEF Missing
<1> QED
  BY <1>3, <1>5, <1>6

\* A new computation, for an order that is placed.
LEMMA RepriceKeeps ==
  ASSUME PricingInv, TokenInv, NEW r \in Req, NEW o \in DOMAIN orders', NEW row,
         NEW l \in {"link", "charge", "send"}, NEW a \in Nat, Reprice(r, o, row, l, a),
         o \in Order, row.qty \in [Product -> Nat], row.qty = orders'[o].qty,
         UNCHANGED <<rows, client, drifted>>, DOMAIN orders \subseteq DOMAIN orders',
         \A x \in DOMAIN orders : orders'[x].qty = orders[x].qty,
         \A x \in DOMAIN orders' \ DOMAIN orders :
           BillOK(r) /\ bill[r].stage = "place" /\ x = bill[r].ord
  PROVE  BillsOK'
<1> DEFINE b == [NoBill EXCEPT !.ord = o, !.stage = l, !.amount = a,
                               !.qty = row.qty, !.todo = Lines(row.qty)]
<1>1. /\ b.ord = o /\ b.stage = l /\ b.amount = a /\ b.qty = row.qty
      /\ b.todo = Lines(row.qty) /\ b.line = NoBox
      /\ DOMAIN b.price = {} /\ DOMAIN b.boxOf = {} /\ DOMAIN b.box = {}
      /\ DOMAIN b = BillFields
  BY NoBillType DEF NoBill, BillFields
<1>2. Goto(r, "price") /\ Bill(r, b)
  BY DEF Reprice
<1>3. bill'[r] = b /\ pc'[r] = "price"
  BY <1>2 DEF Bill, Goto, PricingInv, BillsOK, TokenInv
<1> HIDE DEF b
<1>4. Lines(b.qty) \subseteq Product /\ Priced(b) /\ BillType(b)
  BY <1>1 DEF Lines, Priced, BillType, OnProducts
<1>5. ReadFrom(rows', b, Lines(b.qty) \ b.todo)
  BY <1>1 DEF ReadFrom
<1>6. BillOK(r)'
  BY <1>1, <1>3, <1>4, <1>5 DEF BillOK, Placed
<1>7. b.ord \in {bill[r].ord, NoOrder} \cup DOMAIN orders
  BY <1>1
<1> QED
  BY <1>2, <1>4, <1>6, <1>7, GoesOnKeeps

\* The checks of Create, up to the prices.
LEMMA CreateOrderKeeps ==
  ASSUME PricingInv, TokenInv, NEW r \in Req, CreateOrder(r), UNCHANGED <<rows, client>>
  PROVE  PricingInv'
<1>1. UNCHANGED <<orders, charged, kitchen, drifted>>
  BY DEF CreateOrder
<1>2. CASE Drop(r)
  BY <1>1, <1>2, DropKeeps, OrdersApart DEF PricingInv
<1>3. CASE ~Drop(r)
  <2>1. PICK o \in Order, q \in Carts, z \in Places \cup {"pickup"}, m \in Methods :
          /\ ~Placed(o) /\ \A s \in Req : bill[s].ord # o
          /\ z # "pickup" => ZoneAt(z) # 0
          /\ Goto(r, "price")
          /\ Bill(r, [NoBill EXCEPT !.ord = o, !.strict = TRUE, !.qty = q,
                                    !.todo = Lines(q), !.place = z, !.method = m])
    BY <1>3 DEF CreateOrder
  <2> DEFINE b == [NoBill EXCEPT !.ord = o, !.strict = TRUE, !.qty = q,
                                 !.todo = Lines(q), !.place = z, !.method = m]
  <2>2. /\ b.ord = o /\ b.stage = "place" /\ b.amount = 0 /\ b.qty = q
        /\ b.todo = Lines(q) /\ b.line = NoBox /\ b.strict
        /\ b.place = z /\ b.method = m
        /\ DOMAIN b.price = {} /\ DOMAIN b.boxOf = {} /\ DOMAIN b.box = {}
        /\ DOMAIN b = BillFields
    BY NoBillType DEF NoBill, BillFields
  <2>3. bill'[r] = b /\ pc'[r] = "price" /\ \A s \in Req \ {r} : bill'[s] = bill[s]
    BY <2>1 DEF Bill, Goto, PricingInv, BillsOK, TokenInv
  <2>4. Goto(r, "price") /\ Bill(r, b)
    BY <2>1
  <2> HIDE DEF b
  <2>5. Lines(b.qty) \subseteq Product /\ Priced(b) /\ BillType(b)
    BY <2>2, CartsAssumption DEF Lines, Priced, BillType, OnProducts
  <2>6. ReadFrom(rows', b, Lines(b.qty) \ b.todo)
    BY <2>2 DEF ReadFrom
  <2>7. Deliverable(b)
    BY <2>1, <2>2 DEF Deliverable, Spots
  <2>8. BillOK(r)'
    <3>1. /\ b.strict /\ b.ord \in Order /\ b.ord \notin DOMAIN orders'
          /\ \A s \in Req \ {r} : bill'[s].ord # b.ord
      BY <1>1, <2>1, <2>2, <2>3 DEF Placed
    <3>2. \A p \in DOMAIN b.boxOf : FALSE
      BY <2>2
    <3>3. bill'[r].stage = "place" =>
            /\ bill'[r].strict /\ bill'[r].ord \notin DOMAIN orders'
            /\ Deliverable(bill'[r])
            /\ \A x \in Req \ {r} : bill'[x].ord # bill'[r].ord
      BY <2>3, <2>7, <3>1
    <3>4. /\ b.amount \in Nat /\ b.todo \subseteq Lines(b.qty)
          /\ ~(b.stage # "place")
      BY <2>2
    <3> QED
      BY <2>3, <2>5, <2>6, <3>1, <3>2, <3>3, <3>4 DEF BillOK, Placed
  <2>9. BillsOK'
    BY <1>1, <2>1, <2>2, <2>4, <2>5, <2>8, GoesOnKeeps
  <2> QED
    BY <1>1, <2>9, OrdersApart DEF PricingInv
<1> QED
  BY <1>2, <1>3

\* The amounts of a zone are numbers.
LEMMA ZoneAmounts ==
  \A place : Minimum(place) \in Nat /\ Fee(place) \in Nat
BY AmountsAssumption DEF Minimum, Least, Fee

\* Who has read every line of an order that did not drift has read it as it is.
LEMMA WholeRead ==
  ASSUME PricingInv, NEW r \in Req, BillOK(r), bill[r].todo = {}, pc[r] # "price_box"
  PROVE  /\ BoxesKnown(bill[r])
         /\ bill[r].ord \notin drifted =>
              /\ ReadFrom(rows, bill[r], Lines(bill[r].qty))
              /\ ItemsTotal(bill[r]) = Worth(rows, bill[r].qty)
              /\ AllCosted(rows, bill[r].qty)
<1>1. BoxesKnown(bill[r])
  BY DEF BillOK, BoxesKnown
<1>2. Lines(bill[r].qty) \ bill[r].todo = Lines(bill[r].qty)
  OBVIOUS
<1>3. bill[r].ord \notin drifted => ReadFrom(rows, bill[r], Lines(bill[r].qty))
  BY <1>2 DEF BillOK
<1> QED
  BY <1>1, <1>3, WorthRead

\* The INSERT of an order.
LEMMA PlaceOrderKeeps ==
  ASSUME PricingInv, TokenInv, NEW r \in Req, PlaceOrder(r), UNCHANGED <<rows, client>>
  PROVE  PricingInv'
<1> DEFINE b == bill[r]
           o == bill[r].ord
<1>1. /\ pc[r] = "price" /\ BillOK(r) /\ BillType(bill[r]) /\ drifted \subseteq Order
      /\ bill[r].todo = {} /\ bill[r].stage = "place"
  BY DEF PlaceOrder, Totalled, At, PricingInv, BillsOK, InLoop
<1>2. UNCHANGED <<charged, kitchen, drifted>>
  BY DEF PlaceOrder
<1>3. CASE Drop(r) /\ UNCHANGED orders
  BY <1>2, <1>3, DropKeeps, OrdersApart DEF PricingInv
<1>4. CASE /\ ~TooLittle(b) /\ orders' = Put(orders, o, NewRow(b))
           /\ Reprice(r, o, NewRow(b), "link", 0)
  <2> DEFINE row == NewRow(b)
  <2>1. /\ row.qty = b.qty /\ row.price = b.price /\ row.boxOf = b.boxOf /\ row.box = b.box
        /\ row.place = b.place /\ row.method = b.method /\ row.fee = Fee(b.place)
        /\ row.link = 0 /\ row.sent \in BOOLEAN /\ DOMAIN row = RowFields
    BY DEF NewRow, RowFields
  <2>2. /\ o \in Order /\ o \notin DOMAIN orders /\ Priced(b) /\ Deliverable(b)
    BY <1>1 DEF BillOK, Placed
  <2>3. /\ DOMAIN orders' = DOMAIN orders \cup {o} /\ orders'[o] = row
        /\ \A x \in DOMAIN orders : orders'[x] = orders[x]
    BY <1>4, <2>2 DEF Put
  <2> HIDE DEF row
  <2>4. ItemsTotal(row) = ItemsTotal(b)
    BY <2>1 DEF ItemsTotal, BoxesTotal
  <2>5. BoxesKnown(b) /\ (o \notin drifted => /\ ReadFrom(rows, b, Lines(b.qty))
                                              /\ AllCosted(rows, b.qty))
    BY <1>1, WholeRead
  <2>6. ItemsTotal(row) >= Minimum(row.place)
    <3>1. ItemsTotal(b) \in Nat /\ Minimum(b.place) \in Nat
      BY <2>2, <2>5, TotalType, ZoneAmounts
    <3>2. ~(ItemsTotal(b) < Minimum(b.place))
      BY <1>4 DEF TooLittle
    <3> QED
      BY <2>1, <2>4, <3>1, <3>2
  <2>7. RowOK(row)
    <3>1. Priced(row) /\ Deliverable(row)
      BY <2>1, <2>2 DEF Priced, Deliverable
    <3>2. BoxesKnown(row)
      BY <2>1, <2>5 DEF BoxesKnown
    <3>3. row.link \in Nat /\ row.sent \in BOOLEAN /\ row.fee = Fee(row.place)
      BY <2>1
    <3> QED
      BY <2>1, <2>6, <3>1, <3>2, <3>3 DEF RowOK
  <2>8. o \notin drifted => RowIsNow(rows, row)
    BY <2>1, <2>5 DEF RowIsNow, ReadFrom
  <2>9. OrdersOK'
    <3>1. DOMAIN orders' \subseteq Order
      BY <2>2, <2>3 DEF PricingInv, OrdersOK
    <3>2. ASSUME NEW x \in DOMAIN orders'
          PROVE  RowOK(orders'[x]) /\ (x \notin drifted' => RowIsNow(rows', orders'[x]))
      BY <1>2, <2>3, <2>7, <2>8 DEF PricingInv, OrdersOK
    <3> QED
      BY <3>1, <3>2 DEF OrdersOK
  <2>10. ChargedOK' /\ KitchenOK'
    <3>1. ChargedOK'
      BY <1>2, <2>3 DEF PricingInv, ChargedOK, Placed
    <3>2. KitchenOK'
      BY <1>2, <2>3 DEF PricingInv, KitchenOK, Placed
    <3> QED
      BY <3>1, <3>2
  <2>11. BillsOK'
    <3>1. o \in DOMAIN orders' /\ row.qty \in [Product -> Nat] /\ row.qty = orders'[o].qty
      BY <2>1, <2>2, <2>3 DEF Priced
    <3>2. Reprice(r, o, row, "link", 0)
      BY <1>4 DEF row
    <3>3. \A x \in DOMAIN orders' \ DOMAIN orders : x = o
      BY <2>3
    <3>4. \A x \in DOMAIN orders : orders'[x].qty = orders[x].qty
      BY <2>3
    <3> HIDE DEF o
    <3> QED
      BY <1>1, <1>2, <2>2, <2>3, <3>1, <3>2, <3>3, <3>4, RepriceKeeps DEF o
  <2> QED
    BY <1>1, <1>2, <2>9, <2>10, <2>11 DEF PricingInv
<1> QED
  BY <1>3, <1>4 DEF PlaceOrder

\* A row in which nothing changes but the link or the mark.
LEMMA MarkedRow ==
  ASSUME PricingInv, NEW o \in DOMAIN orders, NEW row, DOMAIN row = RowFields,
         row.qty = orders[o].qty, row.price = orders[o].price,
         row.boxOf = orders[o].boxOf, row.box = orders[o].box,
         row.place = orders[o].place, row.method = orders[o].method,
         row.fee = orders[o].fee, row.link \in Nat, row.sent \in BOOLEAN,
         o \notin drifted /\ row.link # 0 => row.link = Asked(rows, row),
         orders' = [orders EXCEPT ![o] = row], UNCHANGED <<rows, charged, kitchen, drifted>>
  PROVE  OrdersOK' /\ ChargedOK' /\ KitchenOK'
<1>1. /\ DOMAIN orders' = DOMAIN orders /\ orders'[o] = row
      /\ \A x \in DOMAIN orders \ {o} : orders'[x] = orders[x]
  OBVIOUS
<1>2. ItemsTotal(row) = ItemsTotal(orders[o])
  BY DEF ItemsTotal, BoxesTotal
<1>3. RowOK(orders[o]) /\ (o \notin drifted => RowIsNow(rows, orders[o]))
  BY DEF PricingInv, OrdersOK
<1>4. RowOK(row)
  BY <1>2, <1>3 DEF RowOK, Priced, BoxesKnown, Deliverable
<1>5. o \notin drifted => RowIsNow(rows, row)
  BY <1>3 DEF RowIsNow, ReadFrom
<1>6. OrdersOK'
  <2>1. DOMAIN orders' \subseteq Order
    BY <1>1 DEF PricingInv, OrdersOK
  <2>2. ASSUME NEW x \in DOMAIN orders'
        PROVE  RowOK(orders'[x]) /\ (x \notin drifted' => RowIsNow(rows', orders'[x]))
    BY <1>1, <1>4, <1>5 DEF PricingInv, OrdersOK
  <2> QED
    BY <2>1, <2>2 DEF OrdersOK
<1>7. \A x \in DOMAIN orders : /\ ChargeNow(rows', orders'[x]) = ChargeNow(rows, orders[x])
                               /\ TicketNow(rows', orders'[x]) = TicketNow(rows, orders[x])
  BY <1>1 DEF ChargeNow, TicketNow, FeeOf
<1>8. ChargedOK'
  BY <1>1, <1>7 DEF PricingInv, ChargedOK, Placed
<1>9. KitchenOK'
  BY <1>1, <1>7 DEF PricingInv, KitchenOK, Placed
<1> QED
  BY <1>6, <1>8, <1>9

\* The link of an order that is paid online.
LEMMA LinkOrderKeeps ==
  ASSUME PricingInv, TokenInv, NEW r \in Req, LinkOrder(r), UNCHANGED <<rows, client>>
  PROVE  PricingInv'
<1> DEFINE b == bill[r]
           o == bill[r].ord
<1>1. /\ pc[r] = "price" /\ BillOK(r) /\ BillType(bill[r]) /\ drifted \subseteq Order
      /\ bill[r].todo = {} /\ bill[r].stage = "link"
  BY DEF LinkOrder, Totalled, At, PricingInv, BillsOK, InLoop
<1>2. UNCHANGED <<charged, kitchen, drifted>> /\ Drop(r)
  BY DEF LinkOrder
<1>3. CASE UNCHANGED orders
  BY <1>2, <1>3, DropKeeps, OrdersApart DEF PricingInv
<1>4. CASE orders' = [orders EXCEPT ![o].link = LinkAmount(b)]
  <2> DEFINE a == LinkAmount(b)
             row == [orders[o] EXCEPT !.link = a]
  <2>1. o \in DOMAIN orders /\ b.qty = orders[o].qty /\ Priced(b) /\ o \in Order
    BY <1>1 DEF BillOK, Placed
  <2>2. RowOK(orders[o])
    BY <2>1 DEF PricingInv, OrdersOK
  <2>3. BoxesKnown(b) /\ (o \notin drifted => ItemsTotal(b) = Worth(rows, b.qty))
    BY <1>1, WholeRead
  <2>4. ItemsTotal(b) \in Nat /\ orders[o].fee \in Nat
    BY <2>1, <2>2, <2>3, TotalType, ZoneAmounts DEF RowOK
  <2>5. a = IF orders[o].method = "PAYME" THEN 100 * (ItemsTotal(b) + orders[o].fee)
                                          ELSE ItemsTotal(b) + orders[o].fee
    BY <2>4 DEF LinkAmount, Tiyin, Total
  <2>6. a \in Nat
    BY <2>4, <2>5
  <2>7. orders' = [orders EXCEPT ![o] = row]
    BY <1>4
  <2> HIDE DEF a
  <2>8. /\ DOMAIN row = RowFields
        /\ row.qty = orders[o].qty /\ row.price = orders[o].price
        /\ row.boxOf = orders[o].boxOf /\ row.box = orders[o].box
        /\ row.place = orders[o].place /\ row.method = orders[o].method
        /\ row.fee = orders[o].fee /\ row.link = a /\ row.sent \in BOOLEAN
    BY <2>2 DEF RowOK, RowFields
  <2> HIDE DEF row
  <2>9. o \notin drifted => a = Asked(rows, row)
    BY <2>1, <2>3, <2>5, <2>8 DEF Asked
  <2>10. OrdersOK' /\ ChargedOK' /\ KitchenOK'
    BY <1>2, <2>1, <2>6, <2>7, <2>8, <2>9, MarkedRow
  <2>11. BillsOK'
    <3>1. DOMAIN orders' = DOMAIN orders /\ \A x \in DOMAIN orders : orders'[x].qty = orders[x].qty
      BY <2>1, <2>7, <2>8
    <3> QED
      BY <1>2, <3>1, DropKeeps
  <2> QED
    BY <1>1, <1>2, <2>10, <2>11 DEF PricingInv
<1> QED
  BY <1>3, <1>4 DEF LinkOrder

\* A charge of what the order is worth, or of one that drifted.
LEMMA ChargeKeeps ==
  ASSUME PricingInv, NEW o \in DOMAIN orders, NEW k \in Paid,
         o \notin drifted => k = ChargeNow(rows, orders[o]),
         charged' = [charged EXCEPT ![o] = @ \cup {k}],
         UNCHANGED <<rows, orders, kitchen, drifted>>
  PROVE  OrdersOK' /\ ChargedOK' /\ KitchenOK'
<1>1. o \in Order
  BY DEF PricingInv, OrdersOK
<1>2. charged' \in [Order -> SUBSET Paid]
  BY <1>1 DEF PricingInv, ChargedOK
<1>3. charged'[o] = charged[o] \cup {k} /\ \A x \in Order \ {o} : charged'[x] = charged[x]
  BY <1>1 DEF PricingInv, ChargedOK
<1>4. ChargedOK'
  BY <1>2, <1>3 DEF PricingInv, ChargedOK, Placed
<1>5. OrdersOK' /\ KitchenOK'
  BY DEF PricingInv, OrdersOK, KitchenOK, Placed
<1> QED
  BY <1>4, <1>5

\* A computation for an order that is there.
LEMMA LookUpKeeps ==
  ASSUME PricingInv, TokenInv, NEW r \in Req, NEW o \in DOMAIN orders,
         NEW l \in {"charge", "send"}, NEW a \in Nat, Reprice(r, o, orders[o], l, a),
         UNCHANGED <<rows, client, orders, charged, kitchen, drifted>>
  PROVE  PricingInv'
<1>1. o \in Order /\ orders[o].qty \in [Product -> Nat]
  BY DEF PricingInv, OrdersOK, RowOK, Priced
<1>2. BillsOK'
  <2> DEFINE row == orders[o]
  <2>1. Reprice(r, o, row, l, a) /\ row.qty = orders'[o].qty /\ o \in DOMAIN orders'
    OBVIOUS
  <2>2. row.qty \in [Product -> Nat]
    BY <1>1
  <2>3. DOMAIN orders' = DOMAIN orders /\ \A x \in DOMAIN orders : orders'[x].qty = orders[x].qty
    OBVIOUS
  <2> HIDE DEF row
  <2> QED
    BY <1>1, <2>1, <2>2, <2>3, RepriceKeeps
<1> QED
  BY <1>2, OrdersApart DEF PricingInv

\* 100 tiyin to the so'm, without a rest.
LEMMA WholeSom ==
  ASSUME NEW n \in Nat
  PROVE  (100 * n) \div 100 = n /\ (100 * n) % 100 = 0
  OBVIOUS

\* Paying: Click charges what the link asked for.
LEMMA PayOrderKeeps ==
  ASSUME PricingInv, TokenInv, NEW r \in Req, PayOrder(r), UNCHANGED <<rows, client>>
  PROVE  PricingInv'
<1>1. UNCHANGED <<orders, kitchen, drifted>> /\ drifted \subseteq Order
  BY DEF PayOrder, PricingInv
<1>2. CASE Drop(r) /\ UNCHANGED charged
  BY <1>1, <1>2, DropKeeps, OrdersApart DEF PricingInv
<1>3. ASSUME NEW o \in Order, Placed(o), NEW a \in Amounts(o),
             Reprice(r, o, orders[o], "charge", a), UNCHANGED charged
      PROVE  PricingInv'
  <2>1. o \in DOMAIN orders /\ RowOK(orders[o])
    BY <1>3 DEF Placed, PricingInv, OrdersOK
  <2>2. a \in Nat
    <3>1. ItemsTotal(orders[o]) \in Nat /\ orders[o].fee \in Nat
      BY <2>1, TotalType, ZoneAmounts DEF RowOK
    <3>2. Tiyin(ItemsTotal(orders[o]) + orders[o].fee) \in Nat
      BY <3>1 DEF Tiyin
    <3>3. orders[o].link \in Nat
      BY <2>1 DEF RowOK
    <3> QED
      BY <3>2, <3>3 DEF Amounts
  <2> QED
    BY <1>1, <1>3, <2>1, <2>2, LookUpKeeps
<1>4. ASSUME NEW o \in Order, Placed(o), orders[o].method = "CLICK",
             orders[o].link > 0, Drop(r),
             charged' = [charged EXCEPT
                           ![o] = @ \cup {[som |-> orders[o].link, tiyin |-> 0]}]
      PROVE  PricingInv'
  <2>1. o \in DOMAIN orders /\ orders[o].link \in Nat /\ orders[o].link # 0
        /\ (o \notin drifted => RowIsNow(rows, orders[o]))
    BY <1>4 DEF Placed, PricingInv, OrdersOK, RowOK
  <2> DEFINE k == [som |-> orders[o].link, tiyin |-> 0]
  <2>2. k \in Paid
    BY <2>1 DEF Paid
  <2>3. o \notin drifted => k = ChargeNow(rows, orders[o])
    BY <1>4, <2>1 DEF RowIsNow, Asked, ChargeNow
  <2>4. charged' = [charged EXCEPT ![o] = @ \cup {k}]
    BY <1>4
  <2> HIDE DEF k
  <2>5. OrdersOK' /\ ChargedOK' /\ KitchenOK'
    BY <1>1, <2>1, <2>2, <2>3, <2>4, ChargeKeeps
  <2>6. BillsOK'
    BY <1>1, <1>4, DropKeeps
  <2> QED
    BY <1>1, <2>5, <2>6 DEF PricingInv
<1> QED
  BY <1>2, <1>3, <1>4 DEF PayOrder

\* The end of CreateTransaction.
LEMMA ChargeStepKeeps ==
  ASSUME PricingInv, TokenInv, NEW r \in Req, Charge(r), UNCHANGED <<rows, client>>
  PROVE  PricingInv'
<1> DEFINE b == bill[r]
           o == bill[r].ord
<1>1. /\ pc[r] = "price" /\ BillOK(r) /\ drifted \subseteq Order
      /\ bill[r].todo = {} /\ bill[r].stage = "charge"
  BY DEF Charge, Totalled, At, PricingInv, BillsOK, InLoop
<1>2. UNCHANGED <<orders, kitchen, drifted>> /\ Drop(r)
  BY DEF Charge
<1>3. CASE UNCHANGED charged
  BY <1>2, <1>3, DropKeeps, OrdersApart DEF PricingInv
<1>4. CASE ExpectedAmount(b) /\ charged' = [charged EXCEPT ![o] = @ \cup {TiyinToSom(b.amount)}]
  <2>1. o \in DOMAIN orders /\ b.qty = orders[o].qty /\ Priced(b)
    BY <1>1 DEF BillOK, Placed
  <2>2. RowOK(orders[o])
    BY <2>1 DEF PricingInv, OrdersOK
  <2>3. BoxesKnown(b) /\ (o \notin drifted => ItemsTotal(b) = Worth(rows, b.qty))
    BY <1>1, WholeRead
  <2>4. ItemsTotal(b) \in Nat /\ orders[o].fee \in Nat
    BY <2>1, <2>2, <2>3, TotalType, ZoneAmounts DEF RowOK
  <2> DEFINE n == ItemsTotal(b) + orders[o].fee
             k == TiyinToSom(b.amount)
  <2>5. n \in Nat /\ b.amount = 100 * n
    BY <1>4, <2>4 DEF ExpectedAmount, Tiyin, Total
  <2>6. k = [som |-> n, tiyin |-> 0]
    <3>1. (100 * n) \div 100 = n /\ (100 * n) % 100 = 0
      BY <2>5, WholeSom
    <3> HIDE DEF n
    <3> QED
      BY <2>5, <3>1 DEF TiyinToSom
  <2>7. k \in Paid
    BY <2>5, <2>6 DEF Paid
  <2>8. o \notin drifted => k = ChargeNow(rows, orders[o])
    BY <2>1, <2>3, <2>6 DEF ChargeNow
  <2>9. charged' = [charged EXCEPT ![o] = @ \cup {k}]
    BY <1>4
  <2> HIDE DEF k
  <2>10. OrdersOK' /\ ChargedOK' /\ KitchenOK'
    BY <1>2, <2>1, <2>7, <2>8, <2>9, ChargeKeeps
  <2>11. BillsOK'
    BY <1>2, DropKeeps
  <2> QED
    BY <1>1, <1>2, <2>10, <2>11 DEF PricingInv
<1> QED
  BY <1>3, <1>4 DEF Charge

\* The guards of sendToIikoIfAllowed, and the order that costs nothing.
LEMMA SendOrderKeeps ==
  ASSUME PricingInv, TokenInv, NEW r \in Req, SendOrder(r) \/ SubmitNothing(r),
         UNCHANGED <<rows, client>>
  PROVE  PricingInv'
<1>1. UNCHANGED <<orders, charged, kitchen, drifted>>
  BY DEF SendOrder, SubmitNothing
<1>2. CASE Drop(r)
  BY <1>1, <1>2, DropKeeps, OrdersApart DEF PricingInv
<1>3. CASE ~Drop(r)
  <2>1. PICK o \in Order : Placed(o) /\ Reprice(r, o, orders[o], "send", 0)
    BY <1>3 DEF SendOrder, SubmitNothing
  <2> QED
    BY <1>1, <2>1, LookUpKeeps DEF Placed
<1> QED
  BY <1>2, <1>3

\* The order goes to the client of iiko.
LEMMA SubmitOrderKeeps ==
  ASSUME PricingInv, TokenInv, NEW r \in Req, SubmitOrder(r), UNCHANGED rows
  PROVE  PricingInv'
<1>1. /\ pc[r] = "price" /\ BillOK(r) /\ BillType(bill[r]) /\ drifted \subseteq Order
      /\ bill[r].todo = {} /\ bill[r].stage = "send" /\ DOMAIN bill = Req
  BY DEF SubmitOrder, Totalled, At, PricingInv, BillsOK, InLoop
<1>2. /\ UNCHANGED <<bill, orders, charged, kitchen, drifted>>
      /\ Goto(r, "ensure") /\ client' = [client EXCEPT ![r].back = "sent"]
  BY DEF SubmitOrder, pricingVars, CallIiko
<1>3. /\ pc'[r] = "ensure"
      /\ \A s \in Req \ {r} : pc'[s] = pc[s] /\ client'[s] = client[s] /\ bill'[s] = bill[s]
  BY <1>2 DEF Goto, TokenInv, TokenTypeOK
<1>4. BillOK(r)'
  BY <1>1, <1>2, <1>3 DEF BillOK, Placed
<1>5. \A s \in Req \ {r} :
        /\ BillType(bill'[s])
        /\ (InLoop(s) \/ Sending(s))' => BillOK(s)'
        /\ Sending(s)' => bill'[s].stage = "send" /\ bill'[s].todo = {}
  BY <1>2, <1>3, OthersBills
<1>6. BillsOK'
  BY <1>1, <1>2, <1>4, <1>5, TurnBills
<1> QED
  BY <1>1, <1>2, <1>6, OrdersApart DEF PricingInv

\* The id that iiko gave is stored.
LEMMA OrderSentKeeps ==
  ASSUME PricingInv, TokenInv, NEW r \in Req, OrderSent(r), UNCHANGED rows
  PROVE  PricingInv'
<1> DEFINE o == bill[r].ord
<1>1. /\ pc[r] = "sent" /\ BillOK(r) /\ drifted \subseteq Order
      /\ bill[r].stage = "send"
  BY DEF OrderSent, At, PricingInv, BillsOK, Sending
<1>2. /\ UNCHANGED <<charged, kitchen, drifted>> /\ Drop(r)
      /\ \A s \in Req \ {r} : client'[s] = client[s]
  BY DEF OrderSent, Return, TokenInv, TokenTypeOK
<1>3. CASE UNCHANGED orders
  BY <1>2, <1>3, DropKeeps, OrdersApart DEF PricingInv
<1>4. CASE orders' = [orders EXCEPT ![o].sent = TRUE]
  <2> DEFINE row == [orders[o] EXCEPT !.sent = TRUE]
  <2>1. o \in DOMAIN orders
    BY <1>1 DEF BillOK, Placed
  <2>2. RowOK(orders[o]) /\ (o \notin drifted => RowIsNow(rows, orders[o]))
    BY <2>1 DEF PricingInv, OrdersOK
  <2>3. orders' = [orders EXCEPT ![o] = row]
    BY <1>4
  <2>4. /\ DOMAIN row = RowFields
        /\ row.qty = orders[o].qty /\ row.price = orders[o].price
        /\ row.boxOf = orders[o].boxOf /\ row.box = orders[o].box
        /\ row.place = orders[o].place /\ row.method = orders[o].method
        /\ row.fee = orders[o].fee /\ row.link = orders[o].link /\ row.sent \in BOOLEAN
    BY <2>2 DEF RowOK, RowFields
  <2>5. row.link \in Nat
    BY <2>2, <2>4 DEF RowOK
  <2> HIDE DEF row
  <2>6. o \notin drifted /\ row.link # 0 => row.link = Asked(rows, row)
    BY <2>2, <2>4 DEF RowIsNow, Asked
  <2>7. OrdersOK' /\ ChargedOK' /\ KitchenOK'
    BY <1>2, <2>1, <2>3, <2>4, <2>5, <2>6, MarkedRow
  <2>8. DOMAIN orders' = DOMAIN orders /\ \A x \in DOMAIN orders : orders'[x].qty = orders[x].qty
    BY <2>1, <2>3, <2>4
  <2>9. BillsOK'
    BY <1>2, <2>8, DropKeeps
  <2> QED
    BY <1>1, <1>2, <2>7, <2>9 DEF PricingInv
<1> QED
  BY <1>3, <1>4 DEF OrderSent

----------------------------------------------------------------------------
(* Steps of the others                                                     *)

\* A step after which whoever makes up a bill is where he was.
LEMMA BillsElsewhere ==
  ASSUME PricingInv, UNCHANGED <<orders, bill, drifted, rows>>,
         \A s \in Req : /\ InLoop(s)' => InLoop(s) /\ pc'[s] = pc[s]
                        /\ Sending(s)' => Sending(s)
  PROVE  BillsOK'
<1>1. ASSUME NEW s \in Req, (InLoop(s) \/ Sending(s))' PROVE BillOK(s)'
  <2>1. BillOK(s) /\ (pc[s] = "price_box" <=> pc'[s] = "price_box")
    BY <1>1 DEF PricingInv, BillsOK, InLoop, Sending, TokenPC
  <2> QED
    BY <2>1 DEF BillOK, Placed
<1> QED
  BY <1>1 DEF PricingInv, BillsOK

\* A step that has nothing to do with orders.
LEMMA OrdersElsewhere ==
  ASSUME PricingInv, UNCHANGED <<pricingVars, rows>>,
         \A s \in Req : /\ InLoop(s)' => InLoop(s) /\ pc'[s] = pc[s]
                        /\ Sending(s)' => Sending(s)
  PROVE  PricingInv'
<1>1. UNCHANGED <<orders, bill, charged, kitchen, drifted>>
  BY DEF pricingVars
<1> QED
  BY <1>1, BillsElsewhere, OrdersApart DEF PricingInv

\* Where every price tag is as it was, the tables tell an order the same.
LEMMA TagsSame ==
  ASSUME \A p \in Product : PriceTag(p)' = PriceTag(p)
  PROVE  SameTags(rows, rows')
<1> SUFFICES ASSUME NEW p \in Product
             PROVE  /\ CostedIn(rows, p) <=> CostedIn(rows', p)
                    /\ CostedIn(rows, p) => /\ CostIn(rows, p) = CostIn(rows', p)
                                            /\ rows[p].box = rows'[p].box
  BY DEF SameTags
<1>1. PriceTag(p) = IF CostedIn(rows, p) THEN <<CostIn(rows, p), rows[p].box>> ELSE <<>>
  BY DEF PriceTag, Costed, There, Cost, CostedIn, CostIn
<1>2. PriceTag(p)' = IF CostedIn(rows', p) THEN <<CostIn(rows', p), rows'[p].box>> ELSE <<>>
  BY DEF PriceTag, Costed, There, Cost, CostedIn, CostIn
<1>3. PriceTag(p)' = PriceTag(p)
  OBVIOUS
<1>4. \A x, y : <<x, y>> # <<>>
  OBVIOUS
<1> QED
  BY <1>1, <1>2, <1>3, <1>4

\* The rows change under the orders: who notices has drifted.
LEMMA PricesMoveKeeps ==
  ASSUME PricingInv, TableOK(rows), PricesMove,
         UNCHANGED <<orders, bill, charged, kitchen>>,
         \A s \in Req : /\ InLoop(s)' => InLoop(s) /\ pc'[s] = pc[s]
                        /\ Sending(s)' => Sending(s)
  PROVE  PricingInv'
<1> DEFINE touched == {o \in Order : Placed(o)} \cup {bill[s].ord : s \in Req}
<1>1. /\ drifted \subseteq Order
      /\ drifted' = IF \E p \in Product : PriceTag(p)' # PriceTag(p)
                      THEN drifted \cup (touched \ {NoOrder}) ELSE drifted
  BY DEF PricesMove, PricingInv
<1>2. touched \ {NoOrder} \subseteq Order
  BY DEF PricingInv, BillsOK, BillType
<1>3. drifted \subseteq drifted' /\ drifted' \subseteq Order
  BY <1>1, <1>2
<1>4. ASSUME NEW o \in Order, o \notin drifted',
             o \in DOMAIN orders \/ \E s \in Req : bill[s].ord = o
      PROVE  o \notin drifted /\ SameTags(rows, rows')
  <2>1. o \in touched \ {NoOrder}
    BY <1>4, NoOrderAssumption DEF Placed
  <2>2. \A p \in Product : PriceTag(p)' = PriceTag(p)
    BY <1>1, <1>4, <2>1
  <2> QED
    BY <1>3, <1>4, <2>2, TagsSame
<1>5. OrdersOK'
  <2> SUFFICES ASSUME NEW o \in DOMAIN orders, o \notin drifted'
               PROVE  RowIsNow(rows', orders[o])
    BY DEF PricingInv, OrdersOK
  <2>1. o \in Order /\ RowOK(orders[o])
    BY DEF PricingInv, OrdersOK
  <2>2. SameTags(rows, rows') /\ RowIsNow(rows, orders[o])
    BY <1>4, <2>1 DEF PricingInv, OrdersOK
  <2> DEFINE row == orders[o]
             t == rows
             u == rows'
  <2>3. /\ Priced(row) /\ row.qty \in [Product -> Nat] /\ Lines(row.qty) \in SUBSET Product
        /\ AllCosted(t, row.qty) /\ ReadFrom(t, row, Lines(row.qty))
        /\ SameTags(t, u) /\ TableOK(t)
        /\ row.link # 0 => row.link = Asked(t, row)
    BY <2>1, <2>2 DEF RowOK, Priced, RowIsNow, Lines
  <2> HIDE DEF row, t, u
  <2>4. ReadFrom(u, row, Lines(row.qty))
    BY <2>3, ReadStays
  <2>5. AllCosted(u, row.qty) /\ Worth(u, row.qty) = Worth(t, row.qty)
    BY <2>3, WorthStays
  <2>6. RowIsNow(u, row)
    BY <2>3, <2>4, <2>5 DEF RowIsNow, Asked
  <2> QED
    BY <2>6 DEF u, row
<1>6. ASSUME NEW o \in DOMAIN orders, o \notin drifted'
      PROVE  /\ ChargeNow(rows', orders[o]) = ChargeNow(rows, orders[o])
             /\ TicketNow(rows', orders[o]) = TicketNow(rows, orders[o])
             /\ o \notin drifted
  <2>1. o \in Order /\ RowOK(orders[o])
    BY DEF PricingInv, OrdersOK
  <2>2. SameTags(rows, rows') /\ RowIsNow(rows, orders[o]) /\ o \notin drifted
    BY <1>4, <1>6, <2>1 DEF PricingInv, OrdersOK
  <2>3. orders[o].qty \in [Product -> Nat] /\ AllCosted(rows, orders[o].qty)
    BY <2>1, <2>2 DEF RowOK, Priced, RowIsNow
  <2> DEFINE q == orders[o].qty
             t == rows
             u == rows'
  <2>4. q \in [Product -> Nat] /\ AllCosted(t, q) /\ SameTags(t, u) /\ TableOK(t)
    BY <2>2, <2>3
  <2> HIDE DEF q, t, u
  <2>5. Worth(u, q) = Worth(t, q) /\ ItemsOf(u, q) = ItemsOf(t, q)
    BY <2>4, WorthStays
  <2> QED
    BY <2>2, <2>5 DEF ChargeNow, TicketNow, q, t, u
<1>7. ChargedOK'
  <2>1. charged' \in [Order -> SUBSET Paid]
    BY DEF PricingInv, ChargedOK
  <2>2. ASSUME NEW o \in Order, NEW k \in charged'[o]
        PROVE  o \in DOMAIN orders /\ (o \notin drifted' => k = ChargeNow(rows', orders'[o]))
    <3>1. o \in DOMAIN orders
          /\ (o \notin drifted => k = ChargeNow(rows, orders[o]))
      BY <2>2 DEF PricingInv, ChargedOK, Placed
    <3> QED
      BY <1>6, <3>1
  <2> QED
    BY <2>1, <2>2 DEF ChargedOK, Placed
<1>8. KitchenOK'
  <2>1. ASSUME NEW o \in Order, NEW k \in kitchen[o]
        PROVE  /\ k \in Tickets /\ o \in DOMAIN orders
               /\ o \notin drifted' => k = TicketNow(rows', orders'[o])
    <3>1. /\ k \in Tickets /\ o \in DOMAIN orders
          /\ o \notin drifted => k = TicketNow(rows, orders[o])
      BY DEF PricingInv, KitchenOK, Placed
    <3> QED
      BY <1>6, <3>1
  <2> QED
    BY <2>1 DEF PricingInv, KitchenOK, Placed
<1>9. ASSUME NEW s \in Req, (InLoop(s) \/ Sending(s))' PROVE BillOK(s)'
  <2>1. BillOK(s) /\ (pc[s] = "price_box" <=> pc'[s] = "price_box")
    BY <1>9 DEF PricingInv, BillsOK, InLoop, Sending, TokenPC
  <2>2. bill[s].ord \notin drifted' =>
          ReadFrom(rows', bill[s], Lines(bill[s].qty) \ bill[s].todo)
    <3> SUFFICES ASSUME bill[s].ord \notin drifted'
                 PROVE  ReadFrom(rows', bill[s], Lines(bill[s].qty) \ bill[s].todo)
      OBVIOUS
    <3> DEFINE b == bill[s]
               t == rows
               u == rows'
               D == Lines(b.qty) \ b.todo
    <3>1. bill[s].ord \notin drifted /\ SameTags(t, u)
      BY <1>4, <2>1 DEF BillOK
    <3>2. Priced(b) /\ D \in SUBSET Product /\ ReadFrom(t, b, D)
      BY <2>1, <3>1 DEF BillOK, Priced, Lines
    <3> HIDE DEF b, t, u, D
    <3>3. ReadFrom(u, b, D)
      BY <3>1, <3>2, ReadStays
    <3> QED
      BY <3>3 DEF u, b, D
  <2> QED
    BY <2>1, <2>2 DEF BillOK, Placed
<1>10. BillsOK'
  BY <1>9 DEF PricingInv, BillsOK
<1> QED
  BY <1>3, <1>5, <1>7, <1>8, <1>10 DEF PricingInv

\* Boxes are asked for line by line, whichever query told their names.
LEMMA TicketType ==
  ASSUME PricingInv, NEW r \in Req, BillOK(r), bill[r].todo = {}, pc[r] # "price_box",
         bill[r].stage # "place"
  PROVE  /\ Ticket(bill[r]) \in Tickets
         /\ bill[r].ord \notin drifted =>
              Ticket(bill[r]) = TicketNow(rows, orders[bill[r].ord])
<1> DEFINE b == bill[r]
           o == bill[r].ord
<1>1. /\ o \in DOMAIN orders /\ b.qty = orders[o].qty /\ Priced(b) /\ RowOK(orders[o])
      /\ o \notin drifted => RowIsNow(rows, orders[o])
  BY DEF BillOK, Placed, PricingInv, OrdersOK
<1>2. /\ BoxesKnown(b)
      /\ o \notin drifted => /\ ReadFrom(rows, b, Lines(b.qty))
                             /\ ItemsTotal(b) = Worth(rows, b.qty)
  BY WholeRead
<1>3. ItemsTotal(b) \in Nat /\ FeeAsked(o) \in Nat
  BY <1>1, <1>2, TotalType, ZoneAmounts DEF FeeAsked, RowOK
<1> DEFINE asked == BoxesAsked(b)
           packed(p) == {l \in DOMAIN asked : asked[l] = p}
<1>4. DOMAIN asked = DOMAIN b.boxOf \cup DOMAIN orders[o].boxOf
  BY DEF BoxesAsked, OrElse
<1>5. DOMAIN asked \subseteq Product
  BY <1>1, <1>4 DEF Priced, OnProducts, RowOK
<1>6. \A p \in Product : SumFunctionOnSet(b.qty, packed(p)) \in Nat
  <2> SUFFICES ASSUME NEW p \in Product PROVE SumFunctionOnSet(b.qty, packed(p)) \in Nat
    OBVIOUS
  <2>1. packed(p) \in SUBSET Product
    BY <1>5
  <2>2. IsFiniteSet(packed(p)) /\ Numbers(b.qty, packed(p))
    BY <1>1, <2>1, SomeProducts DEF Numbers, Priced
  <2> HIDE DEF packed
  <2> QED
    BY <2>2, SumType
<1>7. Ticket(b) = [sum |-> ItemsTotal(b), fee |-> FeeAsked(o),
                   items |-> [p \in Product |-> b.qty[p] + SumFunctionOnSet(b.qty, packed(p))]]
  BY DEF Ticket
<1>8. Ticket(b) \in Tickets
  <2> DEFINE n == [p \in Product |-> b.qty[p] + SumFunctionOnSet(b.qty, packed(p))]
  <2>1. \A p \in Product : b.qty[p] \in Nat
    BY <1>1 DEF Priced
  <2>2. n \in [Product -> Nat]
    <3> HIDE DEF packed
    <3> QED
      BY <1>6, <2>1
  <2> HIDE DEF n
  <2> QED
    BY <1>3, <1>7, <2>2 DEF Tickets, n
<1>9. ASSUME o \notin drifted PROVE Ticket(b) = TicketNow(rows, orders[o])
  <2>1. /\ DOMAIN b.boxOf = Boxed(rows, b.qty) /\ DOMAIN orders[o].boxOf = Boxed(rows, b.qty)
        /\ \A l \in Boxed(rows, b.qty) : b.boxOf[l] = rows[l].box
    BY <1>1, <1>2, <1>9 DEF ReadFrom, RowIsNow, Boxed
  <2>2. \A l \in DOMAIN asked : asked[l] = rows[l].box
    BY <2>1 DEF BoxesAsked, OrElse
  <2>3. DOMAIN asked = Boxed(rows, b.qty)
    BY <1>4, <2>1
  <2>4. \A p \in Product : packed(p) = {l \in Boxed(rows, b.qty) : rows[l].box = p}
    BY <2>2, <2>3
  <2>5. [p \in Product |-> b.qty[p] + SumFunctionOnSet(b.qty, packed(p))] = ItemsOf(rows, b.qty)
    <3> HIDE DEF packed
    <3> QED
      BY <2>4 DEF ItemsOf
  <2>6. FeeAsked(o) = FeeOf(orders[o])
    BY DEF FeeAsked, FeeOf
  <2> QED
    BY <1>1, <1>2, <1>7, <1>9, <2>5, <2>6 DEF TicketNow
<1> QED
  BY <1>8, <1>9

----------------------------------------------------------------------------
(* The turns of the gateway                                                *)

\* Points at which nobody makes up a bill, or sends an order.
NoOrderPC(l) == l \notin {"price", "price_box", "sent"} \cup TokenPC

\* A request that goes to one of them brings nobody into the loop.
LEMMA GoesElsewhere ==
  ASSUME TokenInv, NEW r \in Req, NEW l, NoOrderPC(l), Goto(r, l),
         \A s \in Req \ {r} : client'[s] = client[s]
  PROVE  \A s \in Req : /\ InLoop(s)' => InLoop(s) /\ pc'[s] = pc[s]
                        /\ Sending(s)' => Sending(s)
BY DEF TokenInv, Goto, InLoop, Sending, NoOrderPC

\* The steps of the client keep in mind who called.
LEMMA BackKept ==
  ASSUME TokenInv, NEW r \in Req, TokenStep(r) \/ AskServed(r)
  PROVE  \A s \in Req : client'[s].back = client[s].back
BY DEF TokenInv, TokenTypeOK, TokenStep, EnsureToken, AskFailed, AskExpired, Renew,
       KeepToken, AskServed, Answer, Proceed

\* And so nobody is sent an order there that was not before.
LEMMA ClientElsewhere ==
  ASSUME TokenInv, NEW r \in Req, TokenStep(r) \/ AskServed(r)
  PROVE  \A s \in Req : /\ InLoop(s)' => InLoop(s) /\ pc'[s] = pc[s]
                        /\ Sending(s)' => Sending(s)
<1>1. /\ pc[r] \in TokenPC /\ client[r].back \in BackPC
      /\ \/ Goto(r, "ask") \/ Goto(r, "renew") \/ Goto(r, "keep")
         \/ Goto(r, "ask_again") \/ Goto(r, client[r].back)
  BY TokenMoves
<1>2. \A s \in Req : client'[s].back = client[s].back
  BY BackKept
<1>3. \A s \in Req \ {r} : pc'[s] = pc[s]
  BY <1>1 DEF Goto, TokenInv
<1>4. pc'[r] \in {"ask", "renew", "keep", "ask_again", client[r].back}
  BY <1>1 DEF Goto, TokenInv
<1>5. ~InLoop(r)' /\ (Sending(r)' => Sending(r))
  BY <1>1, <1>2, <1>4 DEF InLoop, Sending, TokenPC, BackPC
<1> QED
  BY <1>2, <1>3, <1>5 DEF InLoop, Sending

\* The operations and the middleware are none of those points.
LEMMA OpsElsewhere ==
  /\ \A l \in Op \cup AccessPC \cup {"idle", "import"} : NoOrderPC(l)
BY RouteOps DEF Op, Out, AccessPC, AdminPC, TokenPC, NoOrderPC

\* A request that comes, the middleware, and the administrators.
LEMMA AccessTurnPriced ==
  ASSUME PricingInv, GatewayInv, NEW r \in Req, Request(r) \/ AccessTurn(r)
  PROVE  PricingInv'
<1>1. UNCHANGED <<tokenVars, catalogueVars, pricingVars>> /\ TokenInv
  BY DEF Request, AccessTurn, GatewayInv
<1>2. PICK l \in Op \cup AccessPC \cup {"idle"} : Goto(r, l)
  <2>1. CASE Request(r)
    BY <2>1 DEF Request, Arrive, AccessPC
  <2>2. CASE AccessTurn(r)
    BY <2>2, AccessMoves DEF AccessTurn, GatewayInv, AccessPC
  <2> QED
    BY <2>1, <2>2
<1>3. UNCHANGED <<pricingVars, rows>> /\ UNCHANGED client
  BY <1>1 DEF tokenVars, catalogueVars
<1>4. NoOrderPC(l)
  BY OpsElsewhere
<1> QED
  BY <1>1, <1>2, <1>3, <1>4, GoesElsewhere, OrdersElsewhere

\* The client.
LEMMA TokenTurnPriced ==
  ASSUME PricingInv, GatewayInv, NEW r \in Req, TokenTurn(r)
  PROVE  PricingInv'
<1>1. TokenInv /\ TokenStep(r) /\ UNCHANGED <<pricingVars, rows>>
  BY DEF TokenTurn, GatewayInv, catalogueVars
<1> QED
  BY <1>1, ClientElsewhere, OrdersElsewhere

\* What nobody needs to look at orders for.
LEMMA EnvironmentPriced ==
  ASSUME PricingInv, TokenExpires \/ NomenclatureEdited \/ UNCHANGED gatewayVars
  PROVE  PricingInv'
<1>1. UNCHANGED <<pricingVars, rows>> /\ UNCHANGED <<pc, client>>
  BY DEF TokenExpires, NomenclatureEdited, gatewayVars, Expire, IikoEdits, tokenVars,
         catalogueVars
<1>2. \A s \in Req : /\ InLoop(s)' => InLoop(s) /\ pc'[s] = pc[s]
                     /\ Sending(s)' => Sending(s)
  BY <1>1 DEF InLoop, Sending
<1> QED
  BY <1>1, <1>2, OrdersElsewhere

\* Imports and edits.
LEMMA CatalogueTurnPriced ==
  ASSUME PricingInv, GatewayInv, NEW r \in Req, CatalogueTurn(r)
  PROVE  PricingInv'
<1>1. /\ TokenInv /\ CatalogueStep(r) /\ PricesMove /\ TableOK(rows)
      /\ UNCHANGED <<orders, bill, charged, kitchen>>
  BY DEF CatalogueTurn, GatewayInv, CatalogueTypeOK, TableOK
<1>2. \A s \in Req : /\ InLoop(s)' => InLoop(s) /\ pc'[s] = pc[s]
                     /\ Sending(s)' => Sending(s)
  <2>1. CASE Sync(r)
    <3>1. pc'[r] = "ensure" /\ client'[r].back = "import"
          /\ \A s \in Req \ {r} : pc'[s] = pc[s] /\ client'[s] = client[s]
      BY <1>1, <2>1 DEF Sync, CallIiko, Goto, TokenInv, TokenTypeOK
    <3> QED
      BY <3>1 DEF InLoop, Sending
  <2>2. CASE Import(r)
    <3>1. UNCHANGED <<pc, client>>
      BY <2>2 DEF Import, tokenVars
    <3> QED
      BY <3>1 DEF InLoop, Sending
  <2>3. CASE ImportEnds(r) \/ PatchItem(r) \/ DeleteItem(r)
    <3>1. Goto(r, "idle") /\ \A s \in Req \ {r} : client'[s] = client[s]
      BY <1>1, <2>3 DEF ImportEnds, Return, PatchItem, DeleteItem, tokenVars, TokenInv,
                        TokenTypeOK
    <3>2. NoOrderPC("idle")
      BY OpsElsewhere
    <3> QED
      BY <1>1, <3>1, <3>2, GoesElsewhere
  <2> QED
    BY <1>1, <2>1, <2>2, <2>3 DEF CatalogueStep
<1> QED
  BY <1>1, <1>2, PricesMoveKeeps

\* iiko acts: on an order that is submitted it puts down the ticket.
LEMMA IikoTurnPriced ==
  ASSUME PricingInv, GatewayInv, NEW r \in Req, IikoTurn(r)
  PROVE  PricingInv'
<1>1. /\ TokenInv /\ AskServed(r) /\ TicketAccepted(r)
      /\ UNCHANGED <<rows, orders, bill, charged, drifted>>
  BY DEF IikoTurn, GatewayInv
<1>2. BillsOK'
  <2>1. \A s \in Req : /\ InLoop(s)' => InLoop(s) /\ pc'[s] = pc[s]
                       /\ Sending(s)' => Sending(s)
    BY <1>1, ClientElsewhere
  <2> QED
    BY <1>1, <2>1, BillsElsewhere
<1>3. OrdersOK' /\ ChargedOK' /\ drifted' \subseteq Order
  BY <1>1 DEF PricingInv, OrdersOK, ChargedOK, Placed
<1>4. CASE client[r].back # "sent"
  <2>1. UNCHANGED kitchen
    BY <1>1, <1>4 DEF TicketAccepted
  <2>2. KitchenOK'
    BY <1>1, <2>1 DEF PricingInv, KitchenOK, Placed
  <2> QED
    BY <1>2, <1>3, <2>2 DEF PricingInv
<1>5. CASE client[r].back = "sent"
  <2> DEFINE o == bill[r].ord
             k == Ticket(bill[r])
  <2>1. pc[r] \in TokenPC /\ Sending(r)
    BY <1>1, <1>5, TokenMoves DEF Sending
  <2>2. BillOK(r) /\ bill[r].stage = "send" /\ bill[r].todo = {} /\ pc[r] # "price_box"
    BY <2>1 DEF PricingInv, BillsOK, TokenPC
  <2>3. o \in Order /\ Placed(o)
    BY <2>2 DEF BillOK
  <2>4. k \in Tickets /\ (o \notin drifted => k = TicketNow(rows, orders[o]))
    BY <2>2, TicketType
  <2>5. kitchen' = [kitchen EXCEPT ![o] = @ \cup {k}]
    BY <1>1, <1>5 DEF TicketAccepted
  <2> HIDE DEF k
  <2>6. ASSUME NEW x \in Order, NEW j \in kitchen'[x]
        PROVE  /\ j \in Tickets /\ x \in DOMAIN orders
               /\ x \notin drifted => j = TicketNow(rows, orders[x])
    <3>1. j \in kitchen[x] \/ (x = o /\ j = k)
      BY <2>5, <2>6 DEF PricingInv, KitchenOK
    <3> QED
      BY <2>3, <2>4, <3>1 DEF PricingInv, KitchenOK, Placed
  <2>7. KitchenOK'
    BY <1>1, <2>5, <2>6 DEF PricingInv, KitchenOK, Placed
  <2> QED
    BY <1>2, <1>3, <2>7 DEF PricingInv
<1> QED
  BY <1>4, <1>5

\* Orders, and what they cost.
LEMMA PricingTurnPriced ==
  ASSUME PricingInv, GatewayInv, NEW r \in Req, PricingTurn(r)
  PROVE  PricingInv'
<1>1. TokenInv /\ PricingStep(r) /\ UNCHANGED rows /\ TableOK(rows)
  BY DEF PricingTurn, GatewayInv, catalogueVars, CatalogueTypeOK, TableOK
<1>2. CASE SubmitOrder(r)
  BY <1>1, <1>2, SubmitOrderKeeps
<1>3. CASE OrderSent(r)
  BY <1>1, <1>3, OrderSentKeeps
<1>4. ASSUME UNCHANGED client,
             \/ ReadPrice(r) \/ ReadBoxPrice(r)
             \/ CreateOrder(r) \/ PlaceOrder(r) \/ LinkOrder(r)
             \/ PayOrder(r) \/ Charge(r) \/ SendOrder(r) \/ SubmitNothing(r)
      PROVE  PricingInv'
  <2>1. UNCHANGED <<rows, client>>
    BY <1>1, <1>4
  <2>2. CASE ReadPrice(r)
    BY <1>1, <2>1, <2>2, ReadPriceKeeps
  <2>3. CASE ReadBoxPrice(r)
    BY <1>1, <2>1, <2>3, ReadBoxPriceKeeps
  <2>4. CASE CreateOrder(r)
    BY <1>1, <2>1, <2>4, CreateOrderKeeps
  <2>5. CASE PlaceOrder(r)
    BY <1>1, <2>1, <2>5, PlaceOrderKeeps
  <2>6. CASE LinkOrder(r)
    BY <1>1, <2>1, <2>6, LinkOrderKeeps
  <2>7. CASE PayOrder(r)
    BY <1>1, <2>1, <2>7, PayOrderKeeps
  <2>8. CASE Charge(r)
    BY <1>1, <2>1, <2>8, ChargeStepKeeps
  <2>9. CASE SendOrder(r) \/ SubmitNothing(r)
    BY <1>1, <2>1, <2>9, SendOrderKeeps
  <2> QED
    BY <1>4, <2>2, <2>3, <2>4, <2>5, <2>6, <2>7, <2>8, <2>9
<1> QED
  BY <1>1, <1>2, <1>3, <1>4 DEF PricingStep, tokenVars

\* Nobody makes up a bill yet.
LEMMA NobodyPriced ==
  ASSUME pc = [r \in Req |-> "idle"], bill = [r \in Req |-> NoBill]
  PROVE  BillsOK
BY NoBillType DEF BillsOK, InLoop, Sending, TokenPC

\* The server restarts: bills are forgotten, orders stay.
LEMMA CrashPriced ==
  ASSUME PricingInv, GatewayCrash
  PROVE  PricingInv'
<1>1. /\ pc' = [r \in Req |-> "idle"] /\ bill' = [r \in Req |-> NoBill]
      /\ UNCHANGED <<rows, orders, charged, kitchen, drifted>>
  BY DEF GatewayCrash
<1>2. BillsOK'
  BY <1>1, NoBillType DEF BillsOK, InLoop, Sending, TokenPC
<1> QED
  BY <1>1, <1>2, OrdersApart DEF PricingInv

\* At first there are no orders.
LEMMA PricingInitInv ==
  ASSUME PricingInit, pc = [r \in Req |-> "idle"]
  PROVE  PricingInv
<1>1. BillsOK
  BY NobodyPriced DEF PricingInit
<1>2. OrdersOK /\ ChargedOK /\ KitchenOK /\ drifted \subseteq Order
  BY DEF PricingInit, OrdersOK, ChargedOK, KitchenOK
<1> QED
  BY <1>1, <1>2 DEF PricingInv

\* Every step of the gateway.
LEMMA NextPriced ==
  ASSUME PricingInv, GatewayInv, [GatewayNext]_gatewayVars
  PROVE  PricingInv'
BY AccessTurnPriced, TokenTurnPriced, IikoTurnPriced, CatalogueTurnPriced,
   PricingTurnPriced, CrashPriced, EnvironmentPriced
   DEF GatewayNext, Handler

\* The invariant, on which the theorems about orders rest.
THEOREM PricingInvariant == GatewaySpec => []PricingInv
<1>1. GatewayInit => PricingInv
  BY PricingInitInv DEF GatewayInit
<1>2. PricingInv /\ GatewayInv /\ [GatewayNext]_gatewayVars => PricingInv'
  BY NextPriced
<1> QED
  BY <1>1, <1>2, GatewayInvariant, PTL DEF GatewaySpec

----------------------------------------------------------------------------
(* Types                                                                   *)

AnyPC == {"idle"} \cup TokenPC \cup CataloguePC \cup PricingPC \cup AccessPC

BoundsOK ==
  /\ pc \in [Req -> AnyPC]
  /\ mix \in Mixes /\ taken \in 0 .. MaxRequests /\ edits \in 0 .. MaxEdits

\* Every operation starts at the point that has its name.
LEMMA OpsArePoints == Op \subseteq AnyPC /\ BackPC \subseteq AnyPC /\ AccessPC \subseteq AnyPC
BY RouteOps DEF Op, Out, BackPC, AnyPC, CataloguePC, PricingPC, AccessPC, AdminPC

\* Every step leads from point to point, within the bounds.
LEMMA BoundsKept ==
  ASSUME BoundsOK, GatewayInv, [GatewayNext]_gatewayVars
  PROVE  BoundsOK'
<1>0. DOMAIN pc = Req /\ TokenInv /\ AccessInv
  BY DEF GatewayInv, TokenInv
<1>1. ASSUME NEW r \in Req, NEW l \in AnyPC, Goto(r, l)
      PROVE  pc' \in [Req -> AnyPC]
  BY <1>0, <1>1 DEF Goto, BoundsOK
<1>2. ASSUME NEW r \in Req, Request(r) PROVE BoundsOK'
  <2>1. PICK op \in Op : Arrive(r, op)
    BY <1>2 DEF Request
  <2>2. Goto(r, op) \/ Goto(r, "read_account")
    BY <2>1 DEF Arrive
  <2>3. pc' \in [Req -> AnyPC]
    BY <1>1, <2>2, OpsArePoints DEF AccessPC
  <2> QED
    BY <1>2, <2>3, GatewayBoundsAssumption DEF Request, BoundsOK
<1>3. ASSUME NEW r \in Req, Handler(r) PROVE pc' \in [Req -> AnyPC]
  <2>1. CASE AccessTurn(r)
    <3>1. \E l \in Op \cup {"idle", "read_scopes"} : Goto(r, l)
      BY <1>0, <2>1, AccessMoves DEF AccessTurn
    <3>2. Op \cup {"idle", "read_scopes"} \subseteq AnyPC
      BY OpsArePoints DEF AnyPC, AccessPC
    <3> QED
      BY <1>1, <3>1, <3>2
  <2>2. CASE TokenTurn(r) \/ IikoTurn(r)
    <3>1. \E l \in TokenPC \cup BackPC : Goto(r, l)
      BY <1>0, <2>2, TokenMoves DEF TokenTurn, IikoTurn, TokenPC
    <3>2. TokenPC \cup BackPC \subseteq AnyPC
      BY OpsArePoints DEF AnyPC
    <3> QED
      BY <1>1, <3>1, <3>2
  <2>3. CASE CatalogueTurn(r)
    <3>1. UNCHANGED pc \/ Goto(r, "ensure") \/ Goto(r, "idle")
      BY <2>3 DEF CatalogueTurn, CatalogueStep, Sync, CallIiko, Import, ImportEnds,
                  PatchItem, DeleteItem
    <3> QED
      BY <1>1, <3>1 DEF BoundsOK, AnyPC, TokenPC
  <2>4. CASE PricingTurn(r)
    <3>1. Goto(r, "idle") \/ Goto(r, "price") \/ Goto(r, "price_box") \/ Goto(r, "ensure")
      BY <2>4, PricingMoves DEF PricingTurn, PricingStep, SubmitOrder, CallIiko, OrderSent, Drop
    <3> QED
      BY <1>1, <3>1 DEF AnyPC, TokenPC, PricingPC
  <2> QED
    BY <1>3, <2>1, <2>2, <2>3, <2>4 DEF Handler
<1>4. ASSUME NEW r \in Req, Handler(r) PROVE BoundsOK'
  BY <1>3, <1>4 DEF Handler, boundVars, BoundsOK
<1>5. CASE TokenExpires
  BY <1>5 DEF TokenExpires, Expire, boundVars, BoundsOK
<1>6. CASE NomenclatureEdited
  BY <1>6, GatewayBoundsAssumption DEF NomenclatureEdited, BoundsOK
<1>7. CASE GatewayCrash
  BY <1>7 DEF GatewayCrash, boundVars, BoundsOK, AnyPC
<1>8. CASE UNCHANGED gatewayVars
  BY <1>8 DEF gatewayVars, boundVars, BoundsOK
<1> QED
  BY <1>2, <1>4, <1>5, <1>6, <1>7, <1>8 DEF GatewayNext

\* The invariant says of the orders' tables what their type does.
LEMMA PricingTyped ==
  ASSUME PricingInv
  PROVE  PricingTypeOK
<1>1. ASSUME NEW o \in DOMAIN orders
      PROVE  /\ orders[o].qty \in [Product -> Nat]
             /\ OnProducts(orders[o].price, Nat) /\ OnProducts(orders[o].box, Nat)
             /\ OnProducts(orders[o].boxOf, DOMAIN orders[o].box)
             /\ orders[o].link \in Nat /\ orders[o].sent \in BOOLEAN
  <2>1. RowOK(orders[o])
    BY DEF PricingInv, OrdersOK
  <2> QED
    BY <2>1 DEF RowOK, Priced, BoxesKnown, OnProducts
<1>2. \A o \in Order : kitchen[o] \subseteq Tickets
  BY DEF PricingInv, KitchenOK
<1>3. \A r \in Req : BillType(bill[r])
  BY DEF PricingInv, BillsOK
<1>4. DOMAIN orders \subseteq Order /\ charged \in [Order -> SUBSET Paid]
      /\ drifted \subseteq Order
  BY DEF PricingInv, OrdersOK, ChargedOK
<1> QED
  BY <1>1, <1>2, <1>3, <1>4 DEF PricingTypeOK, Tickets, BillType

\* Every variable of the gateway keeps its type: the tables, the bills that
\* are being made up, the client's calls and the points of the handlers.
THEOREM GatewayTypeCorrect == GatewaySpec => []GatewayTypeOK
<1>1. GatewayInit => BoundsOK
  BY GatewayBoundsAssumption DEF GatewayInit, BoundsOK, AnyPC
<1>2. BoundsOK /\ GatewayInv /\ [GatewayNext]_gatewayVars => BoundsOK'
  BY BoundsKept
<1>3. BoundsOK /\ GatewayInv /\ PricingInv => GatewayTypeOK
  <2> SUFFICES ASSUME BoundsOK, GatewayInv, PricingInv PROVE GatewayTypeOK
    OBVIOUS
  <2>1. TokenTypeOK /\ CatalogueTypeOK /\ AccessTypeOK
    BY DEF GatewayInv, TokenInv, AccessInv
  <2>2. PricingTypeOK
    BY PricingTyped
  <2> QED
    BY <2>1, <2>2 DEF GatewayTypeOK, BoundsOK, AnyPC
<1> QED
  BY <1>1, <1>2, <1>3, GatewayInvariant, PricingInvariant, PTL DEF GatewaySpec

----------------------------------------------------------------------------
(* The zones                                                               *)

\* The zone of a place that has one is a file that contains it.
LEMMA ZoneFinds ==
  ASSUME NEW p, ZoneAt(p) # 0
  PROVE  /\ ZoneAt(p) \in {1, 2} /\ ZoneAt(p) \in DOMAIN Files
         /\ IsPointInGeoJSON(Files[ZoneAt(p)], Coordinates[p])
<1> DEFINE found == {i \in DOMAIN Files : IsPointInGeoJSON(Files[i], Coordinates[p])}
<1>1. found \subseteq {1, 2}
  BY ZonesAssumption, FilesAssumption
<1>2. ZoneAt(p) = IF found = {} THEN 0 ELSE CHOOSE i \in found : \A j \in found : i <= j
  BY DEF ZoneAt
<1>3. found # {}
  BY <1>2
<1>4. ZoneAt(p) \in found
  <2> HIDE DEF found
  <2>1. \E i \in found : \A j \in found : i <= j
    <3>1. CASE 1 \in found
      BY <1>1, <3>1
    <3>2. CASE 1 \notin found
      <4>1. found = {2}
        BY <1>1, <1>3, <3>2
      <4> QED
        BY <4>1
    <3> QED
      BY <3>1, <3>2
  <2> QED
    BY <1>2, <1>3, <2>1
<1> QED
  BY <1>1, <1>4

\* Around a circle, a property changes an even number of times.
LEMMA ChangesAreEven ==
  ASSUME NEW n \in Nat \ {0}, NEW c \in [1 .. n -> BOOLEAN]
  PROVE  Cardinality({i \in 1 .. n : c[i] # c[IF i = 1 THEN n ELSE i - 1]}) % 2 = 0
<1> DEFINE S(m) == {i \in 2 .. m : c[i] # c[i - 1]}
           Even(m) == IF c[m] = c[1] THEN 0 ELSE 1
           T == {m \in Nat : m + 1 <= n =>
                   /\ IsFiniteSet(S(m + 1)) /\ S(m + 1) \subseteq 2 .. (m + 1)
                   /\ Cardinality(S(m + 1)) \in Nat
                   /\ Cardinality(S(m + 1)) % 2 = Even(m + 1)}
<1>1. 0 \in T
  <2>1. S(0 + 1) = {} /\ Even(0 + 1) = 0
    OBVIOUS
  <2>2. IsFiniteSet({}) /\ Cardinality({}) = 0
    BY FS_EmptySet
  <2>3. /\ IsFiniteSet(S(0 + 1)) /\ S(0 + 1) \subseteq 2 .. (0 + 1)
        /\ Cardinality(S(0 + 1)) \in Nat
    <3> HIDE DEF S
    <3>1. IsFiniteSet(S(0 + 1)) /\ Cardinality(S(0 + 1)) = 0
      BY <2>1, <2>2
    <3>2. S(0 + 1) \subseteq 2 .. (0 + 1)
      BY <2>1
    <3> QED BY <3>1, <3>2
  <2>4. Cardinality(S(0 + 1)) % 2 = Even(0 + 1)
    <3> HIDE DEF S, Even
    <3> QED BY <2>1, <2>2
  <2> HIDE DEF S, Even
  <2> QED BY <2>3, <2>4
<1>2. ASSUME NEW m \in Nat, m \in T PROVE m + 1 \in T
  <2> SUFFICES ASSUME m + 2 <= n
               PROVE  /\ IsFiniteSet(S(m + 2)) /\ S(m + 2) \subseteq 2 .. (m + 2)
                      /\ Cardinality(S(m + 2)) \in Nat
                      /\ Cardinality(S(m + 2)) % 2 = Even(m + 2)
    <3>1. m + 1 + 1 = m + 2 /\ m + 1 \in Nat
      OBVIOUS
    <3> HIDE DEF S, Even
    <3> QED BY <3>1
  <2>1. /\ IsFiniteSet(S(m + 1)) /\ S(m + 1) \subseteq 2 .. (m + 1)
        /\ Cardinality(S(m + 1)) \in Nat
        /\ Cardinality(S(m + 1)) % 2 = Even(m + 1)
    BY <1>2
  <2>2. m + 2 \notin S(m + 1)
    OBVIOUS
  <2>3. S(m + 2) = IF c[m + 2] # c[m + 1] THEN S(m + 1) \cup {m + 2} ELSE S(m + 1)
    OBVIOUS
  <2>4. m + 2 \in 1 .. n /\ m + 1 \in 1 .. n /\ 1 \in 1 .. n
    OBVIOUS
  <2>5. c[m + 2] \in BOOLEAN /\ c[m + 1] \in BOOLEAN /\ c[1] \in BOOLEAN
    BY <2>4
  <2> HIDE DEF S
  <2>6. CASE c[m + 2] # c[m + 1]
    <3>1. Cardinality(S(m + 2)) = Cardinality(S(m + 1)) + 1 /\ IsFiniteSet(S(m + 2))
      BY <2>1, <2>2, <2>3, <2>6, FS_AddElement
    <3>2. Even(m + 2) = 1 - Even(m + 1)
      BY <2>5, <2>6
    <3>3. Even(m + 1) \in {0, 1}
      OBVIOUS
    <3>4. S(m + 2) \subseteq 2 .. (m + 2)
      BY <2>1, <2>3
    <3> HIDE DEF Even
    <3> QED BY <2>1, <3>1, <3>2, <3>3, <3>4
  <2>7. CASE c[m + 2] = c[m + 1]
    <3>1. S(m + 2) = S(m + 1) /\ Even(m + 2) = Even(m + 1)
      BY <2>3, <2>7
    <3>2. 2 .. (m + 1) \subseteq 2 .. (m + 2)
      OBVIOUS
    <3> QED BY <2>1, <3>1, <3>2
  <2> QED BY <2>6, <2>7
<1>3. n - 1 \in T
  <2>1. Nat \subseteq T
    <3> HIDE DEF T
    <3> QED BY <1>1, <1>2, EveryNumber
  <2> HIDE DEF T
  <2> QED BY <2>1
<1>4. n - 1 + 1 = n
  OBVIOUS
<1>5. /\ IsFiniteSet(S(n)) /\ S(n) \subseteq 2 .. n /\ Cardinality(S(n)) \in Nat
      /\ Cardinality(S(n)) % 2 = Even(n)
  <2> HIDE DEF S, Even
  <2> QED BY <1>3, <1>4
<1> DEFINE all == {i \in 1 .. n : c[i] # c[IF i = 1 THEN n ELSE i - 1]}
<1>6. all = IF c[1] # c[n] THEN S(n) \cup {1} ELSE S(n)
  OBVIOUS
<1>7. 1 \notin S(n)
  OBVIOUS
<1>8. CASE c[1] # c[n]
  <2>1. Cardinality(S(n) \cup {1}) = Cardinality(S(n)) + 1
    BY <1>5, <1>7, FS_AddElement
  <2>2. Even(n) = 1
    BY <1>8
  <2> HIDE DEF S, Even, all
  <2>3. Cardinality(all) = Cardinality(S(n)) + 1
    BY <1>6, <1>8, <2>1
  <2>4. Cardinality(all) % 2 = 0
    BY <1>5, <2>2, <2>3
  <2> QED BY <2>4 DEF all
<1>9. CASE c[1] = c[n]
  <2>1. Even(n) = 0
    BY <1>9
  <2> HIDE DEF S, Even, all
  <2>2. Cardinality(all) % 2 = 0
    BY <1>5, <1>6, <1>9, <2>1
  <2> QED BY <2>2 DEF all
<1> QED BY <1>8, <1>9

\* A weighted mean of two numbers that are not negative is not negative.
LEMMA MeanOfEnds ==
  ASSUME NEW A \in Int, NEW B \in Int, NEW C \in Int,
         NEW l1 \in Int, NEW l2 \in Int, NEW h1 \in Int, NEW h2 \in Int, NEW y \in Int,
         l2 <= y, y < h2, A * l1 + B * l2 + C >= 0, A * h1 + B * h2 + C >= 0
  PROVE  A * ((h2 - y) * l1 + (y - l2) * h1) + (h2 - l2) * (B * y + C) >= 0
<1> DEFINE Tl == A * l1 + B * l2 + C
           Th == A * h1 + B * h2 + C
<1>1. A * ((h2 - y) * l1 + (y - l2) * h1) + (h2 - l2) * (B * y + C)
        = (h2 - y) * Tl + (y - l2) * Th
  BY Z3
<1>2. Tl \in Int /\ Tl >= 0 /\ Th \in Int /\ Th >= 0 /\ h2 - y \in Nat /\ y - l2 \in Nat
  OBVIOUS
<1>3. \A i, j \in Nat : i * j >= 0 /\ i * j \in Int
  BY Z3
<1>4. (h2 - y) * Tl >= 0 /\ (y - l2) * Th >= 0 /\ (h2 - y) * Tl \in Int /\ (y - l2) * Th \in Int
  <2> HIDE DEF Tl, Th
  <2> QED BY <1>2, <1>3
<1> HIDE DEF Tl, Th
<1> QED BY <1>1, <1>4
\* Where the height of a meets a straddling edge u, w: D times the meeting
\* point's longitude is X; that point is on the side of every line that both
\* ends are on.
LEMMA EdgeMeets ==
  ASSUME NEW a \in Point, NEW u \in Point, NEW w \in Point, Straddles(a, u, w)
  PROVE  \E D, X \in Int :
           /\ D > 0
           /\ LeftOf(a, u, w) <=> D * a[1] < X
           /\ \A A, B, C \in Int :
                A * u[1] + B * u[2] + C >= 0 /\ A * w[1] + B * w[2] + C >= 0
                  => A * X + D * (B * a[2] + C) >= 0
<1>1. /\ a[1] \in Int /\ a[2] \in Int /\ u[1] \in Int /\ u[2] \in Int
      /\ w[1] \in Int /\ w[2] \in Int
  BY DEF Point
<1> DEFINE X(l, h) == (h[2] - a[2]) * l[1] + (a[2] - l[2]) * h[1]
<1>2. CASE u[2] <= a[2] /\ a[2] < w[2]
  <2>1. X(u, w) \in Int /\ w[2] - u[2] \in Int /\ w[2] - u[2] > 0
    BY <1>1, <1>2
  <2>2. LeftOf(a, u, w)
          <=> (a[1] - u[1]) * (w[2] - u[2]) < (w[1] - u[1]) * (a[2] - u[2])
    BY <1>1, <2>1 DEF LeftOf
  <2>3. X(u, w) - (w[2] - u[2]) * a[1]
          = (w[1] - u[1]) * (a[2] - u[2]) - (a[1] - u[1]) * (w[2] - u[2])
    BY <1>1, Z3
  <2>4. LeftOf(a, u, w) <=> (w[2] - u[2]) * a[1] < X(u, w)
    <3> DEFINE p == (a[1] - u[1]) * (w[2] - u[2])
               q == (w[1] - u[1]) * (a[2] - u[2])
               x == X(u, w)
               y == (w[2] - u[2]) * a[1]
    <3>1. p \in Int /\ q \in Int /\ x \in Int /\ y \in Int
      BY <1>1
    <3>2. (LeftOf(a, u, w) <=> p < q) /\ x - y = q - p
      BY <2>2, <2>3
    <3> HIDE DEF p, q, x, y
    <3>3. p < q <=> y < x
      BY <3>1, <3>2
    <3>4. LeftOf(a, u, w) <=> y < x
      BY <3>2, <3>3, Zenon
    <3> QED BY <3>4 DEF x, y
  <2>5. ASSUME NEW A \in Int, NEW B \in Int, NEW C \in Int,
               A * u[1] + B * u[2] + C >= 0, A * w[1] + B * w[2] + C >= 0
        PROVE  A * X(u, w) + (w[2] - u[2]) * (B * a[2] + C) >= 0
    BY <1>1, <1>2, <2>5, MeanOfEnds
  <2> HIDE DEF X
  <2> QED BY <2>1, <2>4, <2>5
<1>3. CASE w[2] <= a[2] /\ a[2] < u[2]
  <2>1. X(w, u) \in Int /\ u[2] - w[2] \in Int /\ u[2] - w[2] > 0
    BY <1>1, <1>3
  <2>2. LeftOf(a, u, w)
          <=> (a[1] - u[1]) * (w[2] - u[2]) > (w[1] - u[1]) * (a[2] - u[2])
    BY <1>1, <2>1 DEF LeftOf
  <2>3. X(w, u) - (u[2] - w[2]) * a[1]
          = (a[1] - u[1]) * (w[2] - u[2]) - (w[1] - u[1]) * (a[2] - u[2])
    BY <1>1, Z3
  <2>4. LeftOf(a, u, w) <=> (u[2] - w[2]) * a[1] < X(w, u)
    <3> DEFINE p == (a[1] - u[1]) * (w[2] - u[2])
               q == (w[1] - u[1]) * (a[2] - u[2])
               x == X(w, u)
               y == (u[2] - w[2]) * a[1]
    <3>1. p \in Int /\ q \in Int /\ x \in Int /\ y \in Int
      BY <1>1
    <3>2. (LeftOf(a, u, w) <=> p > q) /\ x - y = p - q
      BY <2>2, <2>3
    <3> HIDE DEF p, q, x, y
    <3>3. p > q <=> y < x
      BY <3>1, <3>2
    <3>4. LeftOf(a, u, w) <=> y < x
      BY <3>2, <3>3, Zenon
    <3> QED BY <3>4 DEF x, y
  <2>5. ASSUME NEW A \in Int, NEW B \in Int, NEW C \in Int,
               A * u[1] + B * u[2] + C >= 0, A * w[1] + B * w[2] + C >= 0
        PROVE  A * X(w, u) + (u[2] - w[2]) * (B * a[2] + C) >= 0
    BY <1>1, <1>3, <2>5, MeanOfEnds
  <2> HIDE DEF X
  <2> QED BY <2>1, <2>4, <2>5
<1> QED BY <1>1, <1>2, <1>3 DEF Straddles

\* A point between two points of a height, both on the side of a line.
LEMMA Between ==
  ASSUME NEW A \in Int, NEW S \in Int, NEW x \in Int,
         NEW D \in Int, NEW X \in Int, D > 0, D * x < X, A * X + D * S >= 0,
         NEW E \in Int, NEW Y \in Int, E > 0, ~(E * x < Y), A * Y + E * S >= 0
  PROVE  A * x + S >= 0
<1>1. \A i, m, n \in Int : i >= 0 /\ m >= n => i * m >= i * n /\ i * m \in Int /\ i * n \in Int
  BY Z3
<1>2. \A i, m \in Int : i > 0 /\ i * m >= 0 => m >= 0
  BY Z3
<1>3. CASE A >= 0
  <2>1. A * (E * x) >= A * Y
    BY <1>1, <1>3
  <2>2. E * (A * x + S) = A * (E * x) + E * S
    BY Z3
  <2>3. A * (E * x) \in Int /\ A * Y \in Int /\ E * S \in Int
    OBVIOUS
  <2>4. E * (A * x + S) >= 0
    BY <2>1, <2>2, <2>3
  <2> QED BY <1>2, <2>4
<1>4. CASE A < 0
  <2>1. (-A) * X >= (-A) * (D * x)
    BY <1>1, <1>4
  <2>2. (-A) * X = -(A * X) /\ (-A) * (D * x) = -(A * (D * x))
    BY Z3
  <2>3. D * (A * x + S) = A * (D * x) + D * S
    BY Z3
  <2>4. A * (D * x) \in Int /\ A * X \in Int /\ D * S \in Int
    OBVIOUS
  <2>5. D * (A * x + S) >= 0
    BY <2>1, <2>2, <2>3, <2>4
  <2> QED BY <1>2, <2>5
<1> QED BY <1>3, <1>4
\* Twice the area of a triangle, as a line through two of its corners sees it.
LEMMA TurnIsLine ==
  ASSUME NEW g \in {1, -1}, NEW b \in Point, NEW c \in Point
  PROVE  \E A, B, C \in Int :
           \A p \in Point : g * Turn(b, c, p) = A * p[1] + B * p[2] + C
<1> DEFINE A == g * (b[2] - c[2])
           B == g * (c[1] - b[1])
           C == g * ((c[2] - b[2]) * b[1] - (c[1] - b[1]) * b[2])
<1>1. b[1] \in Int /\ b[2] \in Int /\ c[1] \in Int /\ c[2] \in Int
  BY DEF Point
<1>2. A \in Int /\ B \in Int /\ C \in Int
  BY <1>1
<1>3. ASSUME NEW p \in Point
      PROVE  g * Turn(b, c, p) = A * p[1] + B * p[2] + C
  <2>1. p[1] \in Int /\ p[2] \in Int
    BY DEF Point
  <2>2. CASE g = 1
    BY <1>1, <2>1, <2>2, Z3 DEF Turn
  <2>3. CASE g = -1
    BY <1>1, <2>1, <2>3, Z3 DEF Turn
  <2> QED BY <2>2, <2>3
<1> HIDE DEF A, B, C
<1> QED BY <1>2, <1>3

\* Whoever the ray test finds in a convex ring is in it or on its border, for
\* any number of corners and at any latitude.
LEMMA ConvexServes ==
  ASSUME NEW a \in Point, NEW R \in Seq(Point), Convex(R), PointInRing(a, R)
  PROVE  Within(a, R)
<1> DEFINE n == Len(R)
           all == {i \in DOMAIN R : Straddles(a, R[i], Before(R, i))}
           met == {i \in DOMAIN R : Intersects(a, R[i], Before(R, i))}
<1>1. n \in Nat \ {0} /\ DOMAIN R = 1 .. n
  BY DEF PointInRing
<1>2. \A i \in DOMAIN R : R[i] \in Point /\ Before(R, i) \in Point
  BY <1>1 DEF Before
<1>3. Cardinality(met) % 2 = 1
  BY DEF PointInRing
<1>4. Cardinality(all) % 2 = 0
  <2> DEFINE c == [i \in 1 .. n |-> R[i][2] > a[2]]
             changes == {i \in 1 .. n : c[i] # c[IF i = 1 THEN n ELSE i - 1]}
  <2>1. c \in [1 .. n -> BOOLEAN]
    OBVIOUS
  <2>2. Cardinality(changes) % 2 = 0
    <3> HIDE DEF c
    <3> QED BY <1>1, <2>1, ChangesAreEven
  <2>3. ASSUME NEW i \in 1 .. n
        PROVE  Straddles(a, R[i], Before(R, i)) <=> c[i] # c[IF i = 1 THEN n ELSE i - 1]
    <3>1. CASE i = 1
      <4>1. c[i] = (R[i][2] > a[2]) /\ c[n] = (R[n][2] > a[2]) /\ Before(R, i) = R[n]
        BY <1>1, <3>1 DEF Before
      <4> QED BY <3>1, <4>1 DEF Straddles
    <3>2. CASE i # 1
      <4>1. i - 1 \in 1 .. n
        BY <3>2
      <4>2. c[i] = (R[i][2] > a[2]) /\ c[i - 1] = (R[i - 1][2] > a[2])
            /\ Before(R, i) = R[i - 1]
        BY <4>1, <3>2 DEF Before
      <4> QED BY <3>2, <4>2 DEF Straddles
    <3> QED BY <3>1, <3>2
  <2>4. all = changes
    BY <1>1, <2>3
  <2> HIDE DEF all, changes
  <2> QED BY <2>2, <2>4
<1>5. met \subseteq all
  BY DEF Intersects
<1>6. PICK i \in met : TRUE
  <2>1. met # {}
    <3> HIDE DEF met
    <3> QED BY <1>3, FS_EmptySet
  <2> QED BY <2>1
<1>7. PICK j \in all : j \notin met
  <2> HIDE DEF met, all
  <2>1. met # all
    BY <1>3, <1>4
  <2> QED BY <1>5, <2>1
<1>8. /\ i \in DOMAIN R /\ Straddles(a, R[i], Before(R, i)) /\ LeftOf(a, R[i], Before(R, i))
      /\ j \in DOMAIN R /\ Straddles(a, R[j], Before(R, j)) /\ ~LeftOf(a, R[j], Before(R, j))
  BY <1>5, <1>6, <1>7 DEF Intersects
<1>9. PICK g \in {1, -1} : \A k, l \in DOMAIN R : g * Turn(Before(R, k), R[k], R[l]) >= 0
  BY DEF Convex
<1>10. \A k, l \in DOMAIN R : g * Turn(Before(R, k), R[k], Before(R, l)) >= 0
  <2> SUFFICES ASSUME NEW k \in DOMAIN R, NEW l \in DOMAIN R
               PROVE  g * Turn(Before(R, k), R[k], Before(R, l)) >= 0
    OBVIOUS
  <2>1. PICK m \in DOMAIN R : Before(R, l) = R[m]
    BY <1>1 DEF Before
  <2> QED BY <1>9, <2>1
<1>11. ASSUME NEW l \in DOMAIN R, Straddles(a, R[l], Before(R, l))
       PROVE  \E D, X \in Int :
                /\ D > 0
                /\ LeftOf(a, R[l], Before(R, l)) <=> D * a[1] < X
                /\ \A A, B, C \in Int :
                     A * R[l][1] + B * R[l][2] + C >= 0
                     /\ A * Before(R, l)[1] + B * Before(R, l)[2] + C >= 0
                       => A * X + D * (B * a[2] + C) >= 0
  <2> DEFINE u == R[l]
             w == Before(R, l)
  <2>1. u \in Point /\ w \in Point /\ Straddles(a, u, w)
    BY <1>2, <1>11
  <2> HIDE DEF u, w
  <2>2. \E D, X \in Int :
           /\ D > 0
           /\ LeftOf(a, u, w) <=> D * a[1] < X
           /\ \A A, B, C \in Int :
                A * u[1] + B * u[2] + C >= 0 /\ A * w[1] + B * w[2] + C >= 0
                  => A * X + D * (B * a[2] + C) >= 0
    BY <2>1, EdgeMeets
  <2> QED BY <2>2 DEF u, w
<1>12. PICK D \in Int, X \in Int :
         /\ D > 0
         /\ LeftOf(a, R[i], Before(R, i)) <=> D * a[1] < X
         /\ \A A, B, C \in Int :
              A * R[i][1] + B * R[i][2] + C >= 0
              /\ A * Before(R, i)[1] + B * Before(R, i)[2] + C >= 0
                => A * X + D * (B * a[2] + C) >= 0
  BY <1>8, <1>11
<1>13. PICK E \in Int, Y \in Int :
         /\ E > 0
         /\ LeftOf(a, R[j], Before(R, j)) <=> E * a[1] < Y
         /\ \A A, B, C \in Int :
              A * R[j][1] + B * R[j][2] + C >= 0
              /\ A * Before(R, j)[1] + B * Before(R, j)[2] + C >= 0
                => A * Y + E * (B * a[2] + C) >= 0
  BY <1>8, <1>11
<1>14. D * a[1] < X /\ ~(E * a[1] < Y)
  BY <1>8, <1>12, <1>13
<1>15. ASSUME NEW k \in DOMAIN R
       PROVE  g * Turn(Before(R, k), R[k], a) >= 0
  <2>1. PICK A \in Int, B \in Int, C \in Int :
          \A p \in Point : g * Turn(Before(R, k), R[k], p) = A * p[1] + B * p[2] + C
    <3> DEFINE b == Before(R, k)
               c == R[k]
    <3>1. b \in Point /\ c \in Point
      BY <1>2
    <3> HIDE DEF b, c
    <3>2. \E A, B, C \in Int :
            \A p \in Point : g * Turn(b, c, p) = A * p[1] + B * p[2] + C
      BY <3>1, TurnIsLine
    <3> QED BY <3>2 DEF b, c
  <2>2. /\ A * R[i][1] + B * R[i][2] + C >= 0
        /\ A * Before(R, i)[1] + B * Before(R, i)[2] + C >= 0
        /\ A * R[j][1] + B * R[j][2] + C >= 0
        /\ A * Before(R, j)[1] + B * Before(R, j)[2] + C >= 0
    BY <1>2, <1>8, <1>9, <1>10, <2>1
  <2>3. A * X + D * (B * a[2] + C) >= 0 /\ A * Y + E * (B * a[2] + C) >= 0
    BY <1>12, <1>13, <2>2
  <2> DEFINE S == B * a[2] + C
             x == a[1]
  <2>4. S \in Int /\ x \in Int
    BY DEF Point
  <2>5. D > 0 /\ E > 0 /\ D * x < X /\ ~(E * x < Y) /\ A * X + D * S >= 0 /\ A * Y + E * S >= 0
    BY <1>12, <1>13, <1>14, <2>3
  <2>6. g * Turn(Before(R, k), R[k], a) = A * x + S
    <3>0. a[1] \in Int /\ a[2] \in Int
      BY DEF Point
    <3>1. A * a[1] \in Int /\ B * a[2] \in Int
      BY <3>0
    <3>2. g * Turn(Before(R, k), R[k], a) = A * a[1] + B * a[2] + C
      BY <2>1
    <3> QED BY <3>1, <3>2
  <2> HIDE DEF S, x
  <2>7. A * x + S >= 0
    BY <2>4, <2>5, Between
  <2> QED BY <2>6, <2>7
<1> QED BY <1>15 DEF Within

\* On which side of the i-th edge of R the point a is.
Side(a, R, i) == Turn(Before(R, i), R[i], a)

\* The sides of a rectangle.
LEMMA SidesOfRectangle ==
  ASSUME NEW a \in Point, NEW w \in Int, NEW s \in Int, NEW e \in Int, NEW n \in Int,
         NEW R, R = Rectangle(w, s, e, n)
  PROVE  /\ Side(a, R, 1) = 0
         /\ Side(a, R, 2) = (n - s) * (a[1] - w)
         /\ Side(a, R, 3) = (e - w) * (a[2] - s)
         /\ Side(a, R, 4) = (n - s) * (e - a[1])
         /\ Side(a, R, 5) = (e - w) * (n - a[2])
<1>1. a[1] \in Int /\ a[2] \in Int
  BY DEF Point
<1>2. /\ R[1] = <<w, n>> /\ R[2] = <<w, s>> /\ R[3] = <<e, s>> /\ R[4] = <<e, n>>
      /\ R[5] = <<w, n>> /\ Len(R) = 5
  BY DEF Rectangle
<1>3. /\ Before(R, 1) = <<w, n>> /\ Before(R, 2) = <<w, n>> /\ Before(R, 3) = <<w, s>>
      /\ Before(R, 4) = <<e, s>> /\ Before(R, 5) = <<e, n>>
  BY <1>2 DEF Before
<1>4. Turn(<<w, n>>, <<w, n>>, a) = 0
  BY <1>1 DEF Turn
<1>5. Turn(<<w, n>>, <<w, s>>, a) = (n - s) * (a[1] - w)
  BY <1>1 DEF Turn
<1>6. Turn(<<w, s>>, <<e, s>>, a) = (e - w) * (a[2] - s)
  BY <1>1 DEF Turn
<1>7. Turn(<<e, s>>, <<e, n>>, a) = (n - s) * (e - a[1])
  BY <1>1 DEF Turn
<1>8. Turn(<<e, n>>, <<w, n>>, a) = (e - w) * (n - a[2])
  BY <1>1 DEF Turn
<1>9. /\ Side(a, R, 1) = Turn(<<w, n>>, <<w, n>>, a)
      /\ Side(a, R, 2) = Turn(<<w, n>>, <<w, s>>, a)
      /\ Side(a, R, 3) = Turn(<<w, s>>, <<e, s>>, a)
      /\ Side(a, R, 4) = Turn(<<e, s>>, <<e, n>>, a)
      /\ Side(a, R, 5) = Turn(<<e, n>>, <<w, n>>, a)
  BY <1>2, <1>3 DEF Side
<1> QED
  BY <1>4, <1>5, <1>6, <1>7, <1>8, <1>9

\* A factor that is positive leaves the sign to the other.
LEMMA PositiveFactor ==
  ASSUME NEW m \in Int, m > 0, NEW n \in Int
  PROVE  /\ m * n > 0 <=> n > 0
         /\ m * n >= 0 <=> n >= 0
  BY Z3

\* The ray test finds whoever is in a rectangle and not on its border.
LEMMA RectangleFinds ==
  ASSUME NEW a \in Point, NEW w \in Int, NEW s \in Int, NEW e \in Int, NEW n \in Int,
         w < e, s < n
  PROVE  StrictlyWithin(a, Rectangle(w, s, e, n)) => PointInRing(a, Rectangle(w, s, e, n))
<1> DEFINE R == Rectangle(w, s, e, n)
<1>1. a[1] \in Int /\ a[2] \in Int
  BY DEF Point
<1>2. PointInRing(a, R) <=> w <= a[1] /\ a[1] < e /\ s <= a[2] /\ a[2] < n
  BY RectangleContains
<1>3. DOMAIN R = 1 .. 5
  BY DEF Rectangle
<1>4. /\ Side(a, R, 1) = 0
      /\ Side(a, R, 2) = (n - s) * (a[1] - w)
      /\ Side(a, R, 3) = (e - w) * (a[2] - s)
      /\ Side(a, R, 4) = (n - s) * (e - a[1])
      /\ Side(a, R, 5) = (e - w) * (n - a[2])
  BY SidesOfRectangle
<1>5. Before(R, 2) # R[2] /\ Before(R, 3) # R[3] /\ Before(R, 4) # R[4] /\ Before(R, 5) # R[5]
  BY DEF R, Rectangle, Before
<1> HIDE DEF R
<1>6. /\ (n - s) * (a[1] - w) > 0 <=> w < a[1]
      /\ (n - s) * (a[1] - w) >= 0 <=> w <= a[1]
  <2>1. n - s \in Int /\ n - s > 0 /\ a[1] - w \in Int
    BY <1>1
  <2>2. /\ (n - s) * (a[1] - w) > 0 <=> a[1] - w > 0
        /\ (n - s) * (a[1] - w) >= 0 <=> a[1] - w >= 0
    BY <2>1, PositiveFactor
  <2> QED
    BY <1>1, <2>2
<1>7. /\ (e - w) * (a[2] - s) > 0 <=> s < a[2]
      /\ (e - w) * (a[2] - s) >= 0 <=> s <= a[2]
  <2>1. e - w \in Int /\ e - w > 0 /\ a[2] - s \in Int
    BY <1>1
  <2>2. /\ (e - w) * (a[2] - s) > 0 <=> a[2] - s > 0
        /\ (e - w) * (a[2] - s) >= 0 <=> a[2] - s >= 0
    BY <2>1, PositiveFactor
  <2> QED
    BY <1>1, <2>2
<1>8. /\ (n - s) * (e - a[1]) > 0 <=> a[1] < e
      /\ (n - s) * (e - a[1]) >= 0 <=> a[1] <= e
  <2>1. n - s \in Int /\ n - s > 0 /\ e - a[1] \in Int
    BY <1>1
  <2>2. /\ (n - s) * (e - a[1]) > 0 <=> e - a[1] > 0
        /\ (n - s) * (e - a[1]) >= 0 <=> e - a[1] >= 0
    BY <2>1, PositiveFactor
  <2> QED
    BY <1>1, <2>2
<1>9. /\ (e - w) * (n - a[2]) > 0 <=> a[2] < n
      /\ (e - w) * (n - a[2]) >= 0 <=> a[2] <= n
  <2>1. e - w \in Int /\ e - w > 0 /\ n - a[2] \in Int
    BY <1>1
  <2>2. /\ (e - w) * (n - a[2]) > 0 <=> n - a[2] > 0
        /\ (e - w) * (n - a[2]) >= 0 <=> n - a[2] >= 0
    BY <2>1, PositiveFactor
  <2> QED
    BY <1>1, <2>2
<1> DEFINE A == (n - s) * (a[1] - w)
           B == (e - w) * (a[2] - s)
           C == (n - s) * (e - a[1])
           D == (e - w) * (n - a[2])
<1>10. A \in Int /\ B \in Int /\ C \in Int /\ D \in Int
  BY <1>1
<1>11. /\ A > 0 <=> w < a[1]
       /\ A >= 0 <=> w <= a[1]
       /\ B > 0 <=> s < a[2]
       /\ B >= 0 <=> s <= a[2]
       /\ C > 0 <=> a[1] < e
       /\ C >= 0 <=> a[1] <= e
       /\ D > 0 <=> a[2] < n
       /\ D >= 0 <=> a[2] <= n
  BY <1>6, <1>7, <1>8, <1>9
<1>12. /\ Side(a, R, 1) = 0 /\ Side(a, R, 2) = A /\ Side(a, R, 3) = B
       /\ Side(a, R, 4) = C /\ Side(a, R, 5) = D
  BY <1>4
<1> HIDE DEF A, B, C, D
<1>13. ASSUME StrictlyWithin(a, R) PROVE PointInRing(a, R)
  <2>1. PICK g \in {1, -1} : \A i \in DOMAIN R : Before(R, i) # R[i] => g * Side(a, R, i) > 0
    BY <1>13 DEF StrictlyWithin, Side
  <2>2. /\ g * Side(a, R, 2) > 0 /\ g * Side(a, R, 3) > 0
        /\ g * Side(a, R, 4) > 0 /\ g * Side(a, R, 5) > 0
    BY <1>3, <1>5, <2>1
  <2>3. g * A > 0 /\ g * B > 0 /\ g * C > 0 /\ g * D > 0
    BY <1>12, <2>2
  <2>4. CASE g = 1
    <3>1. A > 0 /\ B > 0 /\ C > 0 /\ D > 0
      BY <1>10, <2>3, <2>4
    <3> QED
      BY <1>1, <1>2, <1>11, <3>1
  <2>5. CASE g = -1
    <3>1. ~(B >= 0) /\ ~(D >= 0)
      BY <1>10, <2>3, <2>5
    <3> QED
      BY <1>1, <1>11, <3>1
  <2> QED
    BY <2>4, <2>5
<1> QED
  BY <1>13 DEF R

\* Three corners of a ring of five.
LEMMA Corners ==
  ASSUME NEW R \in Seq(Point), Len(R) = 5
  PROVE  R[1] \in Point /\ R[2] \in Point /\ R[3] \in Point
  OBVIOUS

\* Whoever a zone is found for is served by it (ContainsAnyWithIndex): for any
\* polygons with convex borders and rectangular holes, the shop's among them.
THEOREM ZonesServe == \A p \in Places : ZoneAt(p) # 0 => Serves(ZoneAt(p), p)
<1> SUFFICES ASSUME NEW p \in Places, ZoneAt(p) # 0
             PROVE  Serves(ZoneAt(p), p)
  OBVIOUS
<1> DEFINE i == ZoneAt(p)
           a == Coordinates[p]
<1>1. a \in Point
  BY CoordinatesAssumption
<1>2. i \in DOMAIN Files /\ IsPointInGeoJSON(Files[i], a)
  BY ZoneFinds
<1>3. PICK f \in DOMAIN Files[i] : PointInPolygon(a, Files[i][f])
  BY <1>2 DEF IsPointInGeoJSON
<1> DEFINE rings == Files[i][f]
<1>4. rings \in Seq(Seq(Point))
  BY <1>2, <1>3, FilesAssumption
<1>5. /\ Len(rings) \in Nat \ {0} /\ \A k \in 1 .. Len(rings) : rings[k] \in Seq(Point)
      /\ PointInRing(a, rings[1]) /\ \A k \in 2 .. Len(rings) : ~PointInRing(a, rings[k])
  BY <1>3, <1>4 DEF PointInPolygon
<1>6. /\ Convex(rings[1])
      /\ \A k \in 2 .. Len(rings) : IsRectangle(rings[k])
  <2>1. \A k \in 1 .. Len(rings) : IF k = 1 THEN Convex(rings[k]) ELSE IsRectangle(rings[k])
    BY <1>2, <1>3, ShapesAssumption
  <2> HIDE DEF rings
  <2> QED
    BY <1>5, <2>1
<1> HIDE DEF a, rings
<1>7. Within(a, rings[1])
  <2>1. rings[1] \in Seq(Point)
    BY <1>5
  <2> QED
    BY <1>1, <1>5, <1>6, <2>1, ConvexServes
<1>8. ASSUME NEW k \in 2 .. Len(rings)
      PROVE  ~StrictlyWithin(a, rings[k])
  <2> DEFINE R == rings[k]
             w == R[1][1]
             s == R[2][2]
             e == R[3][1]
             n == R[1][2]
  <2>1. IsRectangle(R) /\ ~PointInRing(a, R) /\ R \in Seq(Point)
    BY <1>5, <1>6
  <2> HIDE DEF R
  <2>2. Len(R) = 5 /\ w < e /\ s < n /\ R = Rectangle(w, s, e, n)
    BY <2>1 DEF IsRectangle
  <2>3. R[1] \in Point /\ R[2] \in Point /\ R[3] \in Point
    <3>1. R \in Seq(Point) /\ Len(R) = 5
      BY <2>1, <2>2
    <3> QED
      BY <3>1, Corners
  <2>4. w \in Int /\ s \in Int /\ e \in Int /\ n \in Int
    BY <2>3 DEF Point
  <2> HIDE DEF w, s, e, n
  <2> QED
    BY <1>1, <2>1, <2>2, <2>4, RectangleFinds DEF R
<1> QED
  BY <1>3, <1>7, <1>8 DEF Serves, a, rings

----------------------------------------------------------------------------
(* What the shop promises                                                  *)

\* A delivery goes where a zone of the shop is, and is worth that zone's
\* minimum at the prices that the order stores (Create): for any zones with
\* convex borders, any minimum and fee, and any prices, however they move while
\* orders are placed.
THEOREM MinimumIsMet == GatewaySpec => []MinimumMet
<1>1. PricingInv => MinimumMet
  <2> SUFFICES ASSUME PricingInv, NEW o \in Order, Placed(o), orders[o].place # "pickup"
               PROVE  \E i \in {1, 2} :
                        /\ Serves(i, orders[o].place)
                        /\ ItemsTotal(orders[o]) >= Least(i)
                        /\ orders[o].fee = IF i = 2 THEN OhangaronFee ELSE 0
    BY DEF MinimumMet
  <2> DEFINE p == orders[o].place
             z == ZoneAt(p)
  <2>1. RowOK(orders[o])
    BY DEF PricingInv, OrdersOK, Placed
  <2>2. /\ p \in Places /\ z # 0
        /\ ItemsTotal(orders[o]) >= Minimum(p) /\ orders[o].fee = Fee(p)
    BY <2>1 DEF RowOK, Deliverable, Spots
  <2>3. z \in {1, 2} /\ Serves(z, p)
    BY <2>2, ZoneFinds, ZonesServe
  <2>4. Zone(p) = z
    BY DEF Zone
  <2>5. Minimum(p) = Least(z) /\ Fee(p) = IF z = 2 THEN OhangaronFee ELSE 0
    BY <2>4 DEF Minimum, Fee
  <2> QED
    BY <2>2, <2>3, <2>5
<1> QED
  BY <1>1, PricingInvariant, PTL

\* iiko is told to collect what the client was charged, less the delivery,
\* unless a price changed or could not be read in between (Create,
\* CreateTransaction or Prepare, SendToIikoIfAllowed).
THEOREM ToldWhatWasCharged == GatewaySpec => []IikoToldWhatWasCharged
<1>1. PricingInv => IikoToldWhatWasCharged
  <2> SUFFICES ASSUME PricingInv, NEW o \in Order \ drifted, NEW t \in kitchen[o],
                      NEW k \in charged[o]
               PROVE  k = [som |-> t.sum + t.fee, tiyin |-> 0]
    BY DEF IikoToldWhatWasCharged
  <2>1. t = TicketNow(rows, orders[o]) /\ k = ChargeNow(rows, orders[o])
    BY DEF PricingInv, KitchenOK, ChargedOK
  <2>2. RowOK(orders[o])
    BY DEF PricingInv, KitchenOK, OrdersOK, Placed
  <2>3. orders[o].place = "pickup" => orders[o].fee = 0
    BY <2>2 DEF RowOK, Fee, Zone
  <2>4. t.sum = Worth(rows, orders[o].qty) /\ t.fee = orders[o].fee
    BY <2>1, <2>3 DEF TicketNow, FeeOf
  <2> QED
    BY <2>1, <2>4 DEF ChargeNow
<1> QED
  BY <1>1, PricingInvariant, PTL

\* What an order is worth, added up by what is asked for: products are asked
\* for as lines, and as the boxes of lines.
LEMMA WorthByItem ==
  ASSUME NEW t, TableOK(t), NEW q \in [Product -> Nat], AllCosted(t, q)
  PROVE  Worth(t, q)
           = SumFunction([p \in {l \in Product : ItemsOf(t, q)[l] > 0} |->
                            ItemsOf(t, q)[p] * CostIn(t, p)])
<1> DEFINE L == Lines(q)
           X == Boxed(t, q)
           asked == ItemsOf(t, q)
           A == {l \in Product : asked[l] > 0}
           w == [p \in Product |-> IF CostedIn(t, p) THEN CostIn(t, p) ELSE 0]
           k == [l \in X |-> t[l].box]
           n(p) == SumFunctionOnSet(q, {l \in X : k[l] = p})
           f == [p \in Product |-> q[p] * w[p]]
           g == Grouped(q, k, w, Product, X)
           h == [p \in Product |-> asked[p] * w[p]]
           fL == [p \in L |-> CostIn(t, p) * q[p]]
           gX == [p \in X |-> CostIn(t, t[p].box) * q[p]]
           hA == [p \in A |-> asked[p] * CostIn(t, p)]
<1>1. /\ L \in SUBSET Product /\ X \in SUBSET Product /\ A \in SUBSET Product
      /\ X \subseteq L
      /\ IsFiniteSet(L) /\ IsFiniteSet(X) /\ IsFiniteSet(A) /\ IsFiniteSet(Product)
  <2>1. L \in SUBSET Product /\ X \in SUBSET Product /\ A \in SUBSET Product /\ X \subseteq L
    BY DEF Lines, Boxed
  <2> HIDE DEF L, X, A
  <2> QED
    BY <2>1, SomeProducts
<1>2. \A p \in Product : q[p] \in Nat /\ (p \in L <=> q[p] > 0)
  BY DEF Lines
<1>3. \A p \in Product : /\ w[p] \in Nat
                         /\ CostedIn(t, p) => w[p] = CostIn(t, p) /\ CostIn(t, p) \in Nat
  BY CostType
<1>4. /\ \A p \in L : CostedIn(t, p)
      /\ \A l \in X : t[l].box \in Product /\ CostedIn(t, t[l].box)
  BY <1>1, CostType DEF AllCosted, Boxed
<1>5. k \in [X -> Product]
  BY <1>4
<1>6. \A p \in Product : n(p) \in Nat /\ (n(p) > 0 => \E l \in X : t[l].box = p)
  <2> SUFFICES ASSUME NEW p \in Product
               PROVE  n(p) \in Nat /\ (n(p) > 0 => \E l \in X : t[l].box = p)
    OBVIOUS
  <2> DEFINE D == {l \in X : k[l] = p}
  <2>1. D \in SUBSET Product /\ \A l \in D : l \in X /\ t[l].box = p
    BY <1>1
  <2>2. n(p) = SumFunctionOnSet(q, D)
    OBVIOUS
  <2> HIDE DEF D, n, X
  <2>3. IsFiniteSet(D) /\ Numbers(q, D)
    BY <1>2, <2>1, SomeProducts DEF Numbers
  <2>4. n(p) \in Nat
    BY <2>2, <2>3, SumType
  <2>5. n(p) > 0 => D # {}
    BY <2>2, SumNothing
  <2> QED
    BY <2>1, <2>4, <2>5
<1>7. \A p \in Product : asked[p] = q[p] + n(p)
  <2> SUFFICES ASSUME NEW p \in Product PROVE asked[p] = q[p] + n(p)
    OBVIOUS
  <2>1. {l \in X : k[l] = p} = {l \in Boxed(t, q) : t[l].box = p}
    OBVIOUS
  <2> QED
    BY <2>1 DEF ItemsOf
<1>8. \A p \in Product : g[p] = n(p) * w[p]
  BY DEF Grouped
<1> HIDE DEF n, asked
<1>9. \A a, b, c \in Nat : /\ a * c \in Nat /\ (a + b) * c = a * c + b * c
                           /\ a * c = c * a
  BY Z3
<1>10. \A p \in Product : f[p] \in Nat /\ g[p] \in Nat /\ h[p] = f[p] + g[p] /\ h[p] \in Nat
  <2> SUFFICES ASSUME NEW p \in Product
               PROVE  f[p] \in Nat /\ g[p] \in Nat /\ h[p] = f[p] + g[p] /\ h[p] \in Nat
    OBVIOUS
  <2>1. f[p] = q[p] * w[p] /\ g[p] = n(p) * w[p] /\ h[p] = (q[p] + n(p)) * w[p]
    BY <1>7, <1>8
  <2>2. q[p] \in Nat /\ w[p] \in Nat /\ n(p) \in Nat
    BY <1>2, <1>3, <1>6
  <2>3. q[p] * w[p] \in Nat /\ n(p) * w[p] \in Nat
        /\ (q[p] + n(p)) * w[p] = q[p] * w[p] + n(p) * w[p]
    <3> HIDE DEF w
    <3> QED
      BY <1>9, <2>2
  <2> HIDE DEF f, g, h, w
  <2> QED
    BY <2>1, <2>3
<1>11. \A p \in A : h[p] = hA[p]
  <2> SUFFICES ASSUME NEW p \in A PROVE h[p] = hA[p]
    OBVIOUS
  <2>1. p \in Product /\ q[p] + n(p) > 0
    BY <1>7
  <2>2. CASE q[p] > 0
    BY <1>2, <1>3, <1>4, <2>1, <2>2
  <2>3. CASE q[p] = 0
    <3>1. n(p) > 0
      BY <1>6, <2>1, <2>3
    <3>2. CostedIn(t, p)
      BY <1>4, <1>6, <2>1, <3>1
    <3> QED
      BY <1>3, <2>1, <3>2
  <2> QED
    BY <1>2, <2>1, <2>2, <2>3
<1>12. \A p \in Product \ A : h[p] = 0
  BY <1>2, <1>3, <1>6, <1>7
<1>13. \A p \in L : f[p] = fL[p]
  BY <1>1, <1>2, <1>3, <1>4, <1>9
<1>14. \A p \in Product \ L : f[p] = 0
  BY <1>2, <1>3
<1> DEFINE v == Valued(q, k, w, X)
<1>15. \A p \in X : v[p] = gX[p] /\ v[p] \in Nat
  <2> SUFFICES ASSUME NEW p \in X PROVE v[p] = gX[p] /\ v[p] \in Nat
    OBVIOUS
  <2>1. v[p] = q[p] * w[t[p].box] /\ gX[p] = CostIn(t, t[p].box) * q[p]
    BY DEF Valued
  <2>2. w[t[p].box] = CostIn(t, t[p].box) /\ w[t[p].box] \in Nat /\ q[p] \in Nat
    BY <1>1, <1>2, <1>3, <1>4
  <2> QED
    BY <1>9, <2>1, <2>2
<1>16. /\ DOMAIN fL = L /\ DOMAIN gX = X /\ DOMAIN hA = A
       /\ Worth(t, q) = SumFunction(fL) + SumFunction(gX)
  BY DEF Worth
<1>17. Numbers(q, X) /\ Numbers(w, Product)
  BY <1>1, <1>2, <1>3 DEF Numbers
<1>18. SumFunctionOnSet(g, Product) = SumFunctionOnSet(v, X)
  <2> HIDE DEF w, k, X
  <2> QED
    BY <1>1, <1>5, <1>17, SumByGroup
<1> HIDE DEF f, g, h, v, fL, gX, hA, A, L, X
<1>19. SumFunctionOnSet(h, Product) = SumFunctionOnSet(f, Product) + SumFunctionOnSet(g, Product)
  <2>1. Numbers(f, Product) /\ Numbers(g, Product)
    BY <1>10 DEF Numbers
  <2> QED
    BY <1>1, <1>10, <2>1, SumPlus
<1>20. SumFunctionOnSet(h, Product) = SumFunction(hA)
  <2>1. Numbers(h, Product) /\ Numbers(h, A)
    BY <1>1, <1>10 DEF Numbers
  <2>2. SumFunctionOnSet(h, Product) = SumFunctionOnSet(h, A)
    BY <1>1, <1>12, <2>1, SumZeros
  <2>3. SumFunctionOnSet(h, A) = SumFunctionOnSet(hA, A)
    BY <1>1, <1>11, <2>1, SumAlike
  <2> QED
    BY <1>16, <2>2, <2>3, SumOfAll
<1>21. SumFunctionOnSet(f, Product) = SumFunction(fL)
  <2>1. Numbers(f, Product) /\ Numbers(f, L)
    BY <1>1, <1>10 DEF Numbers
  <2>2. SumFunctionOnSet(f, Product) = SumFunctionOnSet(f, L)
    BY <1>1, <1>14, <2>1, SumZeros
  <2>3. SumFunctionOnSet(f, L) = SumFunctionOnSet(fL, L)
    BY <1>1, <1>13, <2>1, SumAlike
  <2> QED
    BY <1>16, <2>2, <2>3, SumOfAll
<1>22. SumFunctionOnSet(v, X) = SumFunction(gX)
  <2>1. Numbers(v, X)
    BY <1>15 DEF Numbers
  <2>2. SumFunctionOnSet(v, X) = SumFunctionOnSet(gX, X)
    BY <1>1, <1>15, <2>1, SumAlike
  <2> QED
    BY <1>16, <2>2, SumOfAll
<1> QED
  BY <1>16, <1>18, <1>19, <1>20, <1>21, <1>22 DEF hA, A, asked

\* The sum that iiko is told is that of the items it is asked for, products
\* and boxes as often as they are asked for, unless a price moved in between
\* (buildCreateOrderForIiko).
THEOREM TicketAddsUp == GatewaySpec => []SumCoversItems
<1>1. PricingInv /\ GatewayInv => SumCoversItems
  <2> SUFFICES ASSUME PricingInv, GatewayInv, NEW o \in Order \ drifted,
                      NEW k \in kitchen[o]
               PROVE  k.sum = SumFunction([p \in {l \in Product : k.items[l] > 0} |->
                                             k.items[p] * Cost(p)])
    BY DEF SumCoversItems
  <2> DEFINE row == orders[o]
             q == row.qty
  <2>1. k = TicketNow(rows, row) /\ RowOK(row) /\ RowIsNow(rows, row) /\ TableOK(rows)
    BY DEF PricingInv, KitchenOK, OrdersOK, Placed, GatewayInv, CatalogueTypeOK, TableOK
  <2>2. q \in [Product -> Nat] /\ AllCosted(rows, q)
    BY <2>1 DEF RowOK, Priced, RowIsNow
  <2>3. k.sum = Worth(rows, q) /\ k.items = ItemsOf(rows, q)
    BY <2>1 DEF TicketNow
  <2>4. \A p : Cost(p) = CostIn(rows, p)
    BY DEF Cost, CostIn
  <2> HIDE DEF row, q
  <2>5. Worth(rows, q)
          = SumFunction([p \in {l \in Product : ItemsOf(rows, q)[l] > 0} |->
                           ItemsOf(rows, q)[p] * CostIn(rows, p)])
    BY <2>1, <2>2, WorthByItem
  <2> QED
    BY <2>3, <2>4, <2>5
<1> QED
  BY <1>1, GatewayInvariant, PricingInvariant, PTL

----------------------------------------------------------------------------
(* Boxes come along                                                        *)

\* Fewer numbers add up to less.
LEMMA SumOfSome ==
  ASSUME NEW f, NEW S, IsFiniteSet(S), Numbers(f, S), NEW D \in SUBSET S
  PROVE  SumFunctionOnSet(f, D) <= SumFunctionOnSet(f, S)
<1> DEFINE g == [x \in S |-> IF x \in D THEN f[x] ELSE 0]
           h == [x \in S |-> IF x \in D THEN 0 ELSE f[x]]
<1>1. Numbers(g, S) /\ Numbers(h, S)
  BY DEF Numbers
<1>2. \A x \in S : f[x] = g[x] + h[x]
  BY DEF Numbers
<1>3. /\ \A x \in S \ D : g[x] = 0
      /\ \A x \in D : f[x] = g[x]
  OBVIOUS
<1>4. IsFiniteSet(D) /\ Numbers(f, D)
  BY FS_Subset DEF Numbers
<1> HIDE DEF g, h
<1>5. SumFunctionOnSet(f, S) = SumFunctionOnSet(g, S) + SumFunctionOnSet(h, S)
  BY <1>1, <1>2, SumPlus
<1>6. SumFunctionOnSet(g, S) = SumFunctionOnSet(g, D)
  BY <1>1, <1>3, SumZeros
<1>7. SumFunctionOnSet(f, D) = SumFunctionOnSet(g, D)
  BY <1>3, <1>4, SumAlike
<1>8. SumFunctionOnSet(g, S) \in Nat /\ SumFunctionOnSet(h, S) \in Nat
  BY <1>1, SumType
<1> QED
  BY <1>5, <1>6, <1>7, <1>8

\* The ticket t asks for every line and for the boxes that the row knows.
Packed(t, row) ==
  SumFunction(t.items) >=
    SumFunction(row.qty) + SumFunctionOnSet(row.qty, DOMAIN row.boxOf)

\* What is asked for, whatever the row says that is read by now.
LEMMA TicketPacks ==
  ASSUME PricingInv, NEW r \in Req, BillOK(r), bill[r].stage # "place"
  PROVE  Packed(Ticket(bill[r]), orders[bill[r].ord])
<1> DEFINE b == bill[r]
           row == orders[bill[r].ord]
           q == b.qty
           k == BoxesAsked(b)
           S == DOMAIN k
           w == [p \in Product |-> 1]
           g == Grouped(q, k, w, Product, S)
           v == Valued(q, k, w, S)
           items == Ticket(b).items
<1>1. Priced(b) /\ Priced(row) /\ q = row.qty
  BY DEF BillOK, Placed, PricingInv, OrdersOK, RowOK
<1>2. k \in [S -> Product] /\ DOMAIN row.boxOf \subseteq S /\ S \in SUBSET Product
  BY <1>1 DEF BoxesAsked, OrElse, Priced, OnProducts
<1>3. /\ IsFiniteSet(Product) /\ IsFiniteSet(S)
      /\ DOMAIN q = Product /\ Numbers(q, Product) /\ Numbers(q, S) /\ Numbers(w, Product)
  BY <1>1, <1>2, SomeProducts DEF Priced, Numbers
<1>4. /\ items = [p \in Product |-> q[p] + SumFunctionOnSet(q, {l \in S : k[l] = p})]
  BY DEF Ticket
<1>5. Numbers(g, Product) /\ SumFunctionOnSet(g, Product) = SumFunctionOnSet(v, S)
  <2> HIDE DEF q, k, S, w
  <2> QED
    BY <1>2, <1>3, SumByGroup
<1>6. \A p \in Product : items[p] = q[p] + g[p]
  <2> SUFFICES ASSUME NEW p \in Product PROVE items[p] = q[p] + g[p]
    OBVIOUS
  <2> DEFINE D == {l \in S : k[l] = p}
  <2>1. IsFiniteSet(D) /\ Numbers(q, D)
    BY <1>2, <1>3, SomeProducts DEF Numbers
  <2>2. items[p] = q[p] + SumFunctionOnSet(q, D)
    BY <1>4
  <2>3. g[p] = SumFunctionOnSet(q, D) * 1
    BY DEF Grouped
  <2> HIDE DEF D, g, q, k, S, items
  <2>4. SumFunctionOnSet(q, D) \in Nat
    BY <2>1, SumType
  <2> QED
    BY <2>2, <2>3, <2>4
<1>7. \A l \in S : q[l] = v[l]
  BY <1>2, <1>3 DEF Valued, Numbers
<1>8. DOMAIN items = Product
  BY <1>4
<1>9. SumFunction(items) = SumFunctionOnSet(q, Product) + SumFunctionOnSet(q, S)
  <2> HIDE DEF q, k, S, w, g, v, items
  <2>1. SumFunction(items) = SumFunctionOnSet(items, Product)
    BY <1>8, SumOfAll
  <2>2. SumFunctionOnSet(items, Product)
          = SumFunctionOnSet(q, Product) + SumFunctionOnSet(g, Product)
    BY <1>3, <1>5, <1>6, SumPlus
  <2>3. SumFunctionOnSet(q, S) = SumFunctionOnSet(v, S)
    BY <1>3, <1>7, SumAlike
  <2> QED
    BY <1>5, <2>1, <2>2, <2>3
<1>10. SumFunctionOnSet(q, DOMAIN row.boxOf) <= SumFunctionOnSet(q, S)
  <2> HIDE DEF q, k, S, row
  <2> QED
    BY <1>2, <1>3, SumOfSome
<1>11. SumFunction(row.qty) = SumFunctionOnSet(q, Product)
  <2> HIDE DEF q, row
  <2> QED
    BY <1>1, <1>3, SumOfAll
<1>12. /\ SumFunctionOnSet(q, Product) \in Nat /\ SumFunctionOnSet(q, S) \in Nat
       /\ SumFunctionOnSet(q, DOMAIN row.boxOf) \in Nat
  <2>1. IsFiniteSet(DOMAIN row.boxOf) /\ Numbers(q, DOMAIN row.boxOf)
    BY <1>2, <1>3, SomeProducts DEF Numbers
  <2> HIDE DEF q, k, S, row
  <2> QED
    BY <1>3, <2>1, SumType
<1> HIDE DEF q, k, S, items, row
<1>13. SumFunction(items) >=
         SumFunction(row.qty) + SumFunctionOnSet(q, DOMAIN row.boxOf)
  BY <1>9, <1>10, <1>11, <1>12
<1> QED
  BY <1>1, <1>13 DEF Packed, items, row

\* The lines of an order that was placed stay, and so do its boxes.
RowStays(o) ==
  Placed(o)' /\ orders'[o].qty = orders[o].qty /\ orders'[o].boxOf = orders[o].boxOf

\* Only the link and the mark of an order change.
LEMMA RowsStay ==
  ASSUME PricingInv, GatewayInv, [GatewayNext]_gatewayVars, NEW o \in Order, Placed(o)
  PROVE  RowStays(o)
<1>1. CASE UNCHANGED orders
  BY <1>1 DEF RowStays, Placed
<1>2. ASSUME NEW r \in Req, PlaceOrder(r), orders' # orders
      PROVE  RowStays(o)
  <2>1. bill[r].ord # o
    BY <1>2 DEF PlaceOrder, Totalled, At, PricingInv, BillsOK, BillOK, InLoop
  <2>2. orders' = Put(orders, bill[r].ord, NewRow(bill[r]))
    BY <1>2 DEF PlaceOrder
  <2> QED
    BY <2>1, <2>2 DEF Put, Placed, RowStays
<1>3. ASSUME NEW r \in Req, LinkOrder(r) PROVE RowStays(o)
  BY <1>3 DEF LinkOrder, Placed, RowStays, PricingInv, OrdersOK, RowOK, RowFields
<1>4. ASSUME NEW r \in Req, OrderSent(r) PROVE RowStays(o)
  BY <1>4 DEF OrderSent, Placed, RowStays, PricingInv, OrdersOK, RowOK, RowFields
<1>5. \/ UNCHANGED orders
      \/ \E r \in Req : \/ PlaceOrder(r) /\ orders' # orders
                        \/ LinkOrder(r) \/ OrderSent(r)
  <2>1. ASSUME NEW r \in Req, Handler(r)
        PROVE  \/ UNCHANGED orders
               \/ PlaceOrder(r) /\ orders' # orders
               \/ LinkOrder(r) \/ OrderSent(r)
    <3>1. CASE PricingTurn(r)
      BY <3>1 DEF PricingTurn, PricingStep, ReadPrice, ReadBoxPrice, CreateOrder, PayOrder,
                  Charge, SendOrder, SubmitNothing, SubmitOrder, pricingVars
    <3>2. CASE ~PricingTurn(r)
      BY <2>1, <3>2 DEF Handler, AccessTurn, TokenTurn, IikoTurn, CatalogueTurn, pricingVars
    <3> QED
      BY <3>1, <3>2
  <2> QED
    BY <2>1 DEF GatewayNext, Request, TokenExpires, NomenclatureEdited, GatewayCrash,
                gatewayVars, pricingVars
<1> QED
  BY <1>1, <1>2, <1>3, <1>4, <1>5

\* A new ticket packs its boxes.
LEMMA NewTickets ==
  ASSUME PricingInv, GatewayInv, [GatewayNext]_gatewayVars,
         NEW o \in Order, NEW t \in kitchen'[o]
  PROVE  t \in kitchen[o] \/ (Placed(o) /\ Packed(t, orders[o]))
<1>1. CASE UNCHANGED kitchen
  BY <1>1
<1>2. ASSUME NEW r \in Req, IikoTurn(r), kitchen' # kitchen
      PROVE  t \in kitchen[o] \/ (Placed(o) /\ Packed(t, orders[o]))
  <2>1. /\ client[r].back = "sent"
        /\ kitchen' = [kitchen EXCEPT ![bill[r].ord] = @ \cup {Ticket(bill[r])}]
    BY <1>2 DEF IikoTurn, TicketAccepted
  <2>2. pc[r] \in TokenPC /\ Sending(r)
    BY <1>2, <2>1, TokenMoves DEF IikoTurn, GatewayInv, Sending
  <2>3. BillOK(r) /\ bill[r].stage = "send"
    BY <2>2 DEF PricingInv, BillsOK
  <2>4. Packed(Ticket(bill[r]), orders[bill[r].ord]) /\ Placed(bill[r].ord)
    BY <2>3, TicketPacks DEF BillOK
  <2>5. t \in kitchen[o] \/ (o = bill[r].ord /\ t = Ticket(bill[r]))
    BY <2>1 DEF PricingInv, KitchenOK
  <2> QED
    BY <2>4, <2>5
<1>3. UNCHANGED kitchen \/ \E r \in Req : IikoTurn(r) /\ kitchen' # kitchen
  <2>1. ASSUME NEW r \in Req, Handler(r) PROVE UNCHANGED kitchen \/ IikoTurn(r)
    <3>1. CASE PricingTurn(r)
      BY <3>1 DEF PricingTurn, PricingStep, ReadPrice, ReadBoxPrice, CreateOrder, PayOrder,
                  PlaceOrder, LinkOrder, OrderSent, Charge, SendOrder, SubmitNothing,
                  SubmitOrder, pricingVars
    <3>2. CASE ~PricingTurn(r)
      BY <2>1, <3>2 DEF Handler, AccessTurn, TokenTurn, CatalogueTurn, pricingVars
    <3> QED
      BY <3>1, <3>2
  <2> QED
    BY <2>1 DEF GatewayNext, Request, TokenExpires, NomenclatureEdited, GatewayCrash,
                gatewayVars, pricingVars
<1> QED
  BY <1>1, <1>2, <1>3

\* A ticket asks for every line of its order, and for a box for each piece that
\* was to come in one, whichever rows were edited or deleted since and
\* whichever query failed (buildCreateOrderForIiko).
THEOREM BoxesAreAskedFor == GatewaySpec => []BoxesComeAlong
<1>1. GatewayInit => BoxesComeAlong
  BY DEF GatewayInit, PricingInit, BoxesComeAlong
<1>2. ASSUME PricingInv, GatewayInv, BoxesComeAlong, [GatewayNext]_gatewayVars
      PROVE  BoxesComeAlong'
  <2>1. ASSUME NEW o \in Order, NEW t \in kitchen'[o]
        PROVE  Packed(t, orders[o]) /\ RowStays(o)
    <3>1. Placed(o) /\ Packed(t, orders[o])
      BY <1>2, NewTickets DEF PricingInv, KitchenOK, BoxesComeAlong, Packed
    <3> QED
      BY <1>2, <3>1, RowsStay
  <2> QED
    BY <2>1 DEF BoxesComeAlong, Packed, RowStays
<1> QED
  BY <1>1, <1>2, PricingInvariant, GatewayInvariant, PTL DEF GatewaySpec
=============================================================================
