-------------------------------- MODULE Sums --------------------------------
(***************************************************************************)
(* Facts about the sums that the modules take with the folds of the        *)
(* community modules: MapThenSumSet over a finite set, FoldLeft over a     *)
(* sequence.  Both fold over the subsets of a finite set, taking one       *)
(* chosen element at a time.                                               *)
(*                                                                         *)
(* Inductions are descents: a set of naturals that is not empty has a      *)
(* least element, and there is no least counterexample.                    *)
(***************************************************************************)
EXTENDS FiniteSetTheorems, WellFoundedInduction, FiniteSetsExt, SequencesExt,
        Integers, TLAPS

\* f[s] is the sum of v over s, for every part s of D; c says which element of a
\* set is added last.
SumsUp(f, D, v, c) ==
  f = [s \in SUBSET D |-> IF s = {} THEN 0 ELSE v[c[s]] + f[s \ {c[s]}]]

\* c chooses an element of every part of D that is not empty.
Chooses(c, D) == \A s \in SUBSET D : s # {} => c[s] \in s

\* Every set of naturals that is not empty has a least element.
LEMMA LeastNatural ==
  ASSUME NEW T \in SUBSET Nat, T # {}
  PROVE  \E n \in T : \A k \in T : n <= k
<1> DEFINE R == OpToRel(<, Nat)
<1>1. IsWellFoundedOn(R, Nat)
  BY NatLessThanWellFounded DEF OpToRel
<1>2. R = {ss \in Nat \X Nat : ss[1] < ss[2]}
  BY DEF OpToRel
<1> HIDE DEF R
<1>3. PICK n \in T : \A k \in T : <<k, n>> \notin R
  BY <1>1, WFMin
<1>4. \A k \in T : ~(k < n)
  BY <1>2, <1>3
<1> QED
  BY <1>3, <1>4

\* A family of sets of finite sets that is not empty has a member of least size.
LEMMA SmallestSet ==
  ASSUME NEW F, F # {}, \A s \in F : IsFiniteSet(s)
  PROVE  \E s \in F : \A t \in F : Cardinality(s) <= Cardinality(t)
<1> DEFINE N == {Cardinality(s) : s \in F}
<1>1. N \in SUBSET Nat /\ N # {}
  BY FS_CardinalityType
<1>2. PICK n \in N : \A k \in N : n <= k
  BY <1>1, LeastNatural
<1> QED
  BY <1>2

\* What the descents use of the parts of a finite set.
LEMMA Parts ==
  ASSUME NEW D, IsFiniteSet(D), NEW s \in SUBSET D
  PROVE  /\ IsFiniteSet(s) /\ Cardinality(s) \in Nat
         /\ \A x \in s : /\ s \ {x} \in SUBSET D
                         /\ Cardinality(s \ {x}) = Cardinality(s) - 1
         /\ Cardinality(s) = 0 <=> s = {}
<1>1. IsFiniteSet(s)
  BY FS_Subset
<1> QED
  BY <1>1, FS_CardinalityType, FS_RemoveElement, FS_EmptySet

\* There is such a sum.
LEMMA SumsExist ==
  ASSUME NEW D, IsFiniteSet(D), NEW v, \A x \in D : v[x] \in Nat,
         NEW c, Chooses(c, D)
  PROVE  \E f : SumsUp(f, D, v, c)
<1> DEFINE Eqn(f, s) == f[s] = IF s = {} THEN 0 ELSE v[c[s]] + f[s \ {c[s]}]
           Upto(n) == \E f \in [SUBSET D -> Nat] :
                        \A s \in SUBSET D : Cardinality(s) <= n => Eqn(f, s)
           Bad == {n \in Nat : ~Upto(n)}
<1>1. Upto(0)
  <2>1. \A s \in SUBSET D : Cardinality(s) <= 0 => s = {}
    BY Parts
  <2> QED
    BY <2>1, [s \in SUBSET D |-> 0] \in [SUBSET D -> Nat]
<1>2. ASSUME NEW n \in Nat, Upto(n)
      PROVE  Upto(n + 1)
  <2>1. PICK f \in [SUBSET D -> Nat] :
          \A s \in SUBSET D : Cardinality(s) <= n => Eqn(f, s)
    BY <1>2
  <2> DEFINE g == [s \in SUBSET D |->
                     IF Cardinality(s) <= n THEN f[s]
                     ELSE IF s = {} THEN 0 ELSE v[c[s]] + f[s \ {c[s]}]]
  <2>2. g \in [SUBSET D -> Nat]
    <3> SUFFICES ASSUME NEW s \in SUBSET D, s # {}
                 PROVE  v[c[s]] + f[s \ {c[s]}] \in Nat
      OBVIOUS
    <3>1. c[s] \in s /\ s \ {c[s]} \in SUBSET D
      BY DEF Chooses
    <3> QED
      BY <3>1
  <2>3. ASSUME NEW s \in SUBSET D, Cardinality(s) <= n + 1
        PROVE  Eqn(g, s)
    <3>1. CASE s = {}
      <4>1. Cardinality(s) <= n /\ g[s] = f[s]
        BY <3>1, Parts
      <4> QED
        BY <4>1, <3>1, <2>1
    <3>2. CASE s # {}
      <4>1. c[s] \in s /\ s \ {c[s]} \in SUBSET D
        BY <3>2 DEF Chooses
      <4>2. Cardinality(s \ {c[s]}) = Cardinality(s) - 1 /\ Cardinality(s) \in Nat
        BY <4>1, Parts
      <4>3. g[s \ {c[s]}] = f[s \ {c[s]}]
        BY <4>1, <4>2, <2>3
      <4>4. g[s] = v[c[s]] + f[s \ {c[s]}]
        <5>1. CASE Cardinality(s) <= n
          BY <5>1, <2>1, <3>2
        <5>2. CASE ~(Cardinality(s) <= n)
          BY <5>2, <3>2
        <5> QED
          BY <5>1, <5>2
      <4> QED
        BY <3>2, <4>3, <4>4
    <3> QED
      BY <3>1, <3>2
  <2> HIDE DEF g
  <2> QED
    BY <2>2, <2>3
<1>3. Bad = {}
  <2> SUFFICES ASSUME Bad # {} PROVE FALSE
    OBVIOUS
  <2> HIDE DEF Upto
  <2>1. PICK n \in Bad : \A k \in Bad : n <= k
    BY LeastNatural
  <2>2. n # 0 /\ n - 1 \in Nat /\ n - 1 \notin Bad
    BY <1>1, <2>1
  <2>3. Upto(n - 1)
    BY <2>2
  <2>4. Upto((n - 1) + 1)
    BY <1>2, <2>2, <2>3
  <2> QED
    BY <2>1, <2>4
<1>4. Upto(Cardinality(D))
  BY <1>3, FS_CardinalityType
<1>5. PICK f \in [SUBSET D -> Nat] :
        \A s \in SUBSET D : Cardinality(s) <= Cardinality(D) => Eqn(f, s)
  BY <1>4
<1>6. \A s \in SUBSET D : Eqn(f, s)
  BY <1>5, FS_Subset
<1>7. SumsUp(f, D, v, c)
  BY <1>6 DEF SumsUp
<1> QED
  BY <1>7

\* f adds v up over the parts of D, in whatever order one takes their elements.
Adds(f, D, v) ==
  \A s \in SUBSET D :
    /\ f[s] \in Nat
    /\ s = {} => f[s] = 0
    /\ \A x \in s : f[s] = v[x] + f[s \ {x}]

\* What is added last does not matter.
LEMMA SumsAdd ==
  ASSUME NEW D, IsFiniteSet(D), NEW v, \A x \in D : v[x] \in Nat,
         NEW c, Chooses(c, D), NEW f, SumsUp(f, D, v, c)
  PROVE  Adds(f, D, v)
<1> DEFINE NotNat == {s \in SUBSET D : f[s] \notin Nat}
           Odd == {s \in SUBSET D : \E x \in s : f[s] # v[x] + f[s \ {x}]}
<1>1. \A s \in SUBSET D :
        /\ s = {} => f[s] = 0
        /\ s # {} => /\ c[s] \in s /\ s \ {c[s]} \in SUBSET D
                     /\ f[s] = v[c[s]] + f[s \ {c[s]}]
  BY DEF SumsUp, Chooses
<1>2. NotNat = {}
  <2> SUFFICES ASSUME NotNat # {} PROVE FALSE
    OBVIOUS
  <2>1. \A s \in NotNat : IsFiniteSet(s)
    BY Parts
  <2> HIDE DEF NotNat
  <2>2. PICK s \in NotNat : \A t \in NotNat : Cardinality(s) <= Cardinality(t)
    BY <2>1, SmallestSet
  <2> USE DEF NotNat
  <2>3. s \in SUBSET D /\ s # {} /\ c[s] \in s /\ s \ {c[s]} \in SUBSET D
    <3>1. s \in SUBSET D /\ f[s] \notin Nat
      OBVIOUS
    <3>2. s # {}
      <4>1. s = {} => f[s] = 0 /\ 0 \in Nat
        BY <1>1, <3>1
      <4> QED
        BY <4>1, <3>1, Zenon
    <3> QED
      BY <1>1, <3>1, <3>2
  <2>4. Cardinality(s \ {c[s]}) = Cardinality(s) - 1 /\ Cardinality(s) \in Nat
    BY <2>3, Parts
  <2>5. f[s \ {c[s]}] \in Nat
    BY <2>2, <2>3, <2>4
  <2>6. f[s] = v[c[s]] + f[s \ {c[s]}] /\ v[c[s]] \in Nat
    BY <1>1, <2>3
  <2> QED
    BY <2>5, <2>6
<1>3. Odd = {}
  <2> SUFFICES ASSUME Odd # {} PROVE FALSE
    OBVIOUS
  <2>1. \A s \in Odd : IsFiniteSet(s)
    BY Parts
  <2> HIDE DEF Odd
  <2>2. PICK s \in Odd : \A t \in Odd : Cardinality(s) <= Cardinality(t)
    BY <2>1, SmallestSet
  <2> USE DEF Odd
  <2>3. PICK x \in s : f[s] # v[x] + f[s \ {x}]
    OBVIOUS
  <2> DEFINE y == c[s]
  <2>4. y \in s /\ f[s] = v[y] + f[s \ {y}] /\ x # y
    BY <1>1, <2>3
  <2>5. /\ Cardinality(s \ {x}) = Cardinality(s) - 1
        /\ Cardinality(s \ {y}) = Cardinality(s) - 1
        /\ Cardinality(s) \in Nat
    BY <2>4, Parts
  <2>6. s \ {x} \in SUBSET D /\ s \ {y} \in SUBSET D
    OBVIOUS
  <2>7. s \ {x} \notin Odd /\ s \ {y} \notin Odd
    <3>1. \A t : Cardinality(t) = Cardinality(s) - 1 => t \notin Odd
      <4> HIDE DEF Odd
      <4> QED
        BY <2>2, <2>5
    <3> QED
      BY <2>5, <3>1
  <2>8. /\ f[s \ {y}] = v[x] + f[(s \ {y}) \ {x}]
        /\ f[s \ {x}] = v[y] + f[(s \ {x}) \ {y}]
    <3>1. x \in s \ {y} /\ y \in s \ {x}
      BY <2>4
    <3>2. \A t \in SUBSET D : t \notin Odd => \A z \in t : f[t] = v[z] + f[t \ {z}]
      BY Zenon
    <3> QED
      BY <3>1, <3>2, <2>6, <2>7, Zenon
  <2>9. (s \ {y}) \ {x} = (s \ {x}) \ {y} /\ (s \ {x}) \ {y} \in SUBSET D
    OBVIOUS
  <2> DEFINE rest == f[(s \ {x}) \ {y}]
  <2>10. rest \in Nat /\ v[x] \in Nat /\ v[y] \in Nat
    BY <1>2, <2>9, <2>4
  <2>11. f[s] = v[y] + (v[x] + rest) /\ f[s \ {x}] = v[y] + rest
    BY <2>4, <2>8, <2>9
  <2>12. v[x] + f[s \ {x}] = v[x] + (v[y] + rest)
    BY <2>11
  <2> HIDE DEF rest
  <2>13. v[y] + (v[x] + rest) = v[x] + (v[y] + rest)
    BY <2>10
  <2> QED
    BY <2>3, <2>11, <2>12, <2>13
<1> QED
  BY <1>1, <1>2, <1>3 DEF Adds

\* Two sums of the same values over a set are one.
LEMMA AddsUnique ==
  ASSUME NEW D, IsFiniteSet(D), NEW v, NEW f, Adds(f, D, v),
         NEW E, NEW w, NEW g, Adds(g, E, w),
         NEW S, S \subseteq D, S \subseteq E, \A x \in S : v[x] = w[x]
  PROVE  f[S] = g[S]
<1> DEFINE Bad == {s \in SUBSET S : f[s] # g[s]}
<1> SUFFICES ASSUME Bad # {} PROVE FALSE
  OBVIOUS
<1>1. \A s \in Bad : IsFiniteSet(s)
  BY Parts
<1> HIDE DEF Bad
<1>2. PICK s \in Bad : \A t \in Bad : Cardinality(s) <= Cardinality(t)
  BY <1>1, SmallestSet
<1> USE DEF Bad
<1>3. s \in SUBSET D /\ s \in SUBSET E
  OBVIOUS
<1>4. s # {}
  BY <1>3 DEF Adds
<1>5. PICK x \in s : TRUE
  BY <1>4
<1>6. Cardinality(s \ {x}) = Cardinality(s) - 1 /\ Cardinality(s) \in Nat
  BY <1>3, Parts
<1>7. f[s \ {x}] = g[s \ {x}]
  BY <1>2, <1>6
<1>8. f[s] = v[x] + f[s \ {x}] /\ g[s] = w[x] + g[s \ {x}] /\ v[x] = w[x]
  BY <1>3 DEF Adds
<1> QED
  BY <1>7, <1>8

\* More elements, a larger sum.
LEMMA AddsMonotone ==
  ASSUME NEW D, IsFiniteSet(D), NEW v, \A x \in D : v[x] \in Nat,
         NEW f, Adds(f, D, v), NEW S \in SUBSET D, NEW T \in SUBSET D, S \subseteq T
  PROVE  f[S] <= f[T]
<1> DEFINE Bad == {t \in SUBSET T : S \subseteq t /\ ~(f[S] <= f[t])}
<1> SUFFICES ASSUME Bad # {} PROVE FALSE
  OBVIOUS
<1>1. \A t \in Bad : IsFiniteSet(t)
  BY Parts
<1> HIDE DEF Bad
<1>2. PICK t \in Bad : \A u \in Bad : Cardinality(t) <= Cardinality(u)
  BY <1>1, SmallestSet
<1> USE DEF Bad
<1>3. f[S] \in Nat /\ f[t] \in Nat /\ t \in SUBSET D
  BY DEF Adds
<1>4. PICK x \in t : x \notin S
  <2>1. t # S
    BY <1>3
  <2> QED
    BY <2>1
<1>5. Cardinality(t \ {x}) = Cardinality(t) - 1 /\ Cardinality(t) \in Nat
  BY <1>3, Parts
<1>6. t \ {x} \in SUBSET D /\ f[t \ {x}] \in Nat
  BY DEF Adds
<1>7. f[S] <= f[t \ {x}]
  BY <1>2, <1>4, <1>5
<1>8. f[t] = v[x] + f[t \ {x}] /\ v[x] \in Nat
  BY <1>3 DEF Adds
<1> QED
  BY <1>3, <1>6, <1>7, <1>8

\* A part and the rest.
LEMMA AddsSplit ==
  ASSUME NEW D, IsFiniteSet(D), NEW v, \A x \in D : v[x] \in Nat,
         NEW f, Adds(f, D, v), NEW S \in SUBSET D, NEW T \in SUBSET D, T \subseteq S
  PROVE  f[S] = f[T] + f[S \ T]
<1> DEFINE Bad == {s \in SUBSET S : T \subseteq s /\ f[s] # f[T] + f[s \ T]}
<1> SUFFICES ASSUME Bad # {} PROVE FALSE
  OBVIOUS
<1>1. \A s \in Bad : IsFiniteSet(s)
  BY Parts
<1> HIDE DEF Bad
<1>2. PICK s \in Bad : \A t \in Bad : Cardinality(s) <= Cardinality(t)
  BY <1>1, SmallestSet
<1>3. /\ s \in SUBSET D /\ s \ T \in SUBSET D /\ s \in SUBSET S
      /\ T \subseteq s /\ f[s] # f[T] + f[s \ T]
  BY DEF Bad
<1>4. PICK x \in s : x \notin T
  <2>1. f[T] \in Nat /\ f[{}] = 0
    BY DEF Adds
  <2>2. s # T
    <3>1. T \ T = {} /\ f[T] = f[T] + 0
      BY <2>1
    <3> QED
      BY <1>3, <2>1, <3>1
  <2> QED
    BY <1>3, <2>2
<1> DEFINE t == s \ {x}
<1>5. /\ Cardinality(t) = Cardinality(s) - 1 /\ Cardinality(s) \in Nat
      /\ t \in SUBSET D /\ t \ T \in SUBSET D /\ t \in SUBSET S /\ T \subseteq t
      /\ t \ T = (s \ T) \ {x}
  BY <1>3, <1>4, Parts
<1>6. f[s] = v[x] + f[t] /\ f[s \ T] = v[x] + f[t \ T]
  <2>1. \A u \in SUBSET D : \A y \in u : f[u] = v[y] + f[u \ {y}]
    BY DEF Adds
  <2>2. x \in s \ T
    BY <1>4
  <2>3. f[s \ T] = v[x] + f[(s \ T) \ {x}]
    BY <1>3, <2>1, <2>2
  <2> QED
    BY <1>3, <1>5, <2>1, <2>3
<1> HIDE DEF t
<1>7. f[t] = f[T] + f[t \ T]
  <2>1. t \notin Bad
    BY <1>2, <1>5
  <2> QED
    BY <1>5, <2>1 DEF Bad
<1>8. f[T] \in Nat /\ f[t \ T] \in Nat /\ v[x] \in Nat
  BY <1>3, <1>5 DEF Adds
<1> QED
  BY <1>3, <1>6, <1>7, <1>8

\* The sums over the parts of a finite set, each taken on its own.
LEMMA SetSumsAdd ==
  ASSUME NEW D, IsFiniteSet(D), NEW v, \A x \in D : v[x] \in Nat
  PROVE  Adds([s \in SUBSET D |-> MapThenSumSet(LAMBDA x : v[x], s)], D, v)
<1> DEFINE any == [s \in SUBSET D |-> CHOOSE x \in s : TRUE]
           sum == [s \in SUBSET D |-> MapThenSumSet(LAMBDA x : v[x], s)]
           Fold(f, S) ==
             f = [s \in SUBSET S |->
                    IF s = {} THEN 0
                    ELSE v[CHOOSE x \in s : TRUE] + f[s \ {CHOOSE x \in s : TRUE}]]
           own(S) == CHOOSE f : Fold(f, S)
<1>1. PICK f : Adds(f, D, v)
  <2>1. Chooses(any, D)
    BY DEF Chooses
  <2> HIDE DEF any
  <2> QED
    BY <2>1, SumsExist, SumsAdd
<1>2. ASSUME NEW S \in SUBSET D
      PROVE  sum[S] = f[S]
  <2> DEFINE c == [s \in SUBSET S |-> CHOOSE x \in s : TRUE]
  <2>1. sum[S] = own(S)[S]
    BY DEF MapThenSumSet, MapThenFoldSet
  <2>2. Chooses(c, S) /\ IsFiniteSet(S) /\ \A x \in S : v[x] \in Nat
    BY FS_Subset DEF Chooses
  <2>3. \A g : SumsUp(g, S, v, c) <=> Fold(g, S)
    BY DEF SumsUp
  <2> HIDE DEF c, Fold
  <2>4. SumsUp(own(S), S, v, c)
    <3>1. \E g : SumsUp(g, S, v, c)
      BY <2>2, SumsExist
    <3> QED
      BY <2>3, <3>1
  <2> HIDE DEF own
  <2>5. Adds(own(S), S, v)
    BY <2>2, <2>4, SumsAdd
  <2> QED
    BY <1>1, <2>1, <2>2, <2>5, AddsUnique
<1> HIDE DEF sum
<1>3. \A s \in SUBSET D : sum[s] = f[s] /\ \A x \in s : s \ {x} \in SUBSET D
  BY <1>2
<1>4. Adds(sum, D, v)
  BY <1>1, <1>3 DEF Adds
<1> QED
  BY <1>4 DEF sum

\* The indices of a sequence that are not none have a last one.
LEMMA LastIndex ==
  ASSUME NEW n \in Nat, NEW s \in SUBSET (1 .. n), s # {}
  PROVE  Max(s) \in s
<1> DEFINE N == {n - x : x \in s}
<1>1. N \in SUBSET Nat /\ N # {}
  <2>1. \A x \in s : n - x \in Nat
    OBVIOUS
  <2> QED
    BY <2>1
<1>2. PICK k \in N : \A l \in N : k <= l
  BY <1>1, LeastNatural
<1>3. PICK x \in s : k = n - x
  OBVIOUS
<1>4. \A y \in s : x >= y
  <2> TAKE y \in s
  <2>1. n - x <= n - y
    BY <1>2, <1>3
  <2> QED
    BY <2>1
<1> QED
  BY <1>4 DEF Max

\* The sum of a sequence is the sum over its indices.
LEMMA SequenceSum ==
  ASSUME NEW q \in Seq(Nat)
  PROVE  \E f : /\ Adds(f, DOMAIN q, q)
               /\ FoldLeft(LAMBDA x, y : x + y, 0, q) = f[DOMAIN q]
<1> DEFINE D == DOMAIN q
           c == [s \in SUBSET D |-> Max(s)]
           Fold(f) == f = [s \in SUBSET D |->
                             IF s = {} THEN 0 ELSE f[s \ {Max(s)}] + q[Max(s)]]
           own == CHOOSE f : Fold(f)
<1>1. D = 1 .. Len(q) /\ Len(q) \in Nat /\ IsFiniteSet(D) /\ \A x \in D : q[x] \in Nat
  BY FS_Interval
<1>2. Chooses(c, D)
  BY <1>1, LastIndex DEF Chooses
<1>3. PICK f : SumsUp(f, D, q, c) /\ Adds(f, D, q)
  <2> HIDE DEF c, D
  <2> QED
    BY <1>1, <1>2, SumsExist, SumsAdd
<1>4. ASSUME NEW s \in SUBSET D, s # {}
      PROVE  /\ Max(s) \in s
             /\ f[s] = f[s \ {Max(s)}] + q[Max(s)]
  <2>1. Max(s) \in s
    BY <1>1, <1>4, LastIndex
  <2>2. f[s] = q[Max(s)] + f[s \ {Max(s)}] /\ f[s \ {Max(s)}] \in Nat
    BY <1>3, <2>1 DEF Adds
  <2> QED
    BY <1>1, <2>1, <2>2
<1>5. Fold(f)
  <2>1. f = [s \in SUBSET D |-> f[s]] /\ f[{}] = 0
    BY <1>3 DEF SumsUp
  <2> QED
    BY <2>1, <1>4
<1>6. Fold(own)
  BY <1>5
<1>7. own[D] = FoldLeft(LAMBDA x, y : x + y, 0, q)
  BY DEF FoldLeft, MapThenFoldSet
<1>8. {s \in SUBSET D : own[s] # f[s]} = {}
  <2> DEFINE Bad == {s \in SUBSET D : own[s] # f[s]}
  <2> SUFFICES ASSUME Bad # {} PROVE FALSE
    OBVIOUS
  <2>1. \A s \in Bad : IsFiniteSet(s)
    BY <1>1, Parts
  <2> HIDE DEF Bad
  <2>2. PICK s \in Bad : \A t \in Bad : Cardinality(s) <= Cardinality(t)
    BY <2>1, SmallestSet
  <2>3. s \in SUBSET D /\ own[s] # f[s]
    BY DEF Bad
  <2>4. s # {}
    <3>1. own[{}] = 0 /\ f[{}] = 0
      BY <1>5, <1>6
    <3> QED
      BY <2>3, <3>1
  <2>5. own[s] = own[s \ {Max(s)}] + q[Max(s)]
    <3> HIDE DEF own
    <3> QED
      BY <1>6, <2>3, <2>4
  <2>6. s \ {Max(s)} \in SUBSET D /\ s \ {Max(s)} \notin Bad
    <3>1. Max(s) \in s
      BY <1>4, <2>3, <2>4
    <3>2. Cardinality(s \ {Max(s)}) = Cardinality(s) - 1 /\ Cardinality(s) \in Nat
      BY <1>1, <2>3, <3>1, Parts
    <3> QED
      BY <2>2, <2>3, <3>2
  <2>7. own[s \ {Max(s)}] = f[s \ {Max(s)}]
    BY <2>6 DEF Bad
  <2> QED
    BY <1>4, <2>3, <2>4, <2>5, <2>7
<1> HIDE DEF own
<1> QED
  BY <1>3, <1>7, <1>8
=============================================================================
