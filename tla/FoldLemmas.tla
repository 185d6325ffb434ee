------------------------------ MODULE FoldLemmas ------------------------------
(***************************************************************************)
(* Induction along the numbers, what a fold along a sequence does one      *)
(* element after the other, and sums over finite sets. The provers take no operator as a parameter:   *)
(* a module that folds its own operators instantiates this one with an     *)
(* operator that tells them apart by their first argument.                 *)
(***************************************************************************)
EXTENDS Integers, Sequences, FiniteSetsExt, FiniteSetTheorems, WellFoundedInduction, TLAPS

CONSTANT Op(_, _, _)

-----------------------------------------------------------------------------
(* Induction along the numbers, and the last of some positions.             *)

\* Some numbers have a least, so what 0 has and the next one takes over, every number has.
LEMMA Least ==
  ASSUME NEW T, T \subseteq Nat, T # {}
  PROVE  \E x \in T : \A y \in T : x <= y
<1>1. PICK x \in T : \A y \in T : <<y, x>> \notin OpToRel(<, Nat)
  BY NatLessThanWellFounded, WFMin
<1>2. \A y \in T : ~(y < x)
  BY <1>1 DEF OpToRel
<1>3. QED
  BY <1>2

LEMMA Induction ==
  ASSUME NEW S, 0 \in S, \A n \in Nat : n \in S => n + 1 \in S
  PROVE  Nat \subseteq S
<1>1. ASSUME Nat \ S # {} PROVE FALSE
  <2>1. PICK x \in Nat \ S : \A y \in Nat \ S : x <= y
    BY <1>1, Least
  <2>2. x # 0 /\ x - 1 \in Nat /\ x - 1 \in S
    BY <2>1
  <2>3. QED
    BY <2>1, <2>2
<1>2. QED
  BY <1>1

\* The last of some positions.
LEMMA MaxIs ==
  ASSUME NEW n \in Nat, NEW s \in SUBSET (1 .. n), s # {}
  PROVE  Max(s) \in s /\ \A y \in s : y <= Max(s)
<1>1. \E x \in s : \A y \in s : x >= y
  <2> DEFINE T == {k \in Nat : \A y \in s : y <= k}
  <2>1. PICK k \in T : \A j \in T : k <= j
    <3>1. n \in T
      OBVIOUS
    <3>2. QED
      BY <3>1, Least
  <2>2. ASSUME k \notin s PROVE FALSE
    <3>1. \A y \in s : y <= k - 1
      BY <2>1, <2>2
    <3>2. k - 1 \in Nat
      <4>1. PICK y \in s : TRUE
        OBVIOUS
      <4>2. QED
        BY <2>1, <3>1, <4>1
    <3>3. QED
      BY <2>1, <3>1, <3>2
  <2>3. QED
    BY <2>1, <2>2
<1>2. QED
  BY <1>1 DEF Max

LEMMA MaxOfInterval ==
  ASSUME NEW k \in Nat \ {0}
  PROVE  Max(1 .. k) = k /\ (1 .. k) \ {k} = 1 .. k - 1 /\ 1 .. k # {}
<1>1. 1 \in 1 .. k /\ k \in 1 .. k
  OBVIOUS
<1>2. Max(1 .. k) \in 1 .. k /\ \A y \in 1 .. k : y <= Max(1 .. k)
  BY <1>1, MaxIs
<1>3. Max(1 .. k) = k
  BY <1>1, <1>2
<1>4. (1 .. k) \ {k} = 1 .. k - 1
  OBVIOUS
<1>5. QED
  BY <1>1, <1>3, <1>4

-----------------------------------------------------------------------------
(* Folds. FoldLeft is a choice of the function that folds every set of     *)
(* positions; it exists, and along the first positions it is a chain.      *)

\* it has, for each set of positions, the fold of s along them, the last one last; h for
\* the first 0 to n positions.
Folds(of, base, s, n, it) ==
  it = [u \in SUBSET (1 .. n) |-> IF u = {} THEN base ELSE Op(of, it[u \ {Max(u)}], s[Max(u)])]
Chain(of, base, s, n, h) ==
  h = [k \in 0 .. n |-> h[k]] /\ h[0] = base /\ \A k \in 1 .. n : h[k] = Op(of, h[k - 1], s[k])

\* A fold exists.
LEMMA FoldExists ==
  ASSUME NEW of, NEW base, NEW s, NEW n \in Nat
  PROVE  \E it : Folds(of, base, s, n, it)
<1> DEFINE Value(it, u) == IF u = {} THEN base ELSE Op(of, it[u \ {Max(u)}], s[Max(u)])
           Good(k, it) == it = [u \in SUBSET (1 .. k) |-> it[u]] /\ \A u \in SUBSET (1 .. k) : it[u] = Value(it, u)
           S == {k \in Nat : \E it : Good(k, it)}
<1>1. 0 \in S
  <2> DEFINE it == [u \in SUBSET (1 .. 0) |-> base]
  <2>1. \A u \in SUBSET (1 .. 0) : u = {} /\ it[u] = base
    OBVIOUS
  <2>2. it = [u \in SUBSET (1 .. 0) |-> it[u]]
    OBVIOUS
  <2>3. Good(0, it)
    <3> HIDE DEF it
    <3> QED
      BY <2>1, <2>2
  <2> QED
    <3> HIDE DEF Good, it
    <3> QED
      BY <2>3
<1>2. ASSUME NEW k \in Nat, k \in S PROVE k + 1 \in S
  <2>1. PICK it : Good(k, it)
    <3> HIDE DEF Good
    <3> QED
      BY <1>2
  <2> DEFINE new == [u \in SUBSET (1 .. k + 1) |-> Value(it, u)]
  <2>2. ASSUME NEW u \in SUBSET (1 .. k + 1), u # {} PROVE u \ {Max(u)} \in SUBSET (1 .. k)
    <3> DEFINE m == Max(u)
    <3>1. m \in u /\ \A y \in u : y <= m
      <4>1. k + 1 \in Nat
        OBVIOUS
      <4> QED
        BY <2>2, <4>1, MaxIs
    <3> HIDE DEF m
    <3>2. \A y \in u : y \in 1 .. k + 1 /\ y <= m
      BY <3>1
    <3>3. \A y \in u : y # m => y \in 1 .. k
      BY <3>1, <3>2
    <3> QED
      BY <3>3 DEF m
  <2>3. \A u \in SUBSET (1 .. k) : u \in SUBSET (1 .. k + 1) /\ it[u] = Value(it, u)
    <3>1. \A u \in SUBSET (1 .. k) : it[u] = Value(it, u)
      <4> HIDE DEF Value
      <4> QED
        BY <2>1
    <3>2. \A u \in SUBSET (1 .. k) : u \in SUBSET (1 .. k + 1)
      OBVIOUS
    <3> HIDE DEF Value, Good
    <3> QED
      BY <3>1, <3>2
  <2>4. \A u \in SUBSET (1 .. k) : new[u] = it[u]
    <3> HIDE DEF Value
    <3> QED
      BY <2>3
  <2>5. ASSUME NEW u \in SUBSET (1 .. k + 1) PROVE new[u] = Value(new, u)
    <3>1. new[u] = Value(it, u)
      OBVIOUS
    <3> HIDE DEF new
    <3> QED
      BY <2>2, <2>4, <3>1
  <2>6. new = [u \in SUBSET (1 .. k + 1) |-> new[u]]
    <3> HIDE DEF Value
    <3> QED
      OBVIOUS
  <2>7. Good(k + 1, new)
    <3> HIDE DEF new, Value
    <3> QED
      BY <2>5, <2>6
  <2> QED
    <3> HIDE DEF Good, new
    <3> QED
      BY <2>7
<1>3. n \in S
  <2> HIDE DEF S
  <2> QED
    BY <1>1, <1>2, Induction
<1>4. PICK it : Good(n, it)
  <2> HIDE DEF Good
  <2> QED
    BY <1>3
<1>5. it = [u \in SUBSET (1 .. n) |-> Value(it, u)]
  <2> HIDE DEF Value
  <2> QED
    BY <1>4
<1> QED
  BY <1>5 DEF Folds

\* Along the first positions it is a chain.
LEMMA FoldChain ==
  ASSUME NEW of, NEW base, NEW s, NEW n \in Nat, NEW it, Folds(of, base, s, n, it)
  PROVE  \E h : Chain(of, base, s, n, h) /\ h[n] = it[1 .. n]
<1> DEFINE h == [k \in 0 .. n |-> it[1 .. k]]
<1>1. h[0] = base
  <2>1. 1 .. 0 = {} /\ {} \in SUBSET (1 .. n) /\ 0 \in 0 .. n
    OBVIOUS
  <2>2. it[{}] = base
    BY <2>1 DEF Folds
  <2> QED
    BY <2>1, <2>2
<1>2. ASSUME NEW k \in 1 .. n PROVE h[k] = Op(of, h[k - 1], s[k])
  <2>1. k \in Nat \ {0} /\ k \in 0 .. n /\ k - 1 \in 0 .. n /\ 1 .. k \in SUBSET (1 .. n)
    OBVIOUS
  <2>2. Max(1 .. k) = k /\ (1 .. k) \ {k} = 1 .. k - 1 /\ 1 .. k # {}
    BY <2>1, MaxOfInterval
  <2>3. it[1 .. k] = Op(of, it[1 .. k - 1], s[k])
    BY <2>1, <2>2 DEF Folds
  <2> QED
    BY <2>1, <2>3
<1>3. h = [k \in 0 .. n |-> h[k]] /\ h[n] = it[1 .. n]
  OBVIOUS
<1> HIDE DEF h
<1> QED
  BY <1>1, <1>2, <1>3 DEF Chain

\* One more element, folded onto what was folded before.
LEMMA ChainAdded ==
  ASSUME NEW of, NEW base, NEW S, NEW s \in Seq(S), NEW e \in S,
         NEW h, Chain(of, base, s, Len(s), h),
         NEW g, Chain(of, base, Append(s, e), Len(Append(s, e)), g)
  PROVE  g[Len(Append(s, e))] = Op(of, h[Len(s)], e)
<1> DEFINE n == Len(s)
           t == Append(s, e)
<1>1. n \in Nat /\ Len(t) = n + 1 /\ t[n + 1] = e /\ \A k \in 1 .. n : t[k] = s[k]
  OBVIOUS
<1>2. /\ h[0] = base /\ \A k \in 1 .. n : h[k] = Op(of, h[k - 1], s[k])
      /\ g[0] = base /\ \A k \in 1 .. n + 1 : g[k] = Op(of, g[k - 1], t[k])
  BY <1>1 DEF Chain
<1> HIDE DEF n, t
<1> DEFINE S0 == {k \in Nat : k <= n => h[k] = g[k]}
<1>3. 0 \in S0
  BY <1>2
<1>4. ASSUME NEW k \in Nat, k \in S0 PROVE k + 1 \in S0
  <2>1. CASE k + 1 <= n
    <3>1. k + 1 \in 1 .. n /\ k + 1 \in 1 .. n + 1 /\ (k + 1) - 1 = k /\ h[k] = g[k]
      BY <1>1, <1>4, <2>1
    <3>2. h[k + 1] = Op(of, h[(k + 1) - 1], s[k + 1]) /\ g[k + 1] = Op(of, g[(k + 1) - 1], t[k + 1])
      BY <1>2, <3>1
    <3>3. s[k + 1] = t[k + 1]
      BY <1>1, <3>1
    <3> QED
      BY <3>1, <3>2, <3>3
  <2> QED
    BY <1>1, <2>1
<1>5. n \in S0
  <2> HIDE DEF S0
  <2> QED
    BY <1>1, <1>3, <1>4, Induction
<1>6. h[n] = g[n] /\ n + 1 \in 1 .. n + 1 /\ (n + 1) - 1 = n
  BY <1>1, <1>5
<1>7. g[n + 1] = Op(of, g[(n + 1) - 1], t[n + 1])
  BY <1>2, <1>6
<1>8. g[n + 1] = Op(of, h[n], e)
  BY <1>1, <1>6, <1>7
<1> QED
  BY <1>1, <1>8 DEF n, t

-----------------------------------------------------------------------------
(* Sums. The sum of a function over a finite set is a choice of the        *)
(* function that sums it over every subset, an element after the other; it *)
(* exists, and the order does not matter.                                  *)

\* it has, for each subset of S, the sum of f over it.
Sums(f, S, it) ==
  it = [s \in SUBSET S |-> IF s = {} THEN 0
                           ELSE f[CHOOSE x \in s : TRUE] + it[s \ {CHOOSE x \in s : TRUE}]]

\* What the small sets have, and a set has when all that are smaller by one have it, all have.
LEMMA SetInduction ==
  ASSUME NEW S, IsFiniteSet(S), NEW Q, Q \in SUBSET (SUBSET S), {} \in Q,
         \A T \in SUBSET S : T # {} /\ (\A x \in T : T \ {x} \in Q) => T \in Q
  PROVE  \A T \in SUBSET S : T \in Q
<1> DEFINE N == {n \in Nat : \A T \in SUBSET S : Cardinality(T) = n => T \in Q}
<1>1. ASSUME NEW T \in SUBSET S PROVE IsFiniteSet(T) /\ Cardinality(T) \in Nat
  BY FS_Subset, FS_CardinalityType
<1>2. 0 \in N
  <2>1. ASSUME NEW T \in SUBSET S, Cardinality(T) = 0 PROVE T \in Q
    BY <1>1, <2>1, FS_EmptySet
  <2> QED
    BY <2>1
<1>3. ASSUME NEW n \in Nat, n \in N PROVE n + 1 \in N
  <2>1. ASSUME NEW T \in SUBSET S, Cardinality(T) = n + 1 PROVE T \in Q
    <3>1. ASSUME NEW x \in T PROVE T \ {x} \in Q
      <4>1. Cardinality(T \ {x}) = Cardinality(T) - 1
        BY <1>1, <3>1, FS_RemoveElement
      <4>2. Cardinality(T \ {x}) = n /\ T \ {x} \in SUBSET S
        BY <2>1, <4>1
      <4> QED
        BY <1>3, <4>2
    <3>2. CASE T = {}
      BY <3>2
    <3>3. CASE T # {}
      BY <3>1, <3>3
    <3> QED
      BY <3>2, <3>3
  <2> QED
    BY <2>1
<1>4. Nat \subseteq N
  <2> HIDE DEF N
  <2> QED
    BY <1>2, <1>3, Induction
<1> QED
  BY <1>1, <1>4

\* The sums over the subsets exist.
LEMMA SumsExist ==
  ASSUME NEW f, NEW S, IsFiniteSet(S)
  PROVE  \E it : Sums(f, S, it)
<1> DEFINE pick(s) == CHOOSE x \in s : TRUE
           Upto(n) == {s \in SUBSET S : Cardinality(s) <= n}
           Value(it, s) == IF s = {} THEN 0 ELSE f[pick(s)] + it[s \ {pick(s)}]
           Good(n, it) == it = [s \in Upto(n) |-> it[s]] /\ \A s \in Upto(n) : it[s] = Value(it, s)
           N == {n \in Nat : \E it : Good(n, it)}
<1>1. ASSUME NEW s \in SUBSET S PROVE IsFiniteSet(s) /\ Cardinality(s) \in Nat /\ (Cardinality(s) = 0 <=> s = {})
  BY FS_Subset, FS_CardinalityType, FS_EmptySet
<1>2. ASSUME NEW s \in SUBSET S, s # {}
      PROVE  pick(s) \in s /\ s \ {pick(s)} \in SUBSET S /\ Cardinality(s \ {pick(s)}) = Cardinality(s) - 1
  <2>1. pick(s) \in s
    BY <1>2
  <2> HIDE DEF pick
  <2> QED
    BY <1>1, <2>1, FS_RemoveElement
<1> HIDE DEF pick
<1>3. 0 \in N
  <2> DEFINE it == [s \in Upto(0) |-> 0]
  <2>1. ASSUME NEW s \in Upto(0) PROVE s = {}
    BY <1>1
  <2>2. \A s \in Upto(0) : it[s] = Value(it, s)
    BY <2>1
  <2>3. it = [s \in Upto(0) |-> it[s]]
    <3> HIDE DEF Upto
    <3> QED
      OBVIOUS
  <2>4. Good(0, it)
    <3> HIDE DEF it, Upto, Value
    <3> QED
      BY <2>2, <2>3
  <2> HIDE DEF it, Good
  <2> QED
    BY <2>4
<1>4. ASSUME NEW n \in Nat, n \in N PROVE n + 1 \in N
  <2>1. PICK it : Good(n, it)
    <3> HIDE DEF Good
    <3> QED
      BY <1>4
  <2> DEFINE new == [s \in Upto(n + 1) |-> Value(it, s)]
  <2>2. \A s \in Upto(n) : s \in Upto(n + 1)
    BY <1>1
  <2>3. \A s \in Upto(n + 1) : s # {} => s \ {pick(s)} \in Upto(n)
    BY <1>1, <1>2
  <2>4. \A s \in Upto(n) : it[s] = Value(it, s)
    <3> HIDE DEF Value, Upto
    <3> QED
      BY <2>1
  <2> HIDE DEF Upto, Good
  <2>5. \A s \in Upto(n) : new[s] = it[s]
    <3> HIDE DEF Value
    <3> QED
      BY <2>2, <2>4
  <2>6. ASSUME NEW s \in Upto(n + 1) PROVE new[s] = Value(new, s)
    <3>1. new[s] = Value(it, s)
      OBVIOUS
    <3> HIDE DEF new
    <3> QED
      BY <2>3, <2>5, <3>1
  <2>7. new = [s \in Upto(n + 1) |-> new[s]]
    <3> HIDE DEF Value
    <3> QED
      OBVIOUS
  <2> HIDE DEF new, Value
  <2>8. Good(n + 1, new)
    BY <2>6, <2>7 DEF Good
  <2> QED
    BY <2>8
<1>5. Cardinality(S) \in N /\ Cardinality(S) \in Nat
  <2>1. Cardinality(S) \in Nat
    BY <1>1
  <2> HIDE DEF N
  <2> QED
    BY <1>3, <1>4, <2>1, Induction
<1>6. Upto(Cardinality(S)) = SUBSET S
  <2>1. \A s \in SUBSET S : Cardinality(s) <= Cardinality(S)
    BY FS_Subset
  <2> QED
    BY <2>1
<1>7. PICK it : Good(Cardinality(S), it)
  <2> HIDE DEF Good
  <2> QED
    BY <1>5
<1>8. it = [s \in SUBSET S |-> Value(it, s)]
  <2> HIDE DEF Value, Upto
  <2> QED
    BY <1>6, <1>7
<1> QED
  BY <1>8 DEF Sums, pick

LEMMA SumIs ==
  ASSUME NEW f, NEW S, IsFiniteSet(S)
  PROVE  \E it : Sums(f, S, it) /\ SumFunctionOnSet(f, S) = it[S]
<1> DEFINE it == CHOOSE it : Sums(f, S, it)
<1>1. Sums(f, S, it)
  BY SumsExist
<1>2. SumFunctionOnSet(f, S) = it[S]
  BY DEF SumFunctionOnSet, FoldFunctionOnSet, MapThenFoldSet, Sums
<1> QED
  BY <1>1, <1>2

\* Functions that agree on a set have the same sum over it.
LEMMA SumsSame ==
  ASSUME NEW S, IsFiniteSet(S), NEW R, IsFiniteSet(R), NEW f, NEW g, NEW it, NEW ig,
         Sums(f, R, it), Sums(g, S, ig), S \subseteq R, \A x \in S : f[x] = g[x]
  PROVE  \A T \in SUBSET S : it[T] = ig[T]
<1> DEFINE Q == {T \in SUBSET S : it[T] = ig[T]}
           pick(s) == CHOOSE x \in s : TRUE
<1>1. ASSUME NEW T \in SUBSET S, T # {}
      PROVE  it[T] = f[pick(T)] + it[T \ {pick(T)}] /\ ig[T] = g[pick(T)] + ig[T \ {pick(T)}]
  <2>1. T \in SUBSET R
    OBVIOUS
  <2> QED
    BY <1>1, <2>1 DEF Sums
<1>2. it[{}] = 0 /\ ig[{}] = 0
  BY DEF Sums
<1>3. \A T \in SUBSET S : T # {} => pick(T) \in T
  OBVIOUS
<1> HIDE DEF pick
<1>4. ASSUME NEW T \in SUBSET S, T # {}, \A x \in T : T \ {x} \in Q PROVE T \in Q
  BY <1>1, <1>3, <1>4
<1>5. \A T \in SUBSET S : T # {} /\ (\A x \in T : T \ {x} \in Q) => T \in Q
  <2> HIDE DEF Q
  <2> QED
    BY <1>4
<1>6. {} \in Q
  BY <1>2
<1>7. Q \in SUBSET (SUBSET S)
  OBVIOUS
<1>8. \A T \in SUBSET S : T \in Q
  <2> HIDE DEF Q
  <2> QED
    BY <1>5, <1>6, <1>7, SetInduction
<1> QED
  BY <1>8

\* Any element may be taken first.
LEMMA SumsPart ==
  ASSUME NEW S, IsFiniteSet(S), NEW f, \A x \in S : f[x] \in Int, NEW it, Sums(f, S, it)
  PROVE  \A T \in SUBSET S : it[T] \in Int /\ \A x \in T : it[T] = f[x] + it[T \ {x}]
<1> DEFINE Q == {T \in SUBSET S : it[T] \in Int /\ \A x \in T : it[T \ {x}] \in Int /\ it[T] = f[x] + it[T \ {x}]}
           pick(s) == CHOOSE x \in s : TRUE
<1>1. ASSUME NEW T \in SUBSET S, T # {}
      PROVE  it[T] = f[pick(T)] + it[T \ {pick(T)}]
  BY <1>1 DEF Sums
<1>2. it[{}] = 0
  BY DEF Sums
<1>3. \A T \in SUBSET S : T # {} => pick(T) \in T
  OBVIOUS
<1> HIDE DEF pick
<1>4. ASSUME NEW T \in SUBSET S, T # {}, \A x \in T : T \ {x} \in Q PROVE T \in Q
  <2> DEFINE y == pick(T)
             U == T \ {y}
  <2>1. y \in T /\ y \in S /\ f[y] \in Int /\ it[T] = f[y] + it[U]
    BY <1>1, <1>3, <1>4
  <2>2. U \in Q
    BY <1>4, <2>1
  <2>3. it[U] \in Int /\ it[T] \in Int
    BY <2>1, <2>2
  <2>4. ASSUME NEW x \in T, x # y PROVE it[T] = f[x] + it[T \ {x}]
    <3>1. x \in S /\ f[x] \in Int /\ x \in U
      BY <2>4
    <3>2. it[U] = f[x] + it[U \ {x}]
      BY <2>2, <3>1
    <3>3. T \ {x} \in Q /\ y \in T \ {x}
      BY <1>4, <2>1, <2>4
    <3>4. it[T \ {x}] = f[y] + it[(T \ {x}) \ {y}] /\ it[(T \ {x}) \ {y}] \in Int
      BY <3>3
    <3>5. (T \ {x}) \ {y} = U \ {x}
      OBVIOUS
    <3> QED
      BY <2>1, <2>3, <3>1, <3>2, <3>4, <3>5
  <2>5. \A x \in T : it[T \ {x}] \in Int
    BY <1>4
  <2> QED
    BY <2>1, <2>3, <2>4, <2>5
<1>5. \A T \in SUBSET S : T # {} /\ (\A x \in T : T \ {x} \in Q) => T \in Q
  <2> HIDE DEF Q
  <2> QED
    BY <1>4
<1>6. {} \in Q
  BY <1>2
<1>7. Q \in SUBSET (SUBSET S)
  OBVIOUS
<1>8. \A T \in SUBSET S : T \in Q
  <2> HIDE DEF Q
  <2> QED
    BY <1>5, <1>6, <1>7, SetInduction
<1> QED
  BY <1>8

LEMMA SumPart ==
  ASSUME NEW S, IsFiniteSet(S), NEW f, \A x \in S : f[x] \in Int
  PROVE  /\ SumFunctionOnSet(f, S) \in Int
         /\ \A x \in S : SumFunctionOnSet(f, S) = f[x] + SumFunctionOnSet(f, S \ {x})
<1>1. PICK it : Sums(f, S, it) /\ SumFunctionOnSet(f, S) = it[S]
  BY SumIs
<1>2. it[S] \in Int /\ \A x \in S : it[S] = f[x] + it[S \ {x}]
  BY <1>1, SumsPart
<1>3. ASSUME NEW x \in S PROVE SumFunctionOnSet(f, S \ {x}) = it[S \ {x}]
  <2> DEFINE R == S \ {x}
  <2>1. IsFiniteSet(R) /\ R \subseteq S
    BY FS_Subset
  <2> HIDE DEF R
  <2>2. PICK ig : Sums(f, R, ig) /\ SumFunctionOnSet(f, R) = ig[R]
    BY <2>1, SumIs
  <2>3. it[R] = ig[R]
    BY <1>1, <2>1, <2>2, SumsSame
  <2> QED
    BY <2>2, <2>3 DEF R
<1> QED
  BY <1>1, <1>2, <1>3

LEMMA SumSame ==
  ASSUME NEW S, IsFiniteSet(S), NEW f, NEW g, \A x \in S : f[x] = g[x]
  PROVE  SumFunctionOnSet(f, S) = SumFunctionOnSet(g, S)
<1>1. PICK it : Sums(f, S, it) /\ SumFunctionOnSet(f, S) = it[S]
  BY SumIs
<1>2. PICK ig : Sums(g, S, ig) /\ SumFunctionOnSet(g, S) = ig[S]
  BY SumIs
<1>3. it[S] = ig[S]
  BY <1>1, <1>2, SumsSame
<1> QED
  BY <1>1, <1>2, <1>3

LEMMA SumOfNothing ==
  ASSUME NEW S, IsFiniteSet(S), NEW f, \A x \in S : f[x] = 0
  PROVE  SumFunctionOnSet(f, S) = 0
<1>1. PICK it : Sums(f, S, it) /\ SumFunctionOnSet(f, S) = it[S]
  BY SumIs
<1> DEFINE Q == {T \in SUBSET S : it[T] = 0}
<1>2. ASSUME NEW T \in SUBSET S, T # {} PROVE \E x \in T : it[T] = f[x] + it[T \ {x}]
  BY <1>1, <1>2 DEF Sums
<1>3. {} \in Q
  BY <1>1 DEF Sums
<1>4. ASSUME NEW T \in SUBSET S, T # {}, \A x \in T : T \ {x} \in Q PROVE T \in Q
  <2>1. PICK x \in T : it[T] = f[x] + it[T \ {x}]
    BY <1>2, <1>4
  <2>2. it[T \ {x}] = 0 /\ f[x] = 0
    BY <1>4, <2>1
  <2> QED
    BY <2>1, <2>2
<1>5. Q \in SUBSET (SUBSET S)
  OBVIOUS
<1>6. \A T \in SUBSET S : T \in Q
  <2>1. \A T \in SUBSET S : T # {} /\ (\A x \in T : T \ {x} \in Q) => T \in Q
    <3> HIDE DEF Q
    <3> QED
      BY <1>4
  <2> HIDE DEF Q
  <2> QED
    BY <1>3, <1>5, <2>1, SetInduction
<1> QED
  BY <1>1, <1>6

\* g is f with x added to its domain.
OneMore(f, g, x, S, R) ==
  /\ IsFiniteSet(S) /\ x \notin S /\ R = S \union {x}
  /\ f \in [S -> Int] /\ g \in [R -> Int] /\ \A y \in S : g[y] = f[y]

\* A sum of one more.
LEMMA SumAdded ==
  ASSUME NEW S, NEW x, NEW R, NEW f, NEW g, OneMore(f, g, x, S, R)
  PROVE  SumFunction(f) \in Int /\ SumFunction(g) = SumFunction(f) + g[x]
<1>0. /\ IsFiniteSet(S) /\ x \notin S /\ R = S \union {x}
      /\ f \in [S -> Int] /\ g \in [R -> Int] /\ \A y \in S : g[y] = f[y]
  BY DEF OneMore
<1>1. IsFiniteSet(R) /\ x \in R /\ R \ {x} = S /\ \A y \in R : g[y] \in Int
  BY <1>0, FS_AddElement
<1>2. DOMAIN f = S /\ DOMAIN g = R /\ \A y \in S : f[y] \in Int
  BY <1>0
<1>3. SumFunctionOnSet(f, S) \in Int
  BY <1>0, <1>2, SumPart
<1>4. SumFunctionOnSet(g, R) = g[x] + SumFunctionOnSet(g, S)
  BY <1>1, SumPart
<1>5. SumFunctionOnSet(g, S) = SumFunctionOnSet(f, S)
  BY <1>0, <1>2, SumSame
<1> QED
  BY <1>1, <1>2, <1>3, <1>4, <1>5 DEF SumFunction

\* A sum of which one part is another.
LEMMA SumChanged ==
  ASSUME NEW S, IsFiniteSet(S), NEW x \in S, NEW f \in [S -> Int], NEW g \in [S -> Int],
         \A y \in S \ {x} : g[y] = f[y]
  PROVE  SumFunction(f) \in Int /\ SumFunction(g) = SumFunction(f) - f[x] + g[x]
<1> DEFINE R == S \ {x}
<1>1. IsFiniteSet(R)
  BY FS_Subset
<1>2. DOMAIN f = S /\ DOMAIN g = S /\ f[x] \in Int /\ g[x] \in Int
  OBVIOUS
<1>3. SumFunctionOnSet(f, R) \in Int
  BY <1>1, SumPart
<1>4. SumFunctionOnSet(g, R) = SumFunctionOnSet(f, R)
  BY <1>1, SumSame
<1>5. SumFunctionOnSet(f, S) = f[x] + SumFunctionOnSet(f, R)
  BY SumPart
<1>6. SumFunctionOnSet(g, S) = g[x] + SumFunctionOnSet(g, R)
  BY SumPart
<1> QED
  BY <1>2, <1>3, <1>4, <1>5, <1>6 DEF SumFunction
=============================================================================
