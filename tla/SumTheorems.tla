----------------------------- MODULE SumTheorems -----------------------------
(***************************************************************************)
(* Induction over the natural numbers, and over the subsets of a finite    *)
(* set, with a set for the predicate, and what it gives: sets of numbers   *)
(* have a least one; a sum (SumFunctionOnSet) does not depend on the order *)
(* in which its terms are taken, grows by the term of an index that is     *)
(* added, and balances when its terms do; a recursion over the indices of  *)
(* a sequence (FoldLeft, FlattenSeq) has a solution, and keeps what each   *)
(* turn keeps.                                                             *)
(***************************************************************************)
EXTENDS Integers, SequencesExt, TLAPS, FiniteSetTheorems, WellFoundedInduction

-----------------------------------------------------------------------------
(* Of some finite sets one has no other within it.                         *)
LEMMA MinimalSet ==
  ASSUME NEW S, IsFiniteSet(S), NEW B \in SUBSET SUBSET S, B # {}
  PROVE  \E T \in B : \A U \in B : U \subseteq T => U = T
<1> DEFINE R == StrictSubsetOrdering(S)
<1>1. IsWellFoundedOn(R, SUBSET S)
  BY FS_StrictSubsetOrderingWellFounded, FS_FiniteSubsetsOfFinite
<1>2. PICK T \in B : \A U \in B : ~ (<<U, T>> \in R)
  <2> HIDE DEF R
  <2> QED
    BY <1>1, WFMin
<1> QED
  BY <1>2 DEF StrictSubsetOrdering

(* Induction: sets that hold the empty set and, with a set, that set and   *)
(* one element more, hold the whole.                                       *)
LEMMA SubsetInduction ==
  ASSUME NEW S, IsFiniteSet(S), NEW G \in SUBSET SUBSET S, {} \in G,
         \A T \in G : \A x \in S \ T : T \cup {x} \in G
  PROVE  G = SUBSET S
<1> DEFINE B == (SUBSET S) \ G
<1> SUFFICES ASSUME B # {} PROVE FALSE
  OBVIOUS
<1>1. PICK T \in B : \A U \in B : U \subseteq T => U = T
  <2>1. B \in SUBSET SUBSET S
    OBVIOUS
  <2> HIDE DEF B
  <2> QED
    BY <2>1, MinimalSet
<1>2. PICK x \in T : TRUE
  BY <1>1
<1>3. T \ {x} \in G
  BY <1>1
<1>4. T = (T \ {x}) \cup {x} /\ x \in S \ (T \ {x})
  OBVIOUS
<1> QED
  BY <1>1, <1>3, <1>4

(* A finite set of numbers that is not empty has a least one.              *)
LEMMA FirstOfFinite ==
  ASSUME NEW S \in SUBSET Int, IsFiniteSet(S), S # {}
  PROVE  \E x \in S : \A y \in S : x <= y
<1> DEFINE G == {T \in SUBSET S : T # {} => \E x \in T : \A y \in T : x <= y}
<1>1. {} \in G
  OBVIOUS
<1>2. ASSUME NEW T \in G, NEW a \in S \ T
      PROVE  T \cup {a} \in G
  <2>1. CASE T = {}
    <3>1. T \cup {a} = {a}
      BY <2>1
    <3>2. \A y \in {a} : a <= y
      OBVIOUS
    <3>3. {a} \in G
      BY <3>2
    <3> QED
      BY <3>1, <3>3
  <2>2. CASE T # {}
    <3>1. PICK x \in T : \A y \in T : x <= y
      BY <2>2
    <3>2. CASE x <= a
      BY <3>1, <3>2
    <3>3. CASE ~ (x <= a)
      BY <3>1, <3>3
    <3> QED
      BY <3>2, <3>3
  <2> QED
    BY <2>1, <2>2
<1>3. S \in G
  <2>1. G \in SUBSET SUBSET S
    OBVIOUS
  <2> HIDE DEF G
  <2>2. G = SUBSET S
    BY <1>1, <1>2, <2>1, SubsetInduction
  <2> QED
    BY <2>2
<1> QED
  BY <1>3

(* A set of natural numbers that is not empty has a least one.             *)
LEMMA LeastNumber ==
  ASSUME NEW T \in SUBSET Nat, T # {}
  PROVE  \E x \in T : \A y \in T : x <= y
<1> DEFINE R == OpToRel(<, Nat)
<1>1. IsWellFoundedOn(R, Nat)
  BY NatLessThanWellFounded
<1>2. PICK x \in T : \A y \in T : ~ (<<y, x>> \in R)
  <2> HIDE DEF R
  <2> QED
    BY <1>1, WFMin
<1>3. \A y \in T : ~ (y < x)
  BY <1>2 DEF OpToRel
<1> QED
  BY <1>3

(* Induction over the natural numbers, with a set for the predicate.       *)
LEMMA NumberInduction ==
  ASSUME NEW S \in SUBSET Nat, 0 \in S, \A n \in S : n + 1 \in S
  PROVE  S = Nat
<1>1. SUFFICES ASSUME Nat \ S # {} PROVE FALSE
  OBVIOUS
<1>2. PICK x \in Nat \ S : \A y \in Nat \ S : x <= y
  BY <1>1, LeastNumber
<1>3. x # 0 /\ x - 1 \in Nat /\ x - 1 \in S
  BY <1>2
<1> QED
  BY <1>2, <1>3

(* A set of natural numbers with an upper bound has a greatest one.        *)
LEMMA GreatestNumber ==
  ASSUME NEW n \in Nat, NEW T \in SUBSET (0 .. n), T # {}
  PROVE  Max(T) \in T /\ \A y \in T : Max(T) >= y
<1> DEFINE U == {m \in Nat : \E x \in T : m = n - x}
<1>1. U \in SUBSET Nat /\ U # {}
  <2>1. PICK x \in T : TRUE
    OBVIOUS
  <2>2. n - x \in U
    OBVIOUS
  <2> QED
    BY <2>2
<1>2. PICK u \in U : \A v \in U : u <= v
  <2> HIDE DEF U
  <2> QED
    BY <1>1, LeastNumber
<1>3. PICK x \in T : u = n - x
  OBVIOUS
<1>4. \A y \in T : x >= y
  <2> TAKE y \in T
  <2>1. n - y \in U
    OBVIOUS
  <2> QED
    BY <1>2, <1>3, <2>1
<1> QED
  BY <1>3, <1>4 DEF Max

-----------------------------------------------------------------------------
(* f has the sum of the values of g over every set of indices within S.    *)
SumsUp(f, g, S) ==
  /\ f \in [SUBSET S -> Int]
  /\ f[{}] = 0
  /\ \A s \in SUBSET S : \A x \in s : f[s] = g[x] + f[s \ {x}]

(* There are such sums. *)
LEMMA SumsExist ==
  ASSUME NEW S, IsFiniteSet(S), NEW g, \A x \in S : g[x] \in Int
  PROVE  \E f : SumsUp(f, g, S)
<1> DEFINE G == {T \in SUBSET S : \E f : SumsUp(f, g, T)}
<1>1. {} \in G
  <2> DEFINE zero == [s \in SUBSET {} |-> 0]
  <2>1. SumsUp(zero, g, {})
    BY DEF SumsUp
  <2> QED
    BY <2>1
<1>2. ASSUME NEW T \in G, NEW a \in S \ T
      PROVE  T \cup {a} \in G
  <2>1. PICK f : SumsUp(f, g, T)
    OBVIOUS
  <2> DEFINE W == T \cup {a}
             h == [s \in SUBSET W |-> IF a \in s THEN g[a] + f[s \ {a}] ELSE f[s]]
  <2>2. \A s \in SUBSET W : s \ {a} \in SUBSET T /\ (a \notin s => s \in SUBSET T)
    OBVIOUS
  <2>3. h \in [SUBSET W -> Int]
    BY <2>1, <2>2 DEF SumsUp
  <2>4. h[{}] = 0
    BY <2>1 DEF SumsUp
  <2>5. ASSUME NEW s \in SUBSET W, NEW x \in s
        PROVE  h[s] = g[x] + h[s \ {x}]
    <3>1. CASE x = a
      BY <3>1
    <3>2. CASE x # a /\ a \in s
      <4>2. (s \ {a}) \ {x} = (s \ {x}) \ {a} /\ s \ {x} \in SUBSET W
        OBVIOUS
      <4> DEFINE rest == f[(s \ {x}) \ {a}]
      <4>1. f[s \ {a}] = g[x] + rest /\ rest \in Int
        BY <2>1, <2>2, <3>2, <4>2 DEF SumsUp
      <4>3. h[s] = g[a] + f[s \ {a}] /\ h[s \ {x}] = g[a] + rest
        BY <3>2, <4>2
      <4>4. g[a] \in Int /\ g[x] \in Int
        BY <3>2
      <4> HIDE DEF h, W, rest
      <4> QED
        BY <4>1, <4>3, <4>4
    <3>3. CASE a \notin s
      BY <2>1, <2>2, <3>3 DEF SumsUp
    <3> QED
      BY <3>1, <3>2, <3>3
  <2>6. SumsUp(h, g, W)
    <3> HIDE DEF h
    <3> QED
      BY <2>3, <2>4, <2>5 DEF SumsUp
  <2> QED
    BY <2>6
<1>3. G = SUBSET S
  <2> HIDE DEF G
  <2>1. G \in SUBSET SUBSET S
    BY DEF G
  <2> QED
    BY <1>1, <1>2, <2>1, SubsetInduction
<1> QED
  BY <1>3

(* The recursion of FoldFunctionOnSet.                                     *)
TakesOneAway(it, g, S) ==
  it = [s \in SUBSET S |->
          IF s = {} THEN 0
          ELSE g[CHOOSE x \in s : TRUE] + it[s \ {CHOOSE x \in s : TRUE}]]

(* Any recursion that takes some index away computes them.                 *)
LEMMA SumsAreUnique ==
  ASSUME NEW S, IsFiniteSet(S), NEW g, \A x \in S : g[x] \in Int,
         NEW f, SumsUp(f, g, S), NEW it, TakesOneAway(it, g, S)
  PROVE  it = f
<1> DEFINE B == {s \in SUBSET S : it[s] # f[s]}
<1>1. ASSUME B # {} PROVE FALSE
  <2>1. PICK T \in B : \A U \in B : U \subseteq T => U = T
    <3>1. B \in SUBSET SUBSET S
      OBVIOUS
    <3> HIDE DEF B
    <3> QED
      BY <1>1, <3>1, MinimalSet
  <2>2. T # {}
    <3>1. it[{}] = 0
      BY DEF TakesOneAway
    <3> QED
      BY <2>1, <3>1 DEF SumsUp
  <2> DEFINE x == CHOOSE y \in T : TRUE
  <2>3. x \in T
    BY <2>2
  <2>4. it[T] = g[x] + it[T \ {x}]
    BY <2>2 DEF TakesOneAway
  <2>5. T \ {x} \in SUBSET S /\ T \ {x} # T
    BY <2>3
  <2>6. it[T \ {x}] = f[T \ {x}]
    BY <2>1, <2>5
  <2>7. f[T] = g[x] + f[T \ {x}]
    BY <2>3 DEF SumsUp
  <2> QED
    BY <2>1, <2>4, <2>6, <2>7
<1>2. \A s \in SUBSET S : it[s] = f[s]
  BY <1>1
<1> QED
  BY <1>2 DEF SumsUp, TakesOneAway

(* What SumFunctionOnSet computes is such a sum.                           *)
LEMMA SumIsSum ==
  ASSUME NEW S, IsFiniteSet(S), NEW g, \A x \in S : g[x] \in Int,
         NEW f, SumsUp(f, g, S)
  PROVE  SumFunctionOnSet(g, S) = f[S]
<1>1. SumFunctionOnSet(g, S) = (CHOOSE it : TakesOneAway(it, g, S))[S]
  BY DEF SumFunctionOnSet, FoldFunctionOnSet, MapThenFoldSet, TakesOneAway
<1>2. TakesOneAway(f, g, S)
  <2> DEFINE h == [s \in SUBSET S |->
              IF s = {} THEN 0
              ELSE g[CHOOSE x \in s : TRUE] + f[s \ {CHOOSE x \in s : TRUE}]]
  <2>1. ASSUME NEW s \in SUBSET S PROVE f[s] = h[s]
    <3>1. CASE s = {}
      BY <3>1 DEF SumsUp
    <3>2. CASE s # {}
      <4>1. (CHOOSE x \in s : TRUE) \in s
        BY <3>2
      <4> QED
        BY <3>2, <4>1 DEF SumsUp
    <3> QED
      BY <3>1, <3>2
  <2> QED
    BY <2>1 DEF SumsUp, TakesOneAway
<1> DEFINE it == CHOOSE i : TakesOneAway(i, g, S)
<1>3. TakesOneAway(it, g, S)
  BY <1>2
<1> HIDE DEF it
<1>4. it = f
  BY <1>3, SumsAreUnique
<1> QED
  BY <1>1, <1>4 DEF it

(* A sum of integers is an integer.                                        *)
LEMMA SumIsInt ==
  ASSUME NEW S, IsFiniteSet(S), NEW g, \A x \in S : g[x] \in Int
  PROVE  SumFunctionOnSet(g, S) \in Int
<1>1. PICK f : SumsUp(f, g, S)
  BY SumsExist
<1>2. f[S] \in Int
  BY <1>1 DEF SumsUp
<1> QED
  BY <1>1, <1>2, SumIsSum

(* The sum over no indices is 0.                                           *)
LEMMA SumOfNone ==
  ASSUME NEW g
  PROVE  SumFunctionOnSet(g, {}) = 0
<1>1. IsFiniteSet({})
  BY FS_EmptySet
<1>2. PICK f : SumsUp(f, g, {})
  BY <1>1, SumsExist
<1> QED
  BY <1>1, <1>2, SumIsSum DEF SumsUp

(* One index more adds its term.                                           *)
LEMMA SumOfOneMore ==
  ASSUME NEW S, IsFiniteSet(S), NEW g, NEW x, x \notin S,
         \A y \in S \cup {x} : g[y] \in Int
  PROVE  SumFunctionOnSet(g, S \cup {x}) = SumFunctionOnSet(g, S) + g[x]
<1> DEFINE W == S \cup {x}
<1>1. IsFiniteSet(W)
  BY FS_AddElement
<1>2. PICK f : SumsUp(f, g, W)
  BY <1>1, SumsExist
<1>3. SumsUp([s \in SUBSET S |-> f[s]], g, S)
  BY <1>2 DEF SumsUp
<1>4. SumFunctionOnSet(g, W) = f[W]
  BY <1>1, <1>2, SumIsSum
<1>5. SumFunctionOnSet(g, S) = f[S]
  <2>1. SumFunctionOnSet(g, S) = [s \in SUBSET S |-> f[s]][S]
    BY <1>3, SumIsSum
  <2> QED
    BY <2>1
<1>6. f[W] = g[x] + f[S] /\ f[S] \in Int /\ g[x] \in Int
  <2>1. W \ {x} = S /\ x \in W /\ S \in SUBSET W
    OBVIOUS
  <2> HIDE DEF W
  <2> QED
    BY <1>2, <2>1 DEF SumsUp
<1> HIDE DEF W
<1>7. SumFunctionOnSet(g, W) = SumFunctionOnSet(g, S) + g[x]
  BY <1>4, <1>5, <1>6
<1> QED
  BY <1>7 DEF W

(* A sum depends on the terms of its indices only.                         *)
LEMMA SumOfSameTerms ==
  ASSUME NEW S, IsFiniteSet(S), NEW g, NEW h,
         \A x \in S : g[x] \in Int /\ g[x] = h[x]
  PROVE  SumFunctionOnSet(g, S) = SumFunctionOnSet(h, S)
<1>1. PICK f : SumsUp(f, g, S)
  BY SumsExist
<1>2. SumsUp(f, h, S)
  BY <1>1 DEF SumsUp
<1> QED
  BY <1>1, <1>2, SumIsSum

(* Terms that are natural numbers have a natural sum.                      *)
LEMMA SumIsNat ==
  ASSUME NEW S, IsFiniteSet(S), NEW g, \A x \in S : g[x] \in Nat
  PROVE  SumFunctionOnSet(g, S) \in Nat
<1> DEFINE G == {T \in SUBSET S : SumFunctionOnSet(g, T) \in Nat}
<1>1. {} \in G
  BY SumOfNone
<1>2. ASSUME NEW T \in G, NEW x \in S \ T
      PROVE  T \cup {x} \in G
  <2>1. IsFiniteSet(T)
    BY FS_Subset
  <2>2. \A y \in T \cup {x} : g[y] \in Int
    OBVIOUS
  <2>3. SumFunctionOnSet(g, T \cup {x}) = SumFunctionOnSet(g, T) + g[x]
    BY <2>1, <2>2, SumOfOneMore
  <2> QED
    BY <2>3
<1>3. G = SUBSET S
  <2>1. G \in SUBSET SUBSET S
    OBVIOUS
  <2> HIDE DEF G
  <2> QED
    BY <1>1, <1>2, <2>1, SubsetInduction
<1> QED
  BY <1>3

(* h has one index more than g, and is g elsewhere.                        *)
Prolongs(h, g, S, x) ==
  /\ IsFiniteSet(S) /\ x \notin S
  /\ DOMAIN g = S /\ DOMAIN h = S \cup {x}
  /\ h[x] \in Int
  /\ \A y \in S : g[y] \in Int /\ h[y] = g[y]

(* Then its sum is greater by that term.                                   *)
LEMMA SumFunctionGrows ==
  ASSUME NEW S, NEW x, NEW g, NEW h, Prolongs(h, g, S, x)
  PROVE  SumFunction(h) = SumFunction(g) + h[x]
<1> USE DEF Prolongs
<1>1. SumFunctionOnSet(h, S \cup {x}) = SumFunctionOnSet(h, S) + h[x]
  BY SumOfOneMore
<1>2. SumFunctionOnSet(h, S) = SumFunctionOnSet(g, S)
  BY SumOfSameTerms
<1> QED
  BY <1>1, <1>2 DEF SumFunction

-----------------------------------------------------------------------------
(* A sum over a part is one over the whole with 0 for what is not in it.   *)
LEMMA SumOfPart ==
  ASSUME NEW S, IsFiniteSet(S), NEW T \in SUBSET S,
         NEW g, \A x \in S : g[x] \in Int,
         NEW h, \A x \in S : h[x] = IF x \in T THEN g[x] ELSE 0
  PROVE  SumFunctionOnSet(h, S) = SumFunctionOnSet(g, T)
<1> DEFINE G == {U \in SUBSET S :
                   SumFunctionOnSet(h, U) = SumFunctionOnSet(g, U \cap T)}
<1>1. {} \in G
  <2>1. {} \cap T = {}
    OBVIOUS
  <2> QED
    BY <2>1, SumOfNone
<1>2. ASSUME NEW U \in G, NEW x \in S \ U
      PROVE  U \cup {x} \in G
  <2>1. IsFiniteSet(U) /\ IsFiniteSet(U \cap T)
    BY FS_Subset
  <2>2. SumFunctionOnSet(h, U \cup {x}) = SumFunctionOnSet(h, U) + h[x]
    <3>1. x \notin U /\ \A y \in U \cup {x} : h[y] \in Int
      <4>1. \A y \in S : h[y] \in Int
        OBVIOUS
      <4> QED
        BY <4>1
    <3> HIDE DEF G
    <3> QED
      BY <2>1, <3>1, SumOfOneMore
  <2>3. CASE x \in T
    <3>1. (U \cup {x}) \cap T = (U \cap T) \cup {x} /\ x \notin U \cap T
      BY <2>3
    <3>2. \A y \in (U \cap T) \cup {x} : g[y] \in Int
      OBVIOUS
    <3>3. SumFunctionOnSet(g, (U \cap T) \cup {x})
            = SumFunctionOnSet(g, U \cap T) + g[x]
      BY <2>1, <3>1, <3>2, SumOfOneMore
    <3> QED
      BY <2>2, <2>3, <3>1, <3>3
  <2>4. CASE x \notin T
    <3>1. (U \cup {x}) \cap T = U \cap T
      BY <2>4
    <3>2. SumFunctionOnSet(h, U) \in Int
      <4>1. \A y \in U : h[y] \in Int
        OBVIOUS
      <4> QED
        BY <2>1, <4>1, SumIsInt
    <3>3. SumFunctionOnSet(h, U \cup {x}) = SumFunctionOnSet(h, U)
      BY <2>2, <2>4, <3>2
    <3> QED
      BY <3>1, <3>3
  <2> QED
    BY <2>3, <2>4
<1>3. S \in G
  <2>1. G \in SUBSET SUBSET S
    OBVIOUS
  <2> HIDE DEF G
  <2>2. G = SUBSET S
    BY <1>1, <1>2, <2>1, SubsetInduction
  <2> QED
    BY <2>2
<1>4. S \cap T = T
  OBVIOUS
<1> QED
  BY <1>3, <1>4

(* What balances term by term balances in the sums.                        *)
Balanced(a, b, c, d, S) ==
  \A x \in S : /\ a[x] \in Int /\ b[x] \in Int /\ c[x] \in Int /\ d[x] \in Int
              /\ a[x] + b[x] = c[x] + d[x]

LEMMA SumsBalance ==
  ASSUME NEW S, IsFiniteSet(S), NEW a, NEW b, NEW c, NEW d,
         Balanced(a, b, c, d, S)
  PROVE  SumFunctionOnSet(a, S) + SumFunctionOnSet(b, S)
           = SumFunctionOnSet(c, S) + SumFunctionOnSet(d, S)
<1> DEFINE G == {U \in SUBSET S :
                   SumFunctionOnSet(a, U) + SumFunctionOnSet(b, U)
                     = SumFunctionOnSet(c, U) + SumFunctionOnSet(d, U)}
<1>1. {} \in G
  BY SumOfNone
<1>2. ASSUME NEW U \in G, NEW x \in S \ U
      PROVE  U \cup {x} \in G
  <2>1. IsFiniteSet(U)
    BY FS_Subset
  <2>2. \A y \in U \cup {x} : /\ a[y] \in Int /\ b[y] \in Int
                             /\ c[y] \in Int /\ d[y] \in Int
    BY DEF Balanced
  <2>3. /\ SumFunctionOnSet(a, U) \in Int /\ SumFunctionOnSet(b, U) \in Int
        /\ SumFunctionOnSet(c, U) \in Int /\ SumFunctionOnSet(d, U) \in Int
    <3>1. /\ \A y \in U : a[y] \in Int
          /\ \A y \in U : b[y] \in Int
          /\ \A y \in U : c[y] \in Int
          /\ \A y \in U : d[y] \in Int
      BY <2>2
    <3> QED
      BY <2>1, <3>1, SumIsInt
  <2>4. /\ SumFunctionOnSet(a, U \cup {x}) = SumFunctionOnSet(a, U) + a[x]
        /\ SumFunctionOnSet(b, U \cup {x}) = SumFunctionOnSet(b, U) + b[x]
        /\ SumFunctionOnSet(c, U \cup {x}) = SumFunctionOnSet(c, U) + c[x]
        /\ SumFunctionOnSet(d, U \cup {x}) = SumFunctionOnSet(d, U) + d[x]
    <3>1. x \notin U
      OBVIOUS
    <3>2. SumFunctionOnSet(a, U \cup {x}) = SumFunctionOnSet(a, U) + a[x]
      <4>1. \A y \in U \cup {x} : a[y] \in Int
        BY <2>2
      <4> HIDE DEF G
      <4> QED
        BY <2>1, <3>1, <4>1, SumOfOneMore
    <3>3. SumFunctionOnSet(b, U \cup {x}) = SumFunctionOnSet(b, U) + b[x]
      <4>1. \A y \in U \cup {x} : b[y] \in Int
        BY <2>2
      <4> HIDE DEF G
      <4> QED
        BY <2>1, <3>1, <4>1, SumOfOneMore
    <3>4. SumFunctionOnSet(c, U \cup {x}) = SumFunctionOnSet(c, U) + c[x]
      <4>1. \A y \in U \cup {x} : c[y] \in Int
        BY <2>2
      <4> HIDE DEF G
      <4> QED
        BY <2>1, <3>1, <4>1, SumOfOneMore
    <3>5. SumFunctionOnSet(d, U \cup {x}) = SumFunctionOnSet(d, U) + d[x]
      <4>1. \A y \in U \cup {x} : d[y] \in Int
        BY <2>2
      <4> HIDE DEF G
      <4> QED
        BY <2>1, <3>1, <4>1, SumOfOneMore
    <3> QED
      BY <3>2, <3>3, <3>4, <3>5
  <2>5. /\ a[x] \in Int /\ b[x] \in Int /\ c[x] \in Int /\ d[x] \in Int
        /\ a[x] + b[x] = c[x] + d[x]
    BY DEF Balanced
  <2> DEFINE W == U \cup {x}
  <2>6. SumFunctionOnSet(a, W) + SumFunctionOnSet(b, W)
          = SumFunctionOnSet(c, W) + SumFunctionOnSet(d, W)
    BY <2>3, <2>4, <2>5
  <2> QED
    BY <2>6
<1>3. S \in G
  <2>1. G \in SUBSET SUBSET S
    OBVIOUS
  <2> HIDE DEF G
  <2>2. G = SUBSET S
    BY <1>1, <1>2, <2>1, SubsetInduction
  <2> QED
    BY <2>2
<1> QED
  BY <1>3

-----------------------------------------------------------------------------
(* Folds over a sequence (FoldLeft), which recur on sets of indices.       *)

(* The last of some indices.                                                *)
LEMMA LastOfIndices ==
  ASSUME NEW n \in Nat, NEW S \in SUBSET (1 .. n), S # {}
  PROVE  /\ Max(S) \in S /\ \A x \in S : Max(S) >= x
         /\ Max(S) \in 1 .. n
<1>1. S \in SUBSET (0 .. n)
  OBVIOUS
<1>2. Max(S) \in S /\ \A x \in S : Max(S) >= x
  BY <1>1, GreatestNumber
<1> QED
  BY <1>2

LEMMA LastOfAll ==
  ASSUME NEW n \in Nat, n > 0
  PROVE  Max(1 .. n) = n /\ (1 .. n) \ {n} = 1 .. (n - 1)
<1>1. n \in 1 .. n
  OBVIOUS
<1>2. Max(1 .. n) \in 1 .. n /\ Max(1 .. n) >= n
  BY <1>1, LastOfIndices
<1>3. Max(1 .. n) = n
  BY <1>2
<1> QED
  BY <1>3

(* A recursion on sets of indices, from base by a function of the value so *)
(* far and of the next index.                                              *)
Recurs(it, base, step, n) ==
  \A S \in SUBSET (1 .. n) :
    it[S] = IF S = {} THEN base ELSE step[<<it[S \ {Max(S)}], Max(S)>>]

HasRecursion(T, base, step, n) ==
  \E it \in [SUBSET (1 .. n) -> T] : Recurs(it, base, step, n)

LEMMA RecursionExists ==
  ASSUME NEW T, NEW base \in T, NEW n \in Nat,
         NEW step \in [T \X (1 .. n) -> T]
  PROVE  HasRecursion(T, base, step, n)
<1> DEFINE G == {m \in Nat : m <= n => HasRecursion(T, base, step, m)}
<1>1. 0 \in G
  <2> DEFINE it == [S \in SUBSET (1 .. 0) |-> base]
  <2>1. \A S \in SUBSET (1 .. 0) : S = {}
    OBVIOUS
  <2>2. it \in [SUBSET (1 .. 0) -> T] /\ Recurs(it, base, step, 0)
    BY <2>1 DEF Recurs
  <2> HIDE DEF it
  <2>3. HasRecursion(T, base, step, 0)
    BY <2>2 DEF HasRecursion
  <2> QED
    BY <2>3
<1>2. ASSUME NEW m \in G PROVE m + 1 \in G
  <2> DEFINE k == m + 1
  <2> SUFFICES ASSUME k <= n PROVE HasRecursion(T, base, step, k)
    OBVIOUS
  <2>0. HasRecursion(T, base, step, m)
    OBVIOUS
  <2> m \in Nat
    OBVIOUS
  <2> HIDE DEF G
  <2>1. PICK it \in [SUBSET (1 .. m) -> T] : Recurs(it, base, step, m)
    BY <2>0 DEF HasRecursion
  <2> DEFINE f == [S \in SUBSET (1 .. k) |->
                     IF k \in S THEN step[<<it[S \ {k}], k>>] ELSE it[S]]
  <2>2. ASSUME NEW S \in SUBSET (1 .. k)
        PROVE  f[S] \in T
    <3>1. k \in 1 .. n
      OBVIOUS
    <3>2. CASE k \in S
      <4>1. \A x \in S \ {k} : x \in 1 .. m
        OBVIOUS
      <4>2. S \ {k} \in SUBSET (1 .. m)
        BY <4>1
      <4>3. <<it[S \ {k}], k>> \in T \X (1 .. n)
        BY <2>1, <3>1, <4>2
      <4> QED
        BY <3>2, <4>3
    <3>3. CASE k \notin S
      <4>1. \A x \in S : x \in 1 .. m
        BY <3>3
      <4>2. S \in SUBSET (1 .. m)
        BY <4>1
      <4> QED
        BY <2>1, <3>3, <4>2
    <3> QED
      BY <3>2, <3>3
  <2>3. ASSUME NEW S \in SUBSET (1 .. k)
        PROVE  f[S] = IF S = {} THEN base
                      ELSE step[<<f[S \ {Max(S)}], Max(S)>>]
    <3>1. CASE k \in S
      <4>1. Max(S) = k
        <5>1. Max(S) >= k /\ Max(S) \in 1 .. k
          BY <3>1, LastOfIndices
        <5> QED
          BY <5>1
      <4>2. S \ {k} \in SUBSET (1 .. k) /\ k \notin S \ {k}
        OBVIOUS
      <4>3. f[S \ {k}] = it[S \ {k}]
        BY <4>2
      <4>4. f[S] = step[<<it[S \ {k}], k>>]
        BY <3>1
      <4> HIDE DEF f
      <4> QED
        BY <3>1, <4>1, <4>3, <4>4
    <3>2. CASE k \notin S
      <4>1. S \in SUBSET (1 .. m)
        BY <3>2
      <4>2. f[S] = it[S]
        BY <3>2
      <4>3. it[S] = IF S = {} THEN base ELSE step[<<it[S \ {Max(S)}], Max(S)>>]
        BY <2>1, <4>1 DEF Recurs
      <4>4. f[S \ {Max(S)}] = it[S \ {Max(S)}]
        <5>1. S \ {Max(S)} \in SUBSET (1 .. k) /\ k \notin S \ {Max(S)}
          BY <3>2
        <5> QED
          BY <5>1
      <4> HIDE DEF f
      <4> QED
        BY <4>2, <4>3, <4>4
    <3> QED
      BY <3>1, <3>2
  <2>4. f = [S \in SUBSET (1 .. k) |-> f[S]]
    OBVIOUS
  <2> HIDE DEF f
  <2>5. f \in [SUBSET (1 .. k) -> T] /\ Recurs(f, base, step, k)
    BY <2>2, <2>3, <2>4 DEF Recurs
  <2> QED
    BY <2>5 DEF HasRecursion
<1>3. G = Nat
  <2> HIDE DEF G
  <2>1. G \in SUBSET Nat
    BY DEF G
  <2> QED
    BY <1>1, <1>2, <2>1, NumberInduction
<1>4. n \in G /\ n <= n
  BY <1>3
<1> QED
  BY <1>4

(* What holds of the base and is kept by every index holds of the result.  *)
LEMMA RecursionKeeps ==
  ASSUME NEW T, NEW n \in Nat, NEW it, it[{}] \in T,
         \A m \in 1 .. n : it[1 .. (m - 1)] \in T => it[1 .. m] \in T
  PROVE  it[1 .. n] \in T
<1> DEFINE G == {m \in Nat : m <= n => it[1 .. m] \in T}
<1>1. 0 \in G
  <2>1. 1 .. 0 = {}
    OBVIOUS
  <2> QED
    BY <2>1
<1>2. ASSUME NEW m \in G PROVE m + 1 \in G
  <2> SUFFICES ASSUME m + 1 <= n PROVE it[1 .. (m + 1)] \in T
    OBVIOUS
  <2>1. m + 1 \in 1 .. n /\ (m + 1) - 1 = m /\ m <= n
    OBVIOUS
  <2>2. it[1 .. m] \in T
    BY <2>1
  <2> QED
    BY <2>1, <2>2
<1>3. G = Nat
  <2> HIDE DEF G
  <2>1. G \in SUBSET Nat
    BY DEF G
  <2> QED
    BY <1>1, <1>2, <2>1, NumberInduction
<1>4. n \in G /\ n <= n
  BY <1>3
<1> QED
  BY <1>4
-----------------------------------------------------------------------------
(* FlattenSeq, one sequence after the other.                               *)
Flattens(f, seqs, n) ==
  f = [i \in 1 .. n |-> IF i = 1 THEN seqs[i] ELSE f[i - 1] \o seqs[i]]

LEMMA FlatExists ==
  ASSUME NEW seqs, NEW n \in Nat
  PROVE  \E f : Flattens(f, seqs, n)
<1> DEFINE G == {m \in Nat : \E f : Flattens(f, seqs, m)}
<1>1. 0 \in G
  <2> DEFINE f == [i \in 1 .. 0 |-> i]
  <2>1. f = [i \in 1 .. 0 |-> IF i = 1 THEN seqs[i] ELSE f[i - 1] \o seqs[i]]
    OBVIOUS
  <2> HIDE DEF f
  <2> QED
    BY <2>1 DEF Flattens
<1>2. ASSUME NEW m \in G PROVE m + 1 \in G
  <2>1. PICK f : Flattens(f, seqs, m)
    OBVIOUS
  <2> DEFINE k == m + 1
             g == [i \in 1 .. k |->
                     IF i <= m THEN f[i]
                     ELSE IF i = 1 THEN seqs[i] ELSE f[i - 1] \o seqs[i]]
  <2>2. ASSUME NEW i \in 1 .. k
        PROVE  g[i] = IF i = 1 THEN seqs[i] ELSE g[i - 1] \o seqs[i]
    <3>1. i > 1 => i - 1 \in 1 .. k /\ i - 1 \in 1 .. m
      OBVIOUS
    <3>2. i > 1 => g[i - 1] = f[i - 1]
      BY <3>1
    <3>3. i <= m => g[i] = f[i]
      OBVIOUS
    <3>4. i <= m => f[i] = IF i = 1 THEN seqs[i] ELSE f[i - 1] \o seqs[i]
      <4>1. i <= m => i \in 1 .. m
        OBVIOUS
      <4> QED
        BY <2>1, <4>1 DEF Flattens
    <3>5. ~ i <= m => g[i] = IF i = 1 THEN seqs[i] ELSE f[i - 1] \o seqs[i]
      OBVIOUS
    <3>6. i = 1 \/ i > 1
      OBVIOUS
    <3> HIDE DEF g
    <3> QED
      BY <3>2, <3>3, <3>4, <3>5, <3>6
  <2>3. g = [i \in 1 .. k |-> g[i]]
    OBVIOUS
  <2> HIDE DEF g
  <2>4. Flattens(g, seqs, k)
    BY <2>2, <2>3 DEF Flattens
  <2> QED
    BY <2>4
<1>3. G = Nat
  <2> HIDE DEF G
  <2>1. G \in SUBSET Nat
    BY DEF G
  <2> QED
    BY <1>1, <1>2, <2>1, NumberInduction
<1> QED
  BY <1>3

LEMMA FlattenStepwise ==
  ASSUME NEW seqs, Len(seqs) \in Nat, Len(seqs) # 0
  PROVE  \E f : /\ FlattenSeq(seqs) = f[Len(seqs)]
                /\ f[1] = seqs[1]
                /\ \A i \in 2 .. Len(seqs) : f[i] = f[i - 1] \o seqs[i]
<1> DEFINE n == Len(seqs)
           f == CHOOSE g : Flattens(g, seqs, n)
<1>1. FlattenSeq(seqs) = f[n]
  BY DEF FlattenSeq, Flattens
<1>2. Flattens(f, seqs, n)
  BY FlatExists
<1> HIDE DEF f
<1>3. f[1] = seqs[1]
  BY <1>2 DEF Flattens
<1>4. ASSUME NEW i \in 2 .. n PROVE f[i] = f[i - 1] \o seqs[i]
  <2>1. i \in 1 .. n /\ i # 1
    OBVIOUS
  <2> QED
    BY <1>2, <2>1 DEF Flattens
<1> QED
  BY <1>1, <1>3, <1>4

(* If each sequence carries the flattened ones before it from one set to   *)
(* the next, all of them flattened are in the last set.                    *)
LEMMA FlattenKeeps ==
  ASSUME NEW T, NEW seqs \in Seq(Seq(T)), NEW at, <<>> \in at[0],
         \A k \in 1 .. Len(seqs) : \A q \in at[k - 1] \cap Seq(T) :
           q \o seqs[k] \in at[k]
  PROVE  FlattenSeq(seqs) \in at[Len(seqs)] \cap Seq(T)
<1> DEFINE n == Len(seqs)
<1>1. n \in Nat /\ \A k \in 1 .. n : seqs[k] \in Seq(T)
  OBVIOUS
<1>2. CASE n = 0
  <2>1. seqs = <<>> /\ FlattenSeq(seqs) = <<>>
    BY <1>2 DEF FlattenSeq
  <2>2. <<>> \in Seq(T)
    OBVIOUS
  <2> QED
    BY <1>2, <2>1, <2>2
<1>3. CASE n # 0
  <2>1. PICK f : /\ FlattenSeq(seqs) = f[n]
                 /\ f[1] = seqs[1]
                 /\ \A i \in 2 .. n : f[i] = f[i - 1] \o seqs[i]
    BY <1>1, <1>3, FlattenStepwise
  <2> DEFINE Holds(k) == f[k] \in at[k] \cap Seq(T)
             G == {k \in Nat : k + 1 <= n => Holds(k + 1)}
  <2>2. 0 \in G
    <3>1. 1 \in 1 .. n /\ 1 - 1 = 0 /\ 0 + 1 = 1
      BY <1>1, <1>3
    <3>2. seqs[1] \in Seq(T) /\ <<>> \in Seq(T) /\ <<>> \o seqs[1] = seqs[1]
      BY <1>1, <3>1
    <3>3. <<>> \o seqs[1] \in at[1]
      BY <3>1, <3>2
    <3>4. Holds(1)
      BY <2>1, <3>2, <3>3
    <3> HIDE DEF Holds
    <3> QED
      BY <3>1, <3>4
  <2>3. ASSUME NEW k \in G PROVE k + 1 \in G
    <3>0. k \in Nat
      OBVIOUS
    <3> DEFINE j == k + 1
               i == j + 1
    <3> SUFFICES ASSUME i <= n PROVE Holds(i)
      BY <3>0
    <3>1. Holds(j)
      BY <1>1, <3>0
    <3>2. i \in 2 .. n /\ i \in 1 .. n /\ i - 1 = j
      BY <1>1, <3>0
    <3> HIDE DEF i, j, G
    <3>3. f[i] = f[j] \o seqs[i]
      BY <2>1, <3>2
    <3>4. f[j] \o seqs[i] \in Seq(T)
      BY <1>1, <3>1, <3>2
    <3> QED
      BY <3>1, <3>2, <3>3, <3>4
  <2>4. G = Nat
    <3> HIDE DEF G
    <3>1. G \in SUBSET Nat
      BY DEF G
    <3> QED
      BY <2>2, <2>3, <3>1, NumberInduction
  <2>5. n - 1 \in Nat /\ (n - 1) + 1 = n
    BY <1>1, <1>3
  <2>6. Holds(n)
    <3>0. (n - 1) + 1 <= n
      BY <1>1, <2>5
    <3>1. n - 1 \in G
      <4> HIDE DEF G
      <4> QED
        BY <2>4, <2>5
    <3>2. Holds((n - 1) + 1)
      <4> HIDE DEF Holds
      <4> QED
        BY <3>0, <3>1
    <3> QED
      BY <2>5, <3>2
  <2> QED
    BY <2>1, <2>6
<1> QED
  BY <1>2, <1>3
=============================================================================
