---------------------------- MODULE Foundations -----------------------------
(***************************************************************************)
(* What the other proofs share: the smallest element of a set, functions   *)
(* defined one step after the other, sums over finite sets, filters, the   *)
(* foremost of an order, and parts of lists.                               *)
(*                                                                         *)
(* A sum of the community modules is a fold that takes out, again and      *)
(* again, the element that CHOOSE picks.  That it does not depend on the   *)
(* choice, agrees, compares, scales and splits as its terms do is proved   *)
(* without a theorem of induction: among the sets that break the claim one *)
(* has the fewest elements, and taking one out of it gives a smaller one.  *)
(* Recursive functions exist, and filters are what they should be, by the  *)
(* least number at which that would fail.                                  *)
(***************************************************************************)
EXTENDS Integers, Sequences, FiniteSets, Functions, Subsequences,
        FiniteSetTheorems, SequenceTheorems, WellFoundedInduction, TLAPS

LEMMA LeastExists ==
  ASSUME NEW S \in SUBSET Nat, S # {}
  PROVE \E x \in S : \A y \in S : x <= y
<1>1. PICK x \in S : \A y \in S : ~ (<<y, x>> \in OpToRel(<, Nat))
  BY NatLessThanWellFounded, WFMin
<1>2. \A y \in S : ~ (y < x)
  BY <1>1 DEF OpToRel
<1> QED BY <1>2

(* What is defined from one step to the next exists.                       *)
Steps(f, b, step, n) == f[0] = b /\ \A i \in 1..n : f[i] = step[i][f[i - 1]]

LEMMA RecursionExists ==
  ASSUME NEW n \in Nat, NEW X, NEW b \in X, NEW step \in [1..n -> [X -> X]]
  PROVE  \E f \in [0..n -> X] : Steps(f, b, step, n)
<1> DEFINE Bad == {m \in Nat : m <= n /\ ~ \E f \in [0..m -> X] : Steps(f, b, step, m)}
<1>1. SUFFICES ASSUME Bad # {} PROVE FALSE OBVIOUS
<1>2. PICK m \in Bad : \A k \in Bad : m <= k
  <2>1. Bad \in SUBSET Nat OBVIOUS
  <2> QED BY <1>1, <2>1, LeastExists
<1>3. CASE m = 0
  <2> DEFINE f == [i \in 0..0 |-> b]
  <2>1. f \in [0..0 -> X] /\ Steps(f, b, step, 0) BY DEF Steps
  <2> QED BY <1>2, <1>3, <2>1
<1>4. CASE m # 0
  <2>1. m - 1 \in Nat /\ m - 1 \notin Bad /\ m - 1 <= n BY <1>2, <1>4
  <2>2. PICK f \in [0..(m - 1) -> X] : Steps(f, b, step, m - 1) BY <2>1
  <2> DEFINE last == step[m][f[m - 1]]
             g == [i \in 0..m |-> IF i = m THEN last ELSE f[i]]
  <2>3. last \in X
    <3>1. m \in 1..n /\ m - 1 \in 0..(m - 1) BY <1>2, <1>4
    <3> QED BY <3>1
  <2> HIDE DEF last
  <2>4. g \in [0..m -> X] BY <2>1, <2>3
  <2>5. g[0] = b BY <1>4, <2>1, <2>2 DEF Steps
  <2>6. ASSUME NEW i \in 1..m PROVE g[i] = step[i][g[i - 1]]
    <3>1. i - 1 \in 0..m /\ i - 1 # m /\ g[i - 1] = f[i - 1] BY <2>1
    <3>2. CASE i = m BY <3>1, <3>2 DEF last
    <3>3. CASE i # m
      <4>1. i \in 1..(m - 1) /\ g[i] = f[i] BY <2>1, <3>3
      <4>2. f[i] = step[i][f[i - 1]] BY <2>2, <4>1 DEF Steps
      <4> QED BY <3>1, <4>1, <4>2
    <3> QED BY <3>2, <3>3
  <2>7. Steps(g, b, step, m) BY <2>5, <2>6 DEF Steps
  <2> QED BY <1>2, <2>4, <2>7
<1> QED BY <1>3, <1>4
-----------------------------------------------------------------------------
(* Sums over finite sets: SumFunctionOnSet unfolds along the elements that *)
(* CHOOSE takes out one after the other, and does not depend on them.      *)
Drawn(s) == CHOOSE x \in s : TRUE

Unfolds(g, f, D) == g = [s \in D |-> IF s = {} THEN 0 ELSE f[Drawn(s)] + g[s \ {Drawn(s)}]]

Upto(S, n) == {s \in SUBSET S : Cardinality(s) <= n}

LEMMA SumDef ==
  ASSUME NEW f, NEW S
  PROVE  SumFunctionOnSet(f, S) = (CHOOSE g : Unfolds(g, f, SUBSET S))[S]
BY DEF SumFunctionOnSet, FoldFunctionOnSet, MapThenFoldSet, Unfolds, Drawn

(* Induction over finite sets: a set of finite sets has a smallest one.    *)
LEMMA SmallestExists ==
  ASSUME NEW U, U # {}, \A s \in U : IsFiniteSet(s)
  PROVE  \E s \in U : \A t \in U : Cardinality(s) <= Cardinality(t)
<1> DEFINE C == {Cardinality(s) : s \in U}
<1>1. C \in SUBSET Nat /\ C # {} BY FS_CardinalityType
<1>2. PICK c \in C : \A d \in C : c <= d BY <1>1, LeastExists
<1> QED BY <1>2

LEMMA DrawnFacts ==
  ASSUME NEW S, IsFiniteSet(S), NEW s \in SUBSET S
  PROVE  /\ IsFiniteSet(s) /\ Cardinality(s) \in Nat
         /\ Cardinality(s) = 0 <=> s = {}
         /\ s # {} => Drawn(s) \in s
         /\ \A x \in s : s \ {x} \in SUBSET S /\ Cardinality(s \ {x}) = Cardinality(s) - 1
<1>1. IsFiniteSet(s) BY FS_Subset
<1>2. s # {} => Drawn(s) \in s BY DEF Drawn
<1> QED BY <1>1, <1>2, FS_CardinalityType, FS_EmptySet, FS_RemoveElement

LEMMA SumExistsUpto ==
  ASSUME NEW f, NEW S, IsFiniteSet(S), NEW n \in Nat
  PROVE  \E g : Unfolds(g, f, Upto(S, n))
<1> DEFINE Bad == {m \in Nat : ~ \E g : Unfolds(g, f, Upto(S, m))}
<1> SUFFICES ASSUME Bad # {} PROVE FALSE OBVIOUS
<1>1. PICK m \in Bad : \A k \in Bad : m <= k
  <2>1. Bad \in SUBSET Nat OBVIOUS
  <2> QED BY <2>1, LeastExists
<1>2. CASE m = 0
  <2> DEFINE g == [s \in Upto(S, 0) |-> 0]
  <2>1. \A s \in Upto(S, 0) : s = {} BY DrawnFacts DEF Upto
  <2>2. Unfolds(g, f, Upto(S, 0)) BY <2>1 DEF Unfolds
  <2> QED BY <1>2, <2>2
<1>3. CASE m # 0
  <2>1. m - 1 \in Nat BY <1>3
  <2>2. m - 1 \notin Bad BY <1>1, <2>1
  <2>3. PICK g : Unfolds(g, f, Upto(S, m - 1)) BY <2>1, <2>2
  <2> DEFINE h == [s \in Upto(S, m) |-> IF s = {} THEN 0 ELSE f[Drawn(s)] + g[s \ {Drawn(s)}]]
  <2>4. ASSUME NEW s \in Upto(S, m), s # {} PROVE g[s \ {Drawn(s)}] = h[s \ {Drawn(s)}]
    <3> DEFINE t == s \ {Drawn(s)}
    <3>1. s \in SUBSET S /\ Cardinality(s) <= m BY DEF Upto
    <3>2. t \in SUBSET S /\ Cardinality(t) <= m - 1 /\ Cardinality(t) \in Nat BY <2>4, <3>1, DrawnFacts
    <3>3. t \in Upto(S, m - 1) /\ t \in Upto(S, m) BY <3>2 DEF Upto
    <3> HIDE DEF t
    <3>4. g[t] = IF t = {} THEN 0 ELSE f[Drawn(t)] + g[t \ {Drawn(t)}] BY <2>3, <3>3 DEF Unfolds
    <3>5. h[t] = IF t = {} THEN 0 ELSE f[Drawn(t)] + g[t \ {Drawn(t)}] BY <3>3
    <3> QED BY <3>4, <3>5 DEF t
  <2>5. h = [s \in Upto(S, m) |-> IF s = {} THEN 0 ELSE f[Drawn(s)] + h[s \ {Drawn(s)}]]
    BY <2>4
  <2>6. Unfolds(h, f, Upto(S, m)) BY <2>5 DEF Unfolds
  <2> QED BY <1>1, <2>6
<1> QED BY <1>2, <1>3

SumOn(f, S) == CHOOSE g : Unfolds(g, f, SUBSET S)

LEMMA SumOnUnfolds ==
  ASSUME NEW f, NEW S, IsFiniteSet(S)
  PROVE  Unfolds(SumOn(f, S), f, SUBSET S)
<1>1. Cardinality(S) \in Nat /\ Upto(S, Cardinality(S)) = SUBSET S
  BY FS_CardinalityType, FS_Subset DEF Upto
<1>2. PICK g : Unfolds(g, f, Upto(S, Cardinality(S))) BY <1>1, SumExistsUpto
<1>3. \E h : Unfolds(h, f, SUBSET S) BY <1>1, <1>2, Zenon
<1> QED BY <1>3, Zenon DEF SumOn

(* The fold over a part of S does not depend on S.                         *)
LEMMA SumOnPart ==
  ASSUME NEW f, NEW S, IsFiniteSet(S), NEW T \in SUBSET S, NEW s \in SUBSET T
  PROVE  SumOn(f, S)[s] = SumOn(f, T)[s]
<1> DEFINE Bad == {u \in SUBSET T : SumOn(f, S)[u] # SumOn(f, T)[u]}
<1> SUFFICES ASSUME Bad # {} PROVE FALSE OBVIOUS
<1>1. IsFiniteSet(T) /\ \A u \in Bad : IsFiniteSet(u) BY DrawnFacts
<1>2. PICK u \in Bad : \A v \in Bad : Cardinality(u) <= Cardinality(v)
  BY <1>1, SmallestExists
<1>3. /\ SumOn(f, S)[u] = IF u = {} THEN 0 ELSE f[Drawn(u)] + SumOn(f, S)[u \ {Drawn(u)}]
      /\ SumOn(f, T)[u] = IF u = {} THEN 0 ELSE f[Drawn(u)] + SumOn(f, T)[u \ {Drawn(u)}]
  <2>1. u \in SUBSET T /\ u \in SUBSET S OBVIOUS
  <2>2. Unfolds(SumOn(f, S), f, SUBSET S) /\ Unfolds(SumOn(f, T), f, SUBSET T)
    BY <1>1, SumOnUnfolds
  <2> QED BY <2>1, <2>2 DEF Unfolds
<1>4. u # {} BY <1>3
<1>5. u \ {Drawn(u)} \in SUBSET T /\ ~ (Cardinality(u) <= Cardinality(u \ {Drawn(u)}))
  BY <1>1, <1>4, DrawnFacts
<1>6. u \ {Drawn(u)} \notin Bad BY <1>2, <1>5
<1> QED BY <1>2, <1>3, <1>5, <1>6

LEMMA SumUnfolds ==
  ASSUME NEW f, NEW S, IsFiniteSet(S)
  PROVE  /\ SumFunctionOnSet(f, {}) = 0
         /\ S # {} => SumFunctionOnSet(f, S) = f[Drawn(S)] + SumFunctionOnSet(f, S \ {Drawn(S)})
<1>1. \A T : SumFunctionOnSet(f, T) = SumOn(f, T)[T] BY SumDef DEF SumOn
<1>2. SumFunctionOnSet(f, {}) = 0
  <2>1. Unfolds(SumOn(f, {}), f, SUBSET {}) BY SumOnUnfolds, FS_EmptySet
  <2>2. SumOn(f, {})[{}] = 0 BY <2>1 DEF Unfolds
  <2> QED BY <1>1, <2>2
<1>3. ASSUME S # {} PROVE SumFunctionOnSet(f, S) = f[Drawn(S)] + SumFunctionOnSet(f, S \ {Drawn(S)})
  <2> DEFINE R == S \ {Drawn(S)}
  <2>1. SumOn(f, S)[S] = f[Drawn(S)] + SumOn(f, S)[R]
    <3>1. Unfolds(SumOn(f, S), f, SUBSET S) /\ S \in SUBSET S BY SumOnUnfolds
    <3> QED BY <1>3, <3>1 DEF Unfolds
  <2>2. SumOn(f, S)[R] = SumOn(f, R)[R] BY SumOnPart
  <2> QED BY <1>1, <2>1, <2>2
<1> QED BY <1>2, <1>3

(* The properties of sums of integers: any element can be taken out, sums  *)
(* agree, scale, are positive and split as their terms do.                 *)
LEMMA SumIsInt ==
  ASSUME NEW f, NEW S, IsFiniteSet(S), \A x \in S : f[x] \in Int
  PROVE  SumFunctionOnSet(f, S) \in Int
<1> DEFINE Bad == {T \in SUBSET S : SumFunctionOnSet(f, T) \notin Int}
<1> SUFFICES ASSUME Bad # {} PROVE FALSE OBVIOUS
<1>0. \A T \in SUBSET S : IsFiniteSet(T) BY FS_Subset
<1>1. PICK T \in Bad : \A V \in Bad : Cardinality(T) <= Cardinality(V)
  <2>1. \A T \in Bad : IsFiniteSet(T) BY <1>0
  <2> HIDE DEF Bad
  <2> QED BY <2>1, SmallestExists
<1>2. IsFiniteSet(T) /\ T # {}
  <2>1. IsFiniteSet(T) BY <1>0
  <2>2. SumFunctionOnSet(f, {}) = 0 BY SumUnfolds, FS_EmptySet
  <2> QED BY <1>1, <2>1, <2>2
<1>3. SumFunctionOnSet(f, T) = f[Drawn(T)] + SumFunctionOnSet(f, T \ {Drawn(T)})
  BY <1>2, SumUnfolds
<1>4. Drawn(T) \in T /\ T \ {Drawn(T)} \in SUBSET S /\ ~ (Cardinality(T) <= Cardinality(T \ {Drawn(T)}))
  BY <1>2, DrawnFacts
<1>5. SumFunctionOnSet(f, T \ {Drawn(T)}) \in Int BY <1>1, <1>4
<1> QED BY <1>1, <1>3, <1>4, <1>5

LEMMA SumTakesOut ==
  ASSUME NEW f, NEW S, IsFiniteSet(S), \A x \in S : f[x] \in Int, NEW a \in S
  PROVE  SumFunctionOnSet(f, S) = f[a] + SumFunctionOnSet(f, S \ {a})
<1> DEFINE Sum(T) == SumFunctionOnSet(f, T)
           Bad == {T \in SUBSET S : \E x \in T : Sum(T) # f[x] + Sum(T \ {x})}
<1> SUFFICES ASSUME Bad # {} PROVE FALSE OBVIOUS
<1>0. \A T \in SUBSET S : IsFiniteSet(T) BY FS_Subset
<1>1. PICK T \in Bad : \A V \in Bad : Cardinality(T) <= Cardinality(V)
  <2>1. \A T \in Bad : IsFiniteSet(T) BY <1>0
  <2> HIDE DEF Bad
  <2> QED BY <2>1, SmallestExists
<1>2. PICK x \in T : Sum(T) # f[x] + Sum(T \ {x}) BY <1>1
<1> DEFINE c == Drawn(T)
<1>3. IsFiniteSet(T) /\ T # {} /\ c \in T BY <1>2, DrawnFacts
<1>4. Sum(T) = f[c] + Sum(T \ {c}) BY <1>3, SumUnfolds
<1>5. x # c BY <1>2, <1>4
<1>6. /\ T \ {c} \in SUBSET S /\ ~ (Cardinality(T) <= Cardinality(T \ {c}))
      /\ T \ {x} \in SUBSET S /\ ~ (Cardinality(T) <= Cardinality(T \ {x}))
  BY <1>3, DrawnFacts
<1>7. T \ {c} \notin Bad /\ T \ {x} \notin Bad BY <1>1, <1>6
<1>8. Sum(T \ {c}) = f[x] + Sum((T \ {c}) \ {x}) BY <1>5, <1>6, <1>7
<1>9. Sum(T \ {x}) = f[c] + Sum((T \ {x}) \ {c}) BY <1>3, <1>5, <1>6, <1>7
<1>10. (T \ {c}) \ {x} = (T \ {x}) \ {c} OBVIOUS
<1>11. f[x] \in Int /\ f[c] \in Int /\ Sum((T \ {c}) \ {x}) \in Int
  <2>1. IsFiniteSet((T \ {c}) \ {x}) BY <1>3, FS_RemoveElement
  <2> QED BY <1>3, <2>1, SumIsInt
<1>12. Sum(T) = f[c] + (f[x] + Sum((T \ {c}) \ {x})) BY <1>4, <1>8
<1>13. f[x] + Sum(T \ {x}) = f[x] + (f[c] + Sum((T \ {c}) \ {x})) BY <1>9, <1>10
<1> HIDE DEF Sum, c
<1>14. \A a1, b1, c1 \in Int : a1 + (b1 + c1) = b1 + (a1 + c1) OBVIOUS
<1> QED BY <1>2, <1>11, <1>12, <1>13, <1>14

LEMMA SumAgrees ==
  ASSUME NEW f, NEW g, NEW S, IsFiniteSet(S), \A x \in S : f[x] = g[x]
  PROVE  SumFunctionOnSet(f, S) = SumFunctionOnSet(g, S)
<1> DEFINE Bad == {T \in SUBSET S : SumFunctionOnSet(f, T) # SumFunctionOnSet(g, T)}
<1> SUFFICES ASSUME Bad # {} PROVE FALSE OBVIOUS
<1>0. \A T \in SUBSET S : IsFiniteSet(T) BY FS_Subset
<1>1. PICK T \in Bad : \A V \in Bad : Cardinality(T) <= Cardinality(V)
  <2>1. \A T \in Bad : IsFiniteSet(T) BY <1>0
  <2> HIDE DEF Bad
  <2> QED BY <2>1, SmallestExists
<1>2. IsFiniteSet(T) /\ T # {}
  <2>1. IsFiniteSet(T) BY <1>0
  <2>2. SumFunctionOnSet(f, {}) = 0 /\ SumFunctionOnSet(g, {}) = 0 BY SumUnfolds, FS_EmptySet
  <2> QED BY <1>1, <2>1, <2>2
<1>3. Drawn(T) \in T /\ T \ {Drawn(T)} \in SUBSET S /\ ~ (Cardinality(T) <= Cardinality(T \ {Drawn(T)}))
  BY <1>2, DrawnFacts
<1>4. SumFunctionOnSet(f, T \ {Drawn(T)}) = SumFunctionOnSet(g, T \ {Drawn(T)}) BY <1>1, <1>3
<1>5. /\ SumFunctionOnSet(f, T) = f[Drawn(T)] + SumFunctionOnSet(f, T \ {Drawn(T)})
      /\ SumFunctionOnSet(g, T) = g[Drawn(T)] + SumFunctionOnSet(g, T \ {Drawn(T)})
  BY <1>2, SumUnfolds
<1> QED BY <1>1, <1>3, <1>4, <1>5

LEMMA SumScales ==
  ASSUME NEW f, NEW g, NEW S, IsFiniteSet(S), NEW c \in Int,
         \A x \in S : g[x] \in Int /\ f[x] = g[x] * c
  PROVE  SumFunctionOnSet(f, S) = SumFunctionOnSet(g, S) * c
<1> DEFINE Bad == {T \in SUBSET S : SumFunctionOnSet(f, T) # SumFunctionOnSet(g, T) * c}
<1> SUFFICES ASSUME Bad # {} PROVE FALSE OBVIOUS
<1>0. \A T \in SUBSET S : IsFiniteSet(T) BY FS_Subset
<1>1. PICK T \in Bad : \A V \in Bad : Cardinality(T) <= Cardinality(V)
  <2>1. \A T \in Bad : IsFiniteSet(T) BY <1>0
  <2> HIDE DEF Bad
  <2> QED BY <2>1, SmallestExists
<1>2. IsFiniteSet(T) /\ T # {}
  <2>1. IsFiniteSet(T) BY <1>0
  <2>2. SumFunctionOnSet(f, {}) = 0 /\ SumFunctionOnSet(g, {}) = 0 BY SumUnfolds, FS_EmptySet
  <2> QED BY <1>1, <2>1, <2>2
<1> DEFINE d == Drawn(T)
           R == T \ {d}
<1>3. d \in T /\ R \in SUBSET S /\ ~ (Cardinality(T) <= Cardinality(R)) /\ IsFiniteSet(R)
  BY <1>2, DrawnFacts, FS_RemoveElement
<1>4. SumFunctionOnSet(f, R) = SumFunctionOnSet(g, R) * c BY <1>1, <1>3
<1>5. /\ SumFunctionOnSet(f, T) = f[d] + SumFunctionOnSet(f, R)
      /\ SumFunctionOnSet(g, T) = g[d] + SumFunctionOnSet(g, R)
  BY <1>2, SumUnfolds
<1>6. f[d] = g[d] * c /\ g[d] \in Int /\ SumFunctionOnSet(g, R) \in Int
  BY <1>1, <1>3, SumIsInt
<1>7. \A a, b \in Int : a * c + b * c = (a + b) * c OBVIOUS
<1> HIDE DEF R, d
<1> QED BY <1>1, <1>4, <1>5, <1>6, <1>7

LEMMA SumSplits ==
  ASSUME NEW f, NEW A, NEW B, IsFiniteSet(A), IsFiniteSet(B), A \cap B = {},
         \A x \in A \cup B : f[x] \in Int
  PROVE  SumFunctionOnSet(f, A \cup B) = SumFunctionOnSet(f, A) + SumFunctionOnSet(f, B)
<1> DEFINE Sum(T) == SumFunctionOnSet(f, T)
           Bad == {T \in SUBSET A : Sum(T \cup B) # Sum(T) + Sum(B)}
<1> SUFFICES ASSUME Bad # {} PROVE FALSE OBVIOUS
<1>0. \A T \in SUBSET A : IsFiniteSet(T) /\ IsFiniteSet(T \cup B) BY FS_Subset, FS_Union
<1>1. PICK T \in Bad : \A V \in Bad : Cardinality(T) <= Cardinality(V)
  <2>1. \A T \in Bad : IsFiniteSet(T) BY <1>0
  <2> HIDE DEF Bad
  <2> QED BY <2>1, SmallestExists
<1>2. Sum(B) \in Int BY SumIsInt
<1>3. T # {}
  <2>1. Sum({}) = 0 BY SumUnfolds, FS_EmptySet
  <2>2. Sum({} \cup B) = Sum({}) + Sum(B)
    <3>1. Sum({} \cup B) = Sum(B) OBVIOUS
    <3> HIDE DEF Sum
    <3> QED BY <1>2, <2>1, <3>1
  <2> QED BY <1>1, <2>2
<1> DEFINE d == Drawn(T)
           R == T \ {d}
<1>4. d \in T /\ R \in SUBSET A /\ ~ (Cardinality(T) <= Cardinality(R)) /\ IsFiniteSet(R)
  BY <1>0, <1>1, <1>3, DrawnFacts
<1>5. Sum(R \cup B) = Sum(R) + Sum(B) BY <1>1, <1>4
<1>6. Sum(T \cup B) = f[d] + Sum(R \cup B)
  <2>1. d \in T \cup B /\ (T \cup B) \ {d} = R \cup B BY <1>1, <1>4
  <2> QED BY <1>0, <1>1, <2>1, SumTakesOut
<1>7. Sum(T) = f[d] + Sum(R) BY <1>0, <1>1, <1>4, SumTakesOut
<1>8. f[d] \in Int /\ Sum(R) \in Int BY <1>1, <1>4, SumIsInt
<1> HIDE DEF Sum, R, d
<1> QED BY <1>1, <1>2, <1>5, <1>6, <1>7, <1>8

LEMMA SumIsNat ==
  ASSUME NEW f, NEW S, IsFiniteSet(S), \A x \in S : f[x] \in Nat
  PROVE  /\ SumFunctionOnSet(f, S) \in Nat
         /\ (\E x \in S : f[x] > 0) => SumFunctionOnSet(f, S) > 0
<1> DEFINE Bad == {T \in SUBSET S : SumFunctionOnSet(f, T) \notin Nat}
<1>0. \A T \in SUBSET S : IsFiniteSet(T) BY FS_Subset
<1>1. ASSUME Bad # {} PROVE FALSE
  <2>1. PICK T \in Bad : \A V \in Bad : Cardinality(T) <= Cardinality(V)
    <3>1. \A T \in Bad : IsFiniteSet(T) BY <1>0
    <3> HIDE DEF Bad
    <3> QED BY <1>1, <3>1, SmallestExists
  <2>2. IsFiniteSet(T) /\ T # {}
    <3>1. IsFiniteSet(T) BY <1>0
    <3>2. SumFunctionOnSet(f, {}) = 0 BY SumUnfolds, FS_EmptySet
    <3> QED BY <2>1, <3>1, <3>2
  <2>3. SumFunctionOnSet(f, T) = f[Drawn(T)] + SumFunctionOnSet(f, T \ {Drawn(T)})
    BY <2>2, SumUnfolds
  <2>4. Drawn(T) \in T /\ T \ {Drawn(T)} \in SUBSET S
        /\ ~ (Cardinality(T) <= Cardinality(T \ {Drawn(T)}))
    BY <2>2, DrawnFacts
  <2>5. SumFunctionOnSet(f, T \ {Drawn(T)}) \in Nat BY <2>1, <2>4
  <2> QED BY <2>1, <2>3, <2>4, <2>5
<1>2. ASSUME NEW x \in S, f[x] > 0 PROVE SumFunctionOnSet(f, S) > 0
  <2>1. SumFunctionOnSet(f, S) = f[x] + SumFunctionOnSet(f, S \ {x})
    <3>1. \A y \in S : f[y] \in Int OBVIOUS
    <3> QED BY <3>1, SumTakesOut
  <2>2. SumFunctionOnSet(f, S \ {x}) \in Nat BY <1>1
  <2> QED BY <1>2, <2>1, <2>2
<1> QED BY <1>1, <1>2

(* One position changes: net and gross change by what it changes.          *)
LEMMA SumMoves ==
  ASSUME NEW f, NEW g, NEW S, IsFiniteSet(S), \A x \in S : f[x] \in Int /\ g[x] \in Int,
         NEW a \in S, \A x \in S \ {a} : g[x] = f[x]
  PROVE  SumFunctionOnSet(g, S) = SumFunctionOnSet(f, S) + (g[a] - f[a])
<1> DEFINE R == S \ {a}
<1>1. IsFiniteSet(R) BY FS_Subset
<1>2. SumFunctionOnSet(f, S) = f[a] + SumFunctionOnSet(f, R) BY SumTakesOut
<1>3. SumFunctionOnSet(g, S) = g[a] + SumFunctionOnSet(g, R) BY SumTakesOut
<1>4. SumFunctionOnSet(f, R) = SumFunctionOnSet(g, R) BY <1>1, SumAgrees
<1>5. SumFunctionOnSet(f, R) \in Int BY <1>1, SumIsInt
<1>6. f[a] \in Int /\ g[a] \in Int OBVIOUS
<1> HIDE DEF R
<1> QED BY <1>2, <1>3, <1>4, <1>5, <1>6

LEMMA SumCompares ==
  ASSUME NEW f, NEW g, NEW S, IsFiniteSet(S),
         \A x \in S : f[x] \in Nat /\ g[x] \in Nat /\ f[x] <= g[x]
  PROVE  SumFunctionOnSet(f, S) <= SumFunctionOnSet(g, S)
<1> DEFINE Bad == {T \in SUBSET S : ~ (SumFunctionOnSet(f, T) <= SumFunctionOnSet(g, T))}
<1> SUFFICES ASSUME Bad # {} PROVE FALSE OBVIOUS
<1>0. \A T \in SUBSET S : IsFiniteSet(T) BY FS_Subset
<1>1. PICK T \in Bad : \A V \in Bad : Cardinality(T) <= Cardinality(V)
  <2>1. \A T \in Bad : IsFiniteSet(T) BY <1>0
  <2> HIDE DEF Bad
  <2> QED BY <2>1, SmallestExists
<1>2. IsFiniteSet(T) /\ T # {}
  <2>1. IsFiniteSet(T) BY <1>0
  <2>2. SumFunctionOnSet(f, {}) = 0 /\ SumFunctionOnSet(g, {}) = 0 BY SumUnfolds, FS_EmptySet
  <2> QED BY <1>1, <2>1, <2>2
<1> DEFINE c == Drawn(T)
           R == T \ {c}
<1>3. c \in T /\ R \in SUBSET S /\ IsFiniteSet(R) /\ ~ (Cardinality(T) <= Cardinality(R))
  BY <1>2, DrawnFacts, FS_RemoveElement
<1>4. /\ SumFunctionOnSet(f, T) = f[c] + SumFunctionOnSet(f, R)
      /\ SumFunctionOnSet(g, T) = g[c] + SumFunctionOnSet(g, R)
  BY <1>2, SumUnfolds
<1>5. SumFunctionOnSet(f, R) <= SumFunctionOnSet(g, R) BY <1>1, <1>3
<1>6. SumFunctionOnSet(f, R) \in Nat /\ SumFunctionOnSet(g, R) \in Nat BY <1>3, SumIsNat
<1> HIDE DEF c, R
<1> QED BY <1>1, <1>3, <1>4, <1>5, <1>6

LEMMA SumExtends ==
  ASSUME NEW f, NEW g, NEW S, IsFiniteSet(S), NEW a, a \notin S,
         \A x \in S : f[x] \in Int /\ g[x] = f[x], g[a] \in Int
  PROVE  SumFunctionOnSet(g, S \cup {a}) = SumFunctionOnSet(f, S) + g[a]
<1>1. IsFiniteSet(S \cup {a}) BY FS_AddElement
<1>2. (S \cup {a}) \ {a} = S OBVIOUS
<1>3. SumFunctionOnSet(g, S \cup {a}) = g[a] + SumFunctionOnSet(g, S)
  <2>1. \A x \in S \cup {a} : g[x] \in Int OBVIOUS
  <2> QED BY <1>1, <1>2, <2>1, SumTakesOut
<1>4. SumFunctionOnSet(f, S) = SumFunctionOnSet(g, S) BY SumAgrees
<1>5. SumFunctionOnSet(f, S) \in Int BY SumIsInt
<1> QED BY <1>3, <1>4, <1>5

LEMMA SumSkipsZeros ==
  ASSUME NEW f, NEW S, IsFiniteSet(S), NEW T \in SUBSET S,
         \A x \in S : f[x] \in Int, \A x \in S \ T : f[x] = 0
  PROVE  SumFunctionOnSet(f, S) = SumFunctionOnSet(f, T)
<1> DEFINE Sum(U) == SumFunctionOnSet(f, U)
           Bad == {U \in SUBSET S : T \subseteq U /\ Sum(U) # Sum(T)}
<1> SUFFICES ASSUME Bad # {} PROVE FALSE OBVIOUS
<1>0. \A U \in SUBSET S : IsFiniteSet(U) BY FS_Subset
<1>1. PICK U \in Bad : \A V \in Bad : Cardinality(U) <= Cardinality(V)
  <2>1. \A V \in Bad : IsFiniteSet(V) BY <1>0
  <2> HIDE DEF Bad
  <2> QED BY <2>1, SmallestExists
<1>2. PICK x \in U : x \notin T BY <1>1
<1>3. Sum(U) = f[x] + Sum(U \ {x}) BY <1>0, <1>2, SumTakesOut
<1>4. U \ {x} \in SUBSET S /\ T \subseteq U \ {x} /\ ~ (Cardinality(U) <= Cardinality(U \ {x}))
  BY <1>0, <1>1, <1>2, DrawnFacts
<1>5. Sum(U \ {x}) = Sum(T) BY <1>1, <1>4
<1>6. Sum(T) \in Int BY <1>0, SumIsInt
<1> HIDE DEF Sum
<1> QED BY <1>1, <1>2, <1>3, <1>5, <1>6

(* Sequences are functions, and the other way round.                       *)
LEMMA SequenceIsFunction ==
  ASSUME NEW T, NEW s \in Seq(T)
  PROVE  Len(s) \in Nat /\ DOMAIN s = 1..Len(s) /\ s \in [1..Len(s) -> T]
OBVIOUS

LEMMA FunctionIsSequence ==
  ASSUME NEW T, NEW n \in Nat, NEW f \in [1..n -> T]
  PROVE  f \in Seq(T) /\ Len(f) = n
OBVIOUS

(* Sums over sequences.                                                    *)
LEMMA SumOfNone == SumFunction(<<>>) = 0
<1>1. DOMAIN <<>> = {} OBVIOUS
<1>2. SumFunctionOnSet(<<>>, {}) = 0 BY SumUnfolds, FS_EmptySet
<1> QED BY <1>1, <1>2 DEF SumFunction

LEMMA SumAppends ==
  ASSUME NEW s \in Seq(Int), NEW x \in Int
  PROVE  SumFunction(s) \in Int /\ SumFunction(Append(s, x)) = SumFunction(s) + x
<1> DEFINE n == Len(s) + 1
           t == Append(s, x)
           D == DOMAIN s
<1>1. /\ DOMAIN t = D \cup {n} /\ n \notin D /\ t[n] \in Int /\ t[n] = x
      /\ \A i \in D : s[i] \in Int /\ t[i] = s[i]
  OBVIOUS
<1>2. IsFiniteSet(D)
  <2>1. D = 1..Len(s) /\ Len(s) \in Nat OBVIOUS
  <2> QED BY <2>1, FS_Interval
<1>3. SumFunction(t) = SumFunctionOnSet(t, DOMAIN t) /\ SumFunction(s) = SumFunctionOnSet(s, D)
  BY DEF SumFunction
<1> HIDE DEF t, n, D
<1>4. SumFunctionOnSet(t, D \cup {n}) = SumFunctionOnSet(s, D) + t[n]
  <2>1. n \notin D /\ t[n] \in Int BY <1>1
  <2>2. \A i \in D : s[i] \in Int /\ t[i] = s[i] BY <1>1
  <2> QED BY <1>2, <2>1, <2>2, SumExtends
<1>5. SumFunctionOnSet(s, D) \in Int BY <1>1, <1>2, SumIsInt, Zenon
<1> QED BY <1>1, <1>3, <1>4, <1>5 DEF t

-----------------------------------------------------------------------------
(* Filters.  The function Only is defined by exists.                       *)
Keeps(g, s, S, m) ==
  g = [n \in 0..m |-> IF n = 0 THEN <<>>
                      ELSE IF s[n] \in S THEN Append(g[n - 1], s[n]) ELSE g[n - 1]]

LEMMA KeepsExists ==
  ASSUME NEW s, NEW S, NEW m \in Nat
  PROVE  \E g : Keeps(g, s, S, m)
<1> DEFINE Bad == {n \in Nat : ~ \E g : Keeps(g, s, S, n)}
<1>1. SUFFICES ASSUME Bad # {} PROVE FALSE OBVIOUS
<1>2. PICK n \in Bad : \A k \in Bad : n <= k BY <1>1, LeastExists
<1>3. CASE n = 0
  <2>1. Keeps([k \in 0..0 |-> <<>>], s, S, 0) BY DEF Keeps
  <2> QED BY <1>2, <1>3, <2>1
<1>4. CASE n # 0
  <2>1. n - 1 \in Nat /\ n - 1 \notin Bad BY <1>2, <1>4
  <2>2. PICK g : Keeps(g, s, S, n - 1) BY <2>1
  <2> DEFINE last == IF s[n] \in S THEN Append(g[n - 1], s[n]) ELSE g[n - 1]
             h == [k \in 0..n |-> IF k = n THEN last ELSE g[k]]
  <2>3. \A k \in 0..n : h[k] = IF k = 0 THEN <<>>
                               ELSE IF s[k] \in S THEN Append(h[k - 1], s[k]) ELSE h[k - 1]
    <3> TAKE k \in 0..n
    <3>1. CASE k = n BY <1>4, <3>1
    <3>2. CASE k # n
      <4>1. k \in 0..(n - 1) /\ h[k] = g[k] BY <3>2
      <4>2. k # 0 => h[k - 1] = g[k - 1] BY <3>2
      <4> QED BY <2>2, <4>1, <4>2 DEF Keeps
    <3> QED BY <3>1, <3>2
  <2>4. h = [k \in 0..n |-> IF k = 0 THEN <<>>
                            ELSE IF s[k] \in S THEN Append(h[k - 1], s[k]) ELSE h[k - 1]]
    BY <2>3
  <2>5. Keeps(h, s, S, n) BY <2>4 DEF Keeps
  <2> QED BY <1>2, <2>5
<1> QED BY <1>3, <1>4

LEMMA KeepsAt ==
  ASSUME NEW g, NEW s, NEW S, NEW m \in Nat, Keeps(g, s, S, m)
  PROVE  /\ g[0] = <<>>
         /\ \A k \in 1..m : g[k] = IF s[k] \in S THEN Append(g[k - 1], s[k]) ELSE g[k - 1]
<1>1. \A k \in 0..m : g[k] = IF k = 0 THEN <<>>
                             ELSE IF s[k] \in S THEN Append(g[k - 1], s[k]) ELSE g[k - 1]
  BY Zenon DEF Keeps
<1>2. 0 \in 0..m /\ \A k \in 1..m : k \in 0..m /\ k # 0 OBVIOUS
<1> QED BY <1>1, <1>2, Zenon

LEMMA OnlyIsKept ==
  ASSUME NEW T, NEW s \in Seq(T), NEW S
  PROVE  \E g : Keeps(g, s, S, Len(s)) /\ Only(s, S) = g[Len(s)]
<1>1. Only(s, S) = (CHOOSE g : Keeps(g, s, S, Len(s)))[Len(s)] BY DEF Only, Keeps
<1>2. \E g : Keeps(g, s, S, Len(s))
  <2>1. Len(s) \in Nat OBVIOUS
  <2> QED BY <2>1, KeepsExists
<1> QED BY <1>1, <1>2

(* Nothing is left of nothing, and the last member is kept or not.         *)
LEMMA OnlyEmpty == ASSUME NEW S PROVE Only(<<>>, S) = <<>>
<1>1. <<>> \in Seq({}) /\ Len(<<>>) = 0 OBVIOUS
<1>2. PICK g : Keeps(g, <<>>, S, 0) /\ Only(<<>>, S) = g[0] BY <1>1, OnlyIsKept
<1>3. g[0] = <<>> BY <1>2, KeepsAt
<1> QED BY <1>2, <1>3

LEMMA OnlyAppend ==
  ASSUME NEW T, NEW s \in Seq(T), NEW e \in T, NEW S
  PROVE  Only(Append(s, e), S) = IF e \in S THEN Append(Only(s, S), e) ELSE Only(s, S)
<1> DEFINE n == Len(s)
           u == Append(s, e)
<1>1. u \in Seq(T) /\ Len(u) = n + 1 /\ u[n + 1] = e /\ n \in Nat OBVIOUS
<1>2. \A k \in 1..n : u[k] = s[k] OBVIOUS
<1> HIDE DEF u
<1>3. PICK g : Keeps(g, s, S, n) /\ Only(s, S) = g[n] BY OnlyIsKept
<1>4. PICK h : Keeps(h, u, S, n + 1) /\ Only(u, S) = h[n + 1] BY <1>1, OnlyIsKept
<1>5. \A k \in 0..n : h[k] = g[k]
  <2> DEFINE Bad == {k \in Nat : k <= n /\ h[k] # g[k]}
  <2>1. SUFFICES ASSUME Bad # {} PROVE FALSE OBVIOUS
  <2>2. PICK k \in Bad : \A j \in Bad : k <= j BY <2>1, LeastExists
  <2> HIDE DEF n
  <2>a. g[0] = <<>> /\ h[0] = <<>> BY <1>1, <1>3, <1>4, KeepsAt
  <2>3. k # 0 BY <2>a, <2>2
  <2>4. k - 1 \in Nat /\ k - 1 \notin Bad /\ k - 1 <= n BY <1>1, <2>2, <2>3
  <2>5. h[k - 1] = g[k - 1] BY <2>4
  <2>6. k \in 1..n BY <1>1, <2>2, <2>3
  <2>b. k \in 1..(n + 1) /\ n + 1 \in Nat BY <1>1, <2>6
  <2>7. g[k] = IF s[k] \in S THEN Append(g[k - 1], s[k]) ELSE g[k - 1] BY <1>1, <1>3, <2>6, KeepsAt
  <2>8. h[k] = IF u[k] \in S THEN Append(h[k - 1], u[k]) ELSE h[k - 1] BY <1>1, <1>4, <2>b, KeepsAt
  <2> QED BY <1>2, <2>2, <2>5, <2>6, <2>7, <2>8
<1>6. h[n + 1] = IF u[n + 1] \in S THEN Append(h[n], u[n + 1]) ELSE h[n]
  <2> HIDE DEF n
  <2>1. n + 1 \in 1..(n + 1) /\ n + 1 \in Nat /\ (n + 1) - 1 = n BY <1>1
  <2>2. h[n + 1] = IF u[n + 1] \in S THEN Append(h[(n + 1) - 1], u[n + 1]) ELSE h[(n + 1) - 1]
    BY <1>4, <2>1, KeepsAt
  <2> QED BY <2>1, <2>2
<1> QED BY <1>1, <1>3, <1>4, <1>5, <1>6 DEF u

(* A sequence is its front and its last member.                            *)
LEMMA FrontAndLast ==
  ASSUME NEW T, NEW s \in Seq(T), Len(s) # 0
  PROVE  \E f \in Seq(T), e \in T : Len(f) = Len(s) - 1 /\ s = Append(f, e)
<1> DEFINE n == Len(s)
           f == [i \in 1..(n - 1) |-> s[i]]
           e == s[n]
<1>1. n \in Nat \ {0} /\ n - 1 \in Nat OBVIOUS
<1>2. f \in Seq(T) /\ Len(f) = n - 1 BY <1>1
<1>3. e \in T BY <1>1
<1>4. Len(Append(f, e)) = n /\ Append(f, e) \in Seq(T) BY <1>1, <1>2, <1>3
<1>5. \A i \in 1..n : Append(f, e)[i] = s[i]
  <2> TAKE i \in 1..n
  <2>1. CASE i = n BY <1>1, <1>2, <2>1
  <2>2. CASE i # n
    <3>1. i \in 1..(n - 1) BY <1>1, <2>2
    <3> QED BY <1>1, <1>2, <3>1
  <2> QED BY <2>1, <2>2
<1> HIDE DEF f, e
<1>6. s = Append(f, e) BY <1>1, <1>4, <1>5
<1> QED BY <1>2, <1>3, <1>6

(* Every member was a member, and is wanted.                               *)
OnlyTakes(T, s, S) ==
  /\ Only(s, S) \in Seq(T)
  /\ \A i \in 1..Len(Only(s, S)) :
       Only(s, S)[i] \in S /\ \E k \in 1..Len(s) : Only(s, S)[i] = s[k]

LEMMA OnlyMembers ==
  ASSUME NEW T, NEW s \in Seq(T), NEW S
  PROVE  OnlyTakes(T, s, S)
<1> DEFINE Bad == {n \in Nat : \E u \in Seq(T) : Len(u) = n /\ ~OnlyTakes(T, u, S)}
<1>1. SUFFICES ASSUME Bad # {} PROVE FALSE
  <2>1. Len(s) \in Nat OBVIOUS
  <2> QED BY <2>1
<1>2. PICK n \in Bad : \A k \in Bad : n <= k BY <1>1, LeastExists
<1>3. PICK u \in Seq(T) : Len(u) = n /\ ~OnlyTakes(T, u, S) BY <1>2
<1>4. CASE n = 0
  <2>1. u = <<>> BY <1>3, <1>4
  <2>2. Only(u, S) = <<>> BY <2>1, OnlyEmpty
  <2> QED BY <1>3, <2>2 DEF OnlyTakes
<1>5. CASE n # 0
  <2>1. PICK f \in Seq(T), e \in T : Len(f) = n - 1 /\ u = Append(f, e)
    BY <1>3, <1>5, FrontAndLast
  <2>2. n - 1 \in Nat /\ n - 1 \notin Bad BY <1>2, <1>5
  <2>3. OnlyTakes(T, f, S) BY <2>1, <2>2
  <2>4. Only(u, S) = IF e \in S THEN Append(Only(f, S), e) ELSE Only(f, S)
    BY <2>1, OnlyAppend
  <2> DEFINE o == Only(f, S)
             p == Only(u, S)
  <2>5. o \in Seq(T) /\ \A i \in 1..Len(o) : o[i] \in S /\ \E k \in 1..Len(f) : o[i] = f[k]
    BY <2>3 DEF OnlyTakes
  <2>6. \A k \in 1..Len(f) : k \in 1..Len(u) /\ f[k] = u[k] BY <2>1
  <2>7. Len(u) \in 1..Len(u) /\ u[Len(u)] = e BY <2>1
  <2>8. p = IF e \in S THEN Append(o, e) ELSE o BY <2>4
  <2> HIDE DEF o, p
  <2>9. p \in Seq(T) BY <2>5, <2>8
  <2>10. \A i \in 1..Len(p) : p[i] \in S /\ \E k \in 1..Len(u) : p[i] = u[k]
    <3>1. CASE e \notin S BY <2>5, <2>6, <2>8, <3>1
    <3>2. CASE e \in S
      <4> TAKE i \in 1..Len(p)
      <4>1. Len(p) = Len(o) + 1 /\ p = Append(o, e) BY <2>5, <2>8, <3>2
      <4>2. CASE i = Len(p) BY <2>5, <2>7, <3>2, <4>1, <4>2
      <4>3. CASE i # Len(p)
        <5>1. i \in 1..Len(o) /\ p[i] = o[i] BY <2>5, <4>1, <4>3
        <5> QED BY <2>5, <2>6, <5>1
      <4> QED BY <4>2, <4>3
    <3> QED BY <3>1, <3>2
  <2>11. OnlyTakes(T, u, S) BY <2>9, <2>10 DEF OnlyTakes, p
  <2> QED BY <1>3, <2>11
<1> QED BY <1>4, <1>5

(* What rises still rises.                                                 *)
Rising(s) == \A i, j \in 1..Len(s) : i < j => s[i] < s[j]

OnlyRises(s, S) == Rising(s) => Rising(Only(s, S))

LEMMA RisingAppend ==
  ASSUME NEW s \in Seq(Int), NEW e \in Int
  PROVE  Rising(Append(s, e)) <=> Rising(s) /\ \A i \in 1..Len(s) : s[i] < e
<1> DEFINE n == Len(s)
           u == Append(s, e)
<1>1. n \in Nat /\ Len(u) = n + 1 /\ u[n + 1] = e OBVIOUS
<1>2. \A i \in 1..n : u[i] = s[i] OBVIOUS
<1> HIDE DEF u
<1>3. ASSUME Rising(u) PROVE Rising(s) /\ \A i \in 1..n : s[i] < e
  <2>1. \A i \in 1..n : i \in 1..(n + 1) /\ n + 1 \in 1..(n + 1) /\ i < n + 1 BY <1>1
  <2>2. \A i, j \in 1..n : i < j => u[i] < u[j] BY <1>1, <1>3, <2>1 DEF Rising
  <2>3. \A i \in 1..n : u[i] < u[n + 1] BY <1>1, <1>3, <2>1 DEF Rising
  <2> QED BY <1>1, <1>2, <2>2, <2>3 DEF Rising
<1>4. ASSUME Rising(s), \A i \in 1..n : s[i] < e PROVE Rising(u)
  <2> SUFFICES ASSUME NEW i \in 1..(n + 1), NEW j \in 1..(n + 1), i < j PROVE u[i] < u[j]
    BY <1>1 DEF Rising
  <2>1. i \in 1..n BY <1>1
  <2>2. CASE j = n + 1 BY <1>1, <1>2, <1>4, <2>1, <2>2
  <2>3. CASE j # n + 1
    <3>1. j \in 1..n BY <1>1, <2>3
    <3> QED BY <1>2, <1>4, <2>1, <3>1 DEF Rising
  <2> QED BY <2>2, <2>3
<1> QED BY <1>3, <1>4 DEF u

LEMMA OnlyKeepsRising ==
  ASSUME NEW s \in Seq(Int), NEW S, Rising(s)
  PROVE  Rising(Only(s, S))
<1> DEFINE Bad == {n \in Nat : \E u \in Seq(Int) : Len(u) = n /\ ~OnlyRises(u, S)}
<1>1. SUFFICES ASSUME Bad # {} PROVE FALSE
  <2>1. Len(s) \in Nat OBVIOUS
  <2> QED BY <2>1 DEF OnlyRises
<1>2. PICK n \in Bad : \A k \in Bad : n <= k BY <1>1, LeastExists
<1>3. PICK u \in Seq(Int) : Len(u) = n /\ ~OnlyRises(u, S) BY <1>2
<1>4. CASE n = 0
  <2>1. u = <<>> BY <1>3, <1>4
  <2>2. Only(u, S) = <<>> BY <2>1, OnlyEmpty
  <2> QED BY <1>3, <2>2 DEF OnlyRises, Rising
<1>5. CASE n # 0
  <2>1. PICK f \in Seq(Int), e \in Int : Len(f) = n - 1 /\ u = Append(f, e)
    BY <1>3, <1>5, FrontAndLast
  <2>2. n - 1 \in Nat /\ n - 1 \notin Bad BY <1>2, <1>5
  <2>3. OnlyRises(f, S) BY <2>1, <2>2
  <2>4. Only(u, S) = IF e \in S THEN Append(Only(f, S), e) ELSE Only(f, S)
    BY <2>1, OnlyAppend
  <2>5. SUFFICES ASSUME Rising(u) PROVE Rising(Only(u, S)) BY <1>3 DEF OnlyRises
  <2>6. Rising(f) /\ \A i \in 1..Len(f) : f[i] < e BY <2>1, <2>5, RisingAppend
  <2>7. Rising(Only(f, S)) BY <2>3, <2>6 DEF OnlyRises
  <2> DEFINE o == Only(f, S)
  <2>8. o \in Seq(Int) /\ \A i \in 1..Len(o) : \E k \in 1..Len(f) : o[i] = f[k]
    <3>1. OnlyTakes(Int, f, S) BY <2>1, OnlyMembers
    <3> QED BY <3>1 DEF OnlyTakes
  <2> HIDE DEF o
  <2>9. \A i \in 1..Len(o) : o[i] < e BY <2>6, <2>8
  <2>10. Rising(o) BY <2>7 DEF o
  <2>11. Rising(Append(o, e)) BY <2>8, <2>9, <2>10, RisingAppend
  <2> QED BY <2>4, <2>10, <2>11 DEF o
<1> QED BY <1>4, <1>5

(* Two filters that agree on the members of a list leave the same.         *)
SameOn(s, A, B) == (\A k \in 1..Len(s) : s[k] \in A <=> s[k] \in B) => Only(s, A) = Only(s, B)

LEMMA AppendsMembers ==
  ASSUME NEW T, NEW f \in Seq(T), NEW e \in T
  PROVE  /\ Len(f) + 1 \in 1..Len(Append(f, e)) /\ Append(f, e)[Len(f) + 1] = e
         /\ \A k \in 1..Len(f) : k \in 1..Len(Append(f, e)) /\ Append(f, e)[k] = f[k]
OBVIOUS

LEMMA OnlyAgrees ==
  ASSUME NEW T, NEW s \in Seq(T), NEW A, NEW B,
         \A k \in 1..Len(s) : s[k] \in A <=> s[k] \in B
  PROVE  Only(s, A) = Only(s, B)
<1> DEFINE Bad == {n \in Nat : \E u \in Seq(T) : Len(u) = n /\ ~SameOn(u, A, B)}
<1>1. SUFFICES ASSUME Bad # {} PROVE FALSE
  <2>1. Len(s) \in Nat OBVIOUS
  <2>2. SameOn(s, A, B) BY <2>1
  <2> QED BY <2>2 DEF SameOn
<1>2. PICK n \in Bad : \A k \in Bad : n <= k BY <1>1, LeastExists
<1>3. PICK u \in Seq(T) : Len(u) = n /\ ~SameOn(u, A, B) BY <1>2
<1>4. CASE n = 0
  <2>1. u = <<>> BY <1>3, <1>4
  <2>2. Only(u, A) = <<>> /\ Only(u, B) = <<>> BY <2>1, OnlyEmpty
  <2> QED BY <1>3, <2>2 DEF SameOn
<1>5. CASE n # 0
  <2>1. PICK f \in Seq(T), e \in T : Len(f) = n - 1 /\ u = Append(f, e)
    BY <1>3, <1>5, FrontAndLast
  <2>2. n - 1 \in Nat /\ n - 1 \notin Bad BY <1>2, <1>5
  <2>3. SameOn(f, A, B) BY <2>1, <2>2
  <2>4. Only(u, A) = IF e \in A THEN Append(Only(f, A), e) ELSE Only(f, A)
    BY <2>1, OnlyAppend
  <2>5. Only(u, B) = IF e \in B THEN Append(Only(f, B), e) ELSE Only(f, B)
    BY <2>1, OnlyAppend
  <2>6. SUFFICES ASSUME \A k \in 1..Len(u) : u[k] \in A <=> u[k] \in B
                 PROVE  Only(u, A) = Only(u, B)
    BY <1>3 DEF SameOn
  <2>7. /\ Len(f) + 1 \in 1..Len(u) /\ u[Len(f) + 1] = e
        /\ \A k \in 1..Len(f) : k \in 1..Len(u) /\ u[k] = f[k]
    BY <2>1, AppendsMembers
  <2>8. e \in A <=> e \in B BY <2>6, <2>7
  <2>9. Only(f, A) = Only(f, B) BY <2>3, <2>6, <2>7 DEF SameOn
  <2> QED BY <2>4, <2>5, <2>8, <2>9
<1> QED BY <1>4, <1>5

(* Filtering twice is filtering once by both.                              *)
OnceByBoth(s, A, B) == Only(Only(s, A), B) = Only(s, A \cap B)

LEMMA OnlyTwice ==
  ASSUME NEW T, NEW s \in Seq(T), NEW A, NEW B
  PROVE  Only(Only(s, A), B) = Only(s, A \cap B)
<1> DEFINE Bad == {n \in Nat : \E u \in Seq(T) : Len(u) = n /\ ~OnceByBoth(u, A, B)}
<1>1. SUFFICES ASSUME Bad # {} PROVE FALSE
  <2>1. Len(s) \in Nat OBVIOUS
  <2>2. OnceByBoth(s, A, B) BY <2>1
  <2> QED BY <2>2 DEF OnceByBoth
<1>2. PICK n \in Bad : \A k \in Bad : n <= k BY <1>1, LeastExists
<1>3. PICK u \in Seq(T) : Len(u) = n /\ ~OnceByBoth(u, A, B) BY <1>2
<1>4. CASE n = 0
  <2>1. u = <<>> BY <1>3, <1>4
  <2>2. Only(u, A) = <<>> /\ Only(u, A \cap B) = <<>> BY <2>1, OnlyEmpty
  <2>3. Only(<<>>, B) = <<>> BY OnlyEmpty
  <2> QED BY <1>3, <2>2, <2>3 DEF OnceByBoth
<1>5. CASE n # 0
  <2>1. PICK f \in Seq(T), e \in T : Len(f) = n - 1 /\ u = Append(f, e)
    BY <1>3, <1>5, FrontAndLast
  <2>2. n - 1 \in Nat /\ n - 1 \notin Bad BY <1>2, <1>5
  <2>3. Only(Only(f, A), B) = Only(f, A \cap B) BY <2>1, <2>2 DEF OnceByBoth
  <2> DEFINE o == Only(f, A)
  <2>4. Only(u, A) = IF e \in A THEN Append(o, e) ELSE o BY <2>1, OnlyAppend
  <2>5. Only(u, A \cap B) = IF e \in A \cap B THEN Append(Only(f, A \cap B), e)
                            ELSE Only(f, A \cap B)
    BY <2>1, OnlyAppend
  <2>6. o \in Seq(T)
    <3>1. OnlyTakes(T, f, A) BY <2>1, OnlyMembers
    <3> QED BY <3>1 DEF OnlyTakes
  <2> HIDE DEF o
  <2>7. Only(Append(o, e), B) = IF e \in B THEN Append(Only(o, B), e) ELSE Only(o, B)
    BY <2>1, <2>6, OnlyAppend
  <2>8. Only(o, B) = Only(f, A \cap B) BY <2>3 DEF o
  <2>9. Only(Only(u, A), B) = Only(u, A \cap B)
    <3>1. CASE e \in A
      <4>1. Only(u, A) = Append(o, e) BY <2>4, <3>1
      <4>2. e \in A \cap B <=> e \in B BY <3>1
      <4> QED BY <2>5, <2>7, <2>8, <4>1, <4>2
    <3>2. CASE e \notin A
      <4>1. Only(u, A) = o /\ e \notin A \cap B BY <2>4, <3>2
      <4> QED BY <2>5, <2>8, <4>1
    <3> QED BY <3>1, <3>2
  <2> QED BY <1>3, <2>9 DEF OnceByBoth
<1> QED BY <1>4, <1>5

(* Filtering by what the members are like: Range(s) adds nothing.          *)
LEMMA MembersInRange ==
  ASSUME NEW T, NEW s \in Seq(T)
  PROVE  /\ \A k \in 1..Len(s) : s[k] \in Range(s)
         /\ \A x \in Range(s) : \E k \in 1..Len(s) : x = s[k]
<1>1. DOMAIN s = 1..Len(s) OBVIOUS
<1> QED BY <1>1 DEF Range

LEMMA OnlyIsPart ==
  ASSUME NEW T, NEW s \in Seq(T), NEW S
  PROVE  /\ Only(s, S) \in Seq(T)
         /\ \A x \in Range(Only(s, S)) : x \in S /\ x \in Range(s)
<1>1. OnlyTakes(T, s, S) BY OnlyMembers
<1> DEFINE o == Only(s, S)
<1>2. o \in Seq(T) BY <1>1 DEF OnlyTakes
<1>3. \A i \in 1..Len(o) : o[i] \in S /\ \E k \in 1..Len(s) : o[i] = s[k] BY <1>1 DEF OnlyTakes
<1> HIDE DEF o
<1>4. \A x \in Range(o) : \E k \in 1..Len(o) : x = o[k] BY <1>2, MembersInRange
<1>5. \A k \in 1..Len(s) : s[k] \in Range(s) BY MembersInRange
<1> QED BY <1>2, <1>3, <1>4, <1>5 DEF o

(* A filter of a filtered list is a filter of the list.                    *)
SameFor(s, B, C) == \A x \in Range(s) : x \in B <=> x \in C

LEMMA OnlyWithin ==
  ASSUME NEW T, NEW s \in Seq(T), NEW A, NEW B, NEW C, SameFor(Only(s, A), B, C)
  PROVE  Only(Only(s, A), B) = Only(s, A \cap C)
<1> DEFINE o == Only(s, A)
<1>1. o \in Seq(T) BY OnlyIsPart
<1>2. \A x \in Range(o) : x \in B <=> x \in C BY DEF SameFor
<1> HIDE DEF o
<1>3. \A k \in 1..Len(o) : o[k] \in B <=> o[k] \in C BY <1>1, <1>2, MembersInRange
<1>4. Only(o, B) = Only(o, C) BY <1>1, <1>3, OnlyAgrees
<1>5. Only(o, C) = Only(s, A \cap C) BY OnlyTwice DEF o
<1> QED BY <1>4, <1>5 DEF o

(* Filters keep what differs apart.                                        *)
Distinct(r) == \A i, j \in 1..Len(r) : i # j => r[i] # r[j]
OnlyDiffers(s, S) == Distinct(s) => Distinct(Only(s, S))

LEMMA DistinctAppend ==
  ASSUME NEW T, NEW s \in Seq(T), NEW e \in T
  PROVE  Distinct(Append(s, e)) <=> Distinct(s) /\ \A i \in 1..Len(s) : s[i] # e
<1> DEFINE n == Len(s)
           u == Append(s, e)
<1>1. n \in Nat /\ Len(u) = n + 1 /\ u[n + 1] = e OBVIOUS
<1>2. \A i \in 1..n : u[i] = s[i] OBVIOUS
<1> HIDE DEF u
<1>3. ASSUME Distinct(u) PROVE Distinct(s) /\ \A i \in 1..n : s[i] # e
  <2>1. \A i \in 1..n : i \in 1..(n + 1) /\ n + 1 \in 1..(n + 1) /\ i # n + 1 BY <1>1
  <2>2. \A i, j \in 1..n : i # j => u[i] # u[j] BY <1>1, <1>3, <2>1 DEF Distinct
  <2>3. \A i \in 1..n : u[i] # u[n + 1] BY <1>1, <1>3, <2>1 DEF Distinct
  <2> QED BY <1>1, <1>2, <2>2, <2>3 DEF Distinct
<1>4. ASSUME Distinct(s), \A i \in 1..n : s[i] # e PROVE Distinct(u)
  <2> SUFFICES ASSUME NEW i \in 1..(n + 1), NEW j \in 1..(n + 1), i # j PROVE u[i] # u[j]
    BY <1>1 DEF Distinct
  <2>1. CASE i = n + 1
    <3>1. j \in 1..n BY <1>1, <2>1
    <3> QED BY <1>1, <1>2, <1>4, <2>1, <3>1
  <2>2. CASE j = n + 1
    <3>1. i \in 1..n BY <1>1, <2>2
    <3> QED BY <1>1, <1>2, <1>4, <2>2, <3>1
  <2>3. CASE i # n + 1 /\ j # n + 1
    <3>1. i \in 1..n /\ j \in 1..n BY <1>1, <2>3
    <3> QED BY <1>2, <1>4, <3>1 DEF Distinct
  <2> QED BY <2>1, <2>2, <2>3
<1> QED BY <1>3, <1>4 DEF u

LEMMA OnlyKeepsDistinct ==
  ASSUME NEW T, NEW s \in Seq(T), NEW S, Distinct(s)
  PROVE  Distinct(Only(s, S))
<1> DEFINE Bad == {n \in Nat : \E u \in Seq(T) : Len(u) = n /\ ~OnlyDiffers(u, S)}
<1>1. SUFFICES ASSUME Bad # {} PROVE FALSE
  <2>1. Len(s) \in Nat OBVIOUS
  <2> QED BY <2>1 DEF OnlyDiffers
<1>2. PICK n \in Bad : \A k \in Bad : n <= k BY <1>1, LeastExists
<1>3. PICK u \in Seq(T) : Len(u) = n /\ ~OnlyDiffers(u, S) BY <1>2
<1>4. CASE n = 0
  <2>1. u = <<>> BY <1>3, <1>4
  <2>2. Only(u, S) = <<>> BY <2>1, OnlyEmpty
  <2> QED BY <1>3, <2>2 DEF OnlyDiffers, Distinct
<1>5. CASE n # 0
  <2>1. PICK f \in Seq(T), e \in T : Len(f) = n - 1 /\ u = Append(f, e)
    BY <1>3, <1>5, FrontAndLast
  <2>2. n - 1 \in Nat /\ n - 1 \notin Bad BY <1>2, <1>5
  <2>3. OnlyDiffers(f, S) BY <2>1, <2>2
  <2>4. Only(u, S) = IF e \in S THEN Append(Only(f, S), e) ELSE Only(f, S)
    BY <2>1, OnlyAppend
  <2>5. SUFFICES ASSUME Distinct(u) PROVE Distinct(Only(u, S)) BY <1>3 DEF OnlyDiffers
  <2>6. Distinct(f) /\ \A i \in 1..Len(f) : f[i] # e BY <2>1, <2>5, DistinctAppend
  <2>7. Distinct(Only(f, S)) BY <2>3, <2>6 DEF OnlyDiffers
  <2> DEFINE o == Only(f, S)
  <2>8. o \in Seq(T) /\ \A i \in 1..Len(o) : \E k \in 1..Len(f) : o[i] = f[k]
    <3>1. OnlyTakes(T, f, S) BY <2>1, OnlyMembers
    <3> QED BY <3>1 DEF OnlyTakes
  <2> HIDE DEF o
  <2>9. \A i \in 1..Len(o) : o[i] # e BY <2>6, <2>8
  <2>10. Distinct(o) BY <2>7 DEF o
  <2>11. Distinct(Append(o, e)) BY <2>1, <2>8, <2>9, <2>10, DistinctAppend
  <2> QED BY <2>4, <2>10, <2>11 DEF o
<1> QED BY <1>4, <1>5
-----------------------------------------------------------------------------
(* The foremost of a set, by an order: those with fewer than k ahead.      *)
InFront(R, S, s) == {t \in S : <<t, s>> \in R}
Foremost(R, S, k) == {s \in S : Cardinality(InFront(R, S, s)) < k}

IsOrder(R, S) ==
  /\ \A s \in S : <<s, s>> \notin R
  /\ \A s, t \in S : s # t => <<s, t>> \in R \/ <<t, s>> \in R
  /\ \A s, t, u \in S : <<s, t>> \in R /\ <<t, u>> \in R => <<s, u>> \in R

LEMMA InFrontFacts ==
  ASSUME NEW R, NEW S, IsFiniteSet(S), IsOrder(R, S)
  PROVE  /\ \A s \in S : Cardinality(InFront(R, S, s)) \in 0..(Cardinality(S) - 1)
         /\ \A s, t \in S : s # t => Cardinality(InFront(R, S, s)) # Cardinality(InFront(R, S, t))
<1>1. \A s \in S : IsFiniteSet(InFront(R, S, s)) /\ Cardinality(InFront(R, S, s)) \in Nat
  <2> TAKE s \in S
  <2>1. InFront(R, S, s) \in SUBSET S BY DEF InFront
  <2> QED BY <2>1, FS_Subset, FS_CardinalityType
<1>2. Cardinality(S) \in Nat BY FS_CardinalityType
<1>3. ASSUME NEW s \in S PROVE Cardinality(InFront(R, S, s)) \in 0..(Cardinality(S) - 1)
  <2>1. InFront(R, S, s) \in SUBSET S /\ InFront(R, S, s) # S BY DEF InFront, IsOrder
  <2>2. Cardinality(InFront(R, S, s)) <= Cardinality(S) /\ Cardinality(InFront(R, S, s)) # Cardinality(S)
    BY <2>1, FS_Subset
  <2> QED BY <1>1, <1>2, <2>2
<1>4. ASSUME NEW s \in S, NEW t \in S, <<s, t>> \in R
      PROVE  Cardinality(InFront(R, S, s)) # Cardinality(InFront(R, S, t))
  <2>1. s \in InFront(R, S, t) /\ s \notin InFront(R, S, s) BY <1>4 DEF InFront, IsOrder
  <2>2. InFront(R, S, s) \in SUBSET InFront(R, S, t) BY <1>4 DEF InFront, IsOrder
  <2> QED BY <1>1, <2>1, <2>2, FS_Subset
<1>5. \A s, t \in S : s # t => <<s, t>> \in R \/ <<t, s>> \in R BY DEF IsOrder
<1> QED BY <1>3, <1>4, <1>5

LEMMA ForemostFacts ==
  ASSUME NEW R, NEW S, IsFiniteSet(S), IsOrder(R, S), NEW k \in Nat
  PROVE  /\ Foremost(R, S, k) \in SUBSET S
         /\ Cardinality(Foremost(R, S, k)) <= k
         /\ Cardinality(S) <= k => Foremost(R, S, k) = S
         /\ S # {} /\ k # 0 => Foremost(R, S, k) # {}
<1> DEFINE F == Foremost(R, S, k)
           place == [s \in F |-> Cardinality(InFront(R, S, s))]
<1>1. \A s \in S : Cardinality(InFront(R, S, s)) \in 0..(Cardinality(S) - 1) BY InFrontFacts
<1>2. \A s, t \in S : s # t => Cardinality(InFront(R, S, s)) # Cardinality(InFront(R, S, t)) BY InFrontFacts
<1>3. Cardinality(S) \in Nat BY FS_CardinalityType
<1>4. F \in SUBSET S /\ \A s \in S : s \in F <=> Cardinality(InFront(R, S, s)) < k BY DEF Foremost
<1>5. DOMAIN place = F /\ \A s \in F : place[s] = Cardinality(InFront(R, S, s)) OBVIOUS
<1> HIDE DEF F, place
<1>6. Cardinality(F) <= k
  <2>1. place \in [F -> 0..(k - 1)]
    <3>1. \A s \in F : place[s] \in 0..(k - 1) BY <1>1, <1>3, <1>4, <1>5
    <3>2. place = [s \in F |-> Cardinality(InFront(R, S, s))] BY DEF place
    <3> QED BY <1>5, <3>1, <3>2
  <2>2. \A s, t \in F : s # t => place[s] # place[t] BY <1>2, <1>4, <1>5
  <2>3. place \in Injection(F, 0..(k - 1)) BY <1>5, <2>1, <2>2 DEF Injection, IsInjective
  <2>4. IsFiniteSet(0..(k - 1)) /\ Cardinality(0..(k - 1)) = k
    <3>1. 0 \in Int /\ k - 1 \in Int OBVIOUS
    <3> QED BY <3>1, FS_Interval
  <2> QED BY <2>3, <2>4, FS_Injection
<1>7. Cardinality(S) <= k => F = S BY <1>1, <1>3, <1>4
<1>8. ASSUME S # {}, k # 0 PROVE F # {}
  <2> DEFINE C == {Cardinality(InFront(R, S, s)) : s \in S}
  <2>1. C \in SUBSET Nat /\ C # {} BY <1>1, <1>3, <1>8
  <2>2. PICK c \in C : \A d \in C : c <= d BY <2>1, LeastExists
  <2>3. PICK s \in S : c = Cardinality(InFront(R, S, s)) BY <2>2
  <2>4. InFront(R, S, s) = {}
    <3> SUFFICES ASSUME NEW t \in InFront(R, S, s) PROVE FALSE OBVIOUS
    <3>1. t \in S /\ <<t, s>> \in R BY DEF InFront
    <3>2. InFront(R, S, t) \in SUBSET InFront(R, S, s) /\ t \notin InFront(R, S, t)
      BY <3>1 DEF InFront, IsOrder
    <3>3. IsFiniteSet(InFront(R, S, s)) /\ Cardinality(InFront(R, S, s)) \in Nat
      <4>1. InFront(R, S, s) \in SUBSET S BY DEF InFront
      <4> QED BY <4>1, FS_Subset, FS_CardinalityType
    <3>4. Cardinality(InFront(R, S, t)) <= Cardinality(InFront(R, S, s)) BY <3>2, <3>3, FS_Subset
    <3>5. c <= Cardinality(InFront(R, S, t)) BY <2>2, <3>1
    <3>6. Cardinality(InFront(R, S, t)) \in Nat BY <1>1, <1>3, <3>1
    <3>7. Cardinality(InFront(R, S, t)) = Cardinality(InFront(R, S, s)) BY <2>3, <3>3, <3>4, <3>5, <3>6
    <3>8. t # s BY <3>1, <2>3 DEF IsOrder
    <3> QED BY <1>2, <3>1, <3>7, <3>8
  <2>5. s \in F BY <1>4, <1>8, <2>4, FS_EmptySet
  <2> QED BY <2>5
<1> QED BY <1>4, <1>6, <1>7, <1>8 DEF F

LEMMA OrderOfPart ==
  ASSUME NEW R, NEW U, NEW S \in SUBSET U, IsOrder(R, U)
  PROVE  IsOrder(R, S)
BY DEF IsOrder
-----------------------------------------------------------------------------
(* A list that is built member by member.                                  *)
FirstOf(F, n) == [j \in 1..n |-> F[j]]

LEMMA ListGrows ==
  ASSUME NEW F, NEW n \in Nat \ {0}
  PROVE  Append(FirstOf(F, n - 1), F[n]) = FirstOf(F, n)
<1> DEFINE T == {F[j] : j \in 1..n}
           s == FirstOf(F, n - 1)
           u == FirstOf(F, n)
<1>1. n - 1 \in Nat /\ n \in Nat OBVIOUS
<1>2. s \in Seq(T) /\ Len(s) = n - 1 /\ \A j \in 1..(n - 1) : s[j] = F[j]
  <2>1. s \in [1..(n - 1) -> T] /\ \A j \in 1..(n - 1) : s[j] = F[j] BY DEF FirstOf
  <2> HIDE DEF s, T
  <2> QED BY <1>1, <2>1, FunctionIsSequence
<1>3. u \in Seq(T) /\ Len(u) = n /\ \A j \in 1..n : u[j] = F[j]
  <2>1. u \in [1..n -> T] /\ \A j \in 1..n : u[j] = F[j] BY DEF FirstOf
  <2> HIDE DEF u, T
  <2> QED BY <1>1, <2>1, FunctionIsSequence
<1>4. F[n] \in T OBVIOUS
<1> HIDE DEF s, u, T
<1> DEFINE e == F[n]
           v == Append(s, e)
<1>5. v \in Seq(T) /\ Len(v) = n /\ v[n] = e /\ \A j \in 1..(n - 1) : v[j] = s[j]
  <2> HIDE DEF e
  <2>1. e \in T BY <1>4 DEF e
  <2> QED BY <1>1, <1>2, <2>1
<1> HIDE DEF v
<1>6. \A j \in 1..n : v[j] = u[j]
  <2> TAKE j \in 1..n
  <2>1. CASE j = n BY <1>3, <1>5, <2>1
  <2>2. CASE j # n
    <3>1. j \in 1..(n - 1) BY <2>2
    <3> QED BY <1>2, <1>3, <1>5, <3>1
  <2> QED BY <2>1, <2>2
<1>7. v = u
  <2>1. DOMAIN v = 1..n /\ v \in [1..n -> T] BY <1>5, SequenceIsFunction
  <2>2. DOMAIN u = 1..n /\ u \in [1..n -> T] BY <1>3, SequenceIsFunction
  <2> QED BY <1>6, <2>1, <2>2
<1> QED BY <1>7 DEF v, s, u

LEMMA FirstOfNone == ASSUME NEW F PROVE FirstOf(F, 0) = <<>>
<1>1. 1..0 = {} OBVIOUS
<1> QED BY <1>1 DEF FirstOf

(* Parts of what agrees agree.                                             *)
LEMMA SameParts ==
  ASSUME NEW s, NEW t, NEW m \in Nat \ {0}, NEW n \in Nat, \A j \in m..n : s[j] = t[j]
  PROVE  SubSeq(s, m, n) = SubSeq(t, m, n)
<1> DEFINE T == {s[j] : j \in m..n}
           a == SubSeq(s, m, n)
           b == SubSeq(t, m, n)
           l == IF m <= n THEN n - m + 1 ELSE 0
<1>1. m \in Int /\ n \in Int OBVIOUS
<1>2. \A j \in m..n : s[j] \in T OBVIOUS
<1>3. \A j \in m..n : t[j] \in T OBVIOUS
<1> HIDE DEF T
<1>4. a \in Seq(T) /\ Len(a) = l /\ \A i \in 1..(n - m + 1) : a[i] = s[m + i - 1]
  BY <1>1, <1>2, SubSeqProperties
<1>5. b \in Seq(T) /\ Len(b) = l /\ \A i \in 1..(n - m + 1) : b[i] = t[m + i - 1]
  BY <1>1, <1>3, SubSeqProperties
<1>6. \A i \in 1..l : i \in 1..(n - m + 1) /\ m + i - 1 \in m..n
  <2>1. CASE m <= n
    <3>1. l = n - m + 1 BY <2>1
    <3> HIDE DEF l
    <3> QED BY <3>1
  <2>2. CASE ~ (m <= n)
    <3>1. l = 0 BY <2>2
    <3>2. 1..0 = {} OBVIOUS
    <3> HIDE DEF l
    <3> QED BY <3>1, <3>2
  <2> QED BY <2>1, <2>2
<1> HIDE DEF a, b, l
<1>7. \A i \in 1..l : a[i] = b[i] BY <1>4, <1>5, <1>6
<1>8. DOMAIN a = 1..l /\ a \in [1..l -> T] BY <1>4, SequenceIsFunction
<1>9. DOMAIN b = 1..l /\ b \in [1..l -> T] BY <1>5, SequenceIsFunction
<1>10. a = [i \in 1..l |-> a[i]] /\ b = [i \in 1..l |-> b[i]] BY <1>8, <1>9
<1>11. a = b BY <1>7, <1>10, Zenon
<1> QED BY <1>11 DEF a, b

(* Sums add up term by term, and a constant as often as there are terms.   *)
LEMMA SumAdds ==
  ASSUME NEW f, NEW g, NEW h, NEW S, IsFiniteSet(S),
         \A x \in S : f[x] \in Int /\ g[x] \in Int /\ h[x] = f[x] + g[x]
  PROVE  SumFunctionOnSet(h, S) = SumFunctionOnSet(f, S) + SumFunctionOnSet(g, S)
<1> DEFINE Bad == {T \in SUBSET S : SumFunctionOnSet(h, T) # SumFunctionOnSet(f, T) + SumFunctionOnSet(g, T)}
<1> SUFFICES ASSUME Bad # {} PROVE FALSE OBVIOUS
<1>0. \A T \in SUBSET S : IsFiniteSet(T) BY FS_Subset
<1>1. PICK T \in Bad : \A V \in Bad : Cardinality(T) <= Cardinality(V)
  <2>1. \A T \in Bad : IsFiniteSet(T) BY <1>0
  <2> HIDE DEF Bad
  <2> QED BY <2>1, SmallestExists
<1>2. IsFiniteSet(T) /\ T # {}
  <2>1. IsFiniteSet(T) BY <1>0
  <2>2. SumFunctionOnSet(f, {}) = 0 /\ SumFunctionOnSet(g, {}) = 0 /\ SumFunctionOnSet(h, {}) = 0
    BY SumUnfolds, FS_EmptySet
  <2> QED BY <1>1, <2>1, <2>2
<1> DEFINE d == Drawn(T)
           R == T \ {d}
<1>3. d \in T /\ R \in SUBSET S /\ ~ (Cardinality(T) <= Cardinality(R)) /\ IsFiniteSet(R)
  BY <1>2, DrawnFacts, FS_RemoveElement
<1>4. SumFunctionOnSet(h, R) = SumFunctionOnSet(f, R) + SumFunctionOnSet(g, R) BY <1>1, <1>3
<1>5. /\ SumFunctionOnSet(f, T) = f[d] + SumFunctionOnSet(f, R)
      /\ SumFunctionOnSet(g, T) = g[d] + SumFunctionOnSet(g, R)
      /\ SumFunctionOnSet(h, T) = h[d] + SumFunctionOnSet(h, R)
  BY <1>2, SumUnfolds
<1>6. /\ f[d] \in Int /\ g[d] \in Int /\ h[d] = f[d] + g[d]
      /\ SumFunctionOnSet(f, R) \in Int /\ SumFunctionOnSet(g, R) \in Int
  <2>1. d \in S /\ \A x \in R : f[x] \in Int /\ g[x] \in Int BY <1>1, <1>3
  <2> HIDE DEF R, d
  <2> QED BY <1>3, <2>1, SumIsInt
<1> HIDE DEF R, d
<1> QED BY <1>1, <1>4, <1>5, <1>6

LEMMA SumOfSame ==
  ASSUME NEW f, NEW S, IsFiniteSet(S), NEW c \in Int, \A x \in S : f[x] = c
  PROVE  SumFunctionOnSet(f, S) = c * Cardinality(S)
<1> DEFINE Bad == {T \in SUBSET S : SumFunctionOnSet(f, T) # c * Cardinality(T)}
<1> SUFFICES ASSUME Bad # {} PROVE FALSE OBVIOUS
<1>0. \A T \in SUBSET S : IsFiniteSet(T) BY FS_Subset
<1>1. PICK T \in Bad : \A V \in Bad : Cardinality(T) <= Cardinality(V)
  <2>1. \A T \in Bad : IsFiniteSet(T) BY <1>0
  <2> HIDE DEF Bad
  <2> QED BY <2>1, SmallestExists
<1>2. IsFiniteSet(T) /\ T # {}
  <2>1. IsFiniteSet(T) BY <1>0
  <2>2. SumFunctionOnSet(f, {}) = 0 BY SumUnfolds, FS_EmptySet
  <2>3. Cardinality({}) = 0 /\ c * 0 = 0 BY FS_EmptySet
  <2> QED BY <1>1, <2>1, <2>2, <2>3
<1> DEFINE d == Drawn(T)
           R == T \ {d}
<1>3. d \in T /\ R \in SUBSET S /\ IsFiniteSet(R) /\ Cardinality(R) = Cardinality(T) - 1
      /\ Cardinality(T) \in Nat /\ Cardinality(R) \in Nat
  BY <1>2, DrawnFacts, FS_RemoveElement, FS_CardinalityType
<1>4. SumFunctionOnSet(f, R) = c * Cardinality(R) BY <1>1, <1>3
<1>5. SumFunctionOnSet(f, T) = f[d] + SumFunctionOnSet(f, R) /\ f[d] = c
  BY <1>1, <1>2, <1>3, SumUnfolds
<1> DEFINE n == Cardinality(R)
<1>6. Cardinality(T) = n + 1 /\ n \in Nat BY <1>3
<1> HIDE DEF R, d, n
<1>7. c + c * n = c * (n + 1) BY <1>6
<1> QED BY <1>1, <1>4, <1>5, <1>6, <1>7 DEF n

(* Sums of small terms.                                                    *)
LEMMA SumIsSmall ==
  ASSUME NEW f, NEW S, IsFiniteSet(S), NEW c \in Nat, \A x \in S : f[x] \in Int /\ -c <= f[x] /\ f[x] <= c
  PROVE  /\ SumFunctionOnSet(f, S) \in Int /\ Cardinality(S) \in Nat
         /\ -(c * Cardinality(S)) <= SumFunctionOnSet(f, S)
         /\ SumFunctionOnSet(f, S) <= c * Cardinality(S)
<1> DEFINE k == [x \in S |-> c]
           up == [x \in S |-> f[x] + c]
           top == [x \in S |-> 2 * c]
           n == Cardinality(S)
<1>1. n \in Nat BY FS_CardinalityType
<1>2. \A x \in S : k[x] = c /\ up[x] = f[x] + k[x] /\ up[x] \in Nat /\ top[x] = 2 * c /\ up[x] <= top[x]
  OBVIOUS
<1>3. SumFunctionOnSet(f, S) \in Int BY SumIsInt
<1>4. 2 * c \in Nat OBVIOUS
<1> HIDE DEF k, up, top, n
<1>5. SumFunctionOnSet(k, S) = c * n BY <1>2, SumOfSame DEF n
<1>6. SumFunctionOnSet(top, S) = (2 * c) * n BY <1>2, <1>4, SumOfSame DEF n
<1>7. SumFunctionOnSet(up, S) = SumFunctionOnSet(f, S) + SumFunctionOnSet(k, S)
  <2>1. \A x \in S : f[x] \in Int /\ k[x] \in Int /\ up[x] = f[x] + k[x] BY <1>2
  <2> QED BY <2>1, SumAdds
<1>8. SumFunctionOnSet(up, S) \in Nat BY <1>2, SumIsNat
<1>9. SumFunctionOnSet(up, S) <= SumFunctionOnSet(top, S)
  <2>1. \A x \in S : up[x] \in Nat /\ top[x] \in Nat /\ up[x] <= top[x] BY <1>2, <1>4
  <2> QED BY <2>1, SumCompares
<1>10. c * n \in Int /\ (2 * c) * n = c * n + c * n BY <1>1
<1> QED BY <1>1, <1>3, <1>5, <1>6, <1>7, <1>8, <1>9, <1>10 DEF n

(* Quotients.                                                              *)
LEMMA Quotients ==
  ASSUME NEW a \in Nat, NEW b \in Nat \ {0}
  PROVE  a \div b \in Nat /\ b * (a \div b) <= a /\ a < b * (a \div b) + b
OBVIOUS

LEMMA DividesOut ==
  ASSUME NEW a \in Nat \ {0}, NEW x \in Int, NEW y \in Int, a * x <= a * y PROVE x <= y
<1> SUFFICES ASSUME y < x PROVE FALSE OBVIOUS
<1>1. PICK d \in Nat \ {0} : x = y + d
  <2>1. x - y \in Nat \ {0} /\ x = y + (x - y) OBVIOUS
  <2> QED BY <2>1
<1>2. a * x = a * y + a * d BY <1>1
<1>3. a * d \in Nat \ {0} BY <1>1
<1>4. a * y \in Int OBVIOUS
<1> QED BY <1>2, <1>3, <1>4
=============================================================================
