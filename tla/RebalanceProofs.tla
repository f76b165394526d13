--------------------------- MODULE RebalanceProofs ---------------------------
(***************************************************************************)
(* Theorems about the plan of a rebalance, for any number of symbols, any  *)
(* prices, weights, books, capitals and multipliers.                       *)
(*                                                                         *)
(* A plan is a function of what the round read (Faithful), so most of it   *)
(* is about build_rebalance_plan itself.  The repair goes through its      *)
(* candidates one after the other: what it takes back changes the net by   *)
(* its move (Follows), the net only gets smaller, and what was refused     *)
(* once would be refused in the end as well, because all candidates pull   *)
(* the same way (Refused).  The order of the candidates and the cut to the *)
(* capital rest on ranks: among the members of a set each rank below its   *)
(* size occurs exactly once (RanksCount).                                  *)
(***************************************************************************)
EXTENDS Rebalance, Foundations, TLAPS

-----------------------------------------------------------------------------
(* Ranks.                                                                  *)
LEMMA SymbolsFacts ==
  /\ IsFiniteSet(Symbols) /\ Symbols \subseteq Nat
  /\ \A S \in SUBSET Symbols : IsFiniteSet(S) /\ Cardinality(S) \in Nat
<1>1. N \in Nat BY RebalanceAssumption
<1>2. IsFiniteSet(1..N) BY <1>1, FS_Interval
<1>3. IsFiniteSet(Symbols) /\ Symbols \subseteq Nat BY <1>1, <1>2 DEF Symbols
<1>4. ASSUME NEW S \in SUBSET Symbols PROVE IsFiniteSet(S) /\ Cardinality(S) \in Nat
  BY <1>3, FS_Subset, FS_CardinalityType
<1> QED BY <1>3, <1>4

(* The order is total, so those before one of two symbols are fewer than   *)
(* those before the other.                                                 *)
LEMMA RanksDiffer ==
  ASSUME NEW size \in [Symbols -> Int], NEW S \in SUBSET Symbols
  PROVE  /\ \A s \in S : Rank(size, S, s) \in 0..(Cardinality(S) - 1)
         /\ \A r, s \in S : r # s => Rank(size, S, r) # Rank(size, S, s)
<1> DEFINE Ahead(s) == {r \in S : Before(size, r, s)}
<1>1. \A s \in S : IsFiniteSet(Ahead(s)) /\ Cardinality(Ahead(s)) \in Nat
  BY SymbolsFacts
<1>2. \A r \in S : S \subseteq Symbols /\ size[r] \in Int /\ r \in Nat
  BY SymbolsFacts
<1>3. ASSUME NEW s \in S PROVE Cardinality(Ahead(s)) \in 0..(Cardinality(S) - 1)
  <2>1. s \notin Ahead(s) BY <1>2 DEF Before
  <2>2. Ahead(s) \in SUBSET S /\ Ahead(s) # S BY <2>1
  <2>3. IsFiniteSet(S) /\ Cardinality(S) \in Nat BY SymbolsFacts
  <2> HIDE DEF Ahead
  <2>4. Cardinality(Ahead(s)) <= Cardinality(S) /\ Cardinality(Ahead(s)) # Cardinality(S)
    BY <2>2, <2>3, FS_Subset
  <2> QED BY <1>1, <2>3, <2>4
<1>4. ASSUME NEW r \in S, NEW s \in S, Before(size, r, s)
      PROVE  Cardinality(Ahead(r)) # Cardinality(Ahead(s))
  <2>1. r \in Ahead(s) /\ r \notin Ahead(r) BY <1>2, <1>4 DEF Before
  <2>2. \A q \in S : Before(size, q, r) => Before(size, q, s)
    BY <1>2, <1>4 DEF Before
  <2>3. Ahead(r) \in SUBSET Ahead(s) BY <2>2
  <2> HIDE DEF Ahead
  <2> QED BY <1>1, <2>1, <2>3, FS_Subset
<1>5. \A r, s \in S : r # s => Before(size, r, s) \/ Before(size, s, r)
  BY <1>2 DEF Before
<1>6. \A s : Rank(size, S, s) = Cardinality(Ahead(s)) BY DEF Rank
<1> HIDE DEF Ahead
<1> QED BY <1>3, <1>4, <1>5, <1>6

(* Each rank below the size of the set is taken, and the first k ranks are *)
(* taken by k symbols.                                                     *)
LEMMA RanksCount ==
  ASSUME NEW size \in [Symbols -> Int], NEW S \in SUBSET Symbols
  PROVE  /\ \A i \in 0..(Cardinality(S) - 1) : \E s \in S : Rank(size, S, s) = i
         /\ \A k \in 0..Cardinality(S) : Cardinality({s \in S : Rank(size, S, s) < k}) = k
<1> DEFINE n == Cardinality(S)
           rank == [s \in S |-> Rank(size, S, s)]
<1>1. IsFiniteSet(S) /\ n \in Nat BY SymbolsFacts
<1>2. /\ \A s \in S : rank[s] = Rank(size, S, s) /\ rank[s] \in 0..(n - 1)
      /\ \A r, s \in S : r # s => rank[r] # rank[s]
  BY RanksDiffer
<1>3. DOMAIN rank = S /\ rank \in [S -> 0..(n - 1)] BY <1>2
<1> HIDE DEF rank, n
<1>4. \A i \in 0..(n - 1) : \E s \in S : rank[s] = i
  <2>1. rank \in Injection(S, 0..(n - 1)) BY <1>2, <1>3 DEF Injection, IsInjective
  <2>2. IsFiniteSet(0..(n - 1)) /\ Cardinality(0..(n - 1)) = n BY <1>1, FS_Interval
  <2>3. rank \in Surjection(S, 0..(n - 1)) BY <2>1, <2>2, FS_Injection DEF n
  <2> QED BY <2>3 DEF Surjection
<1>5. ASSUME NEW k \in 0..n PROVE Cardinality({s \in S : rank[s] < k}) = k
  <2> DEFINE A == {s \in S : rank[s] < k}
             few == [s \in A |-> rank[s]]
  <2>1. k \in Nat /\ k - 1 \in Int BY <1>1
  <2>2. DOMAIN few = A /\ few \in [A -> 0..(k - 1)] /\ \A s \in A : few[s] = rank[s]
    BY <1>1, <1>2, <2>1
  <2>3. few \in Injection(A, 0..(k - 1))
    <3>1. \A r, s \in A : r # s => few[r] # few[s] BY <1>2, <2>2
    <3> HIDE DEF few, A
    <3> QED BY <2>2, <3>1 DEF Injection, IsInjective
  <2>4. \A i \in 0..(k - 1) : \E s \in A : few[s] = i
    <3> SUFFICES ASSUME NEW i \in 0..(k - 1) PROVE \E s \in A : few[s] = i OBVIOUS
    <3>1. i \in 0..(n - 1) /\ i < k BY <1>1, <2>1
    <3>2. PICK s \in S : rank[s] = i BY <1>4, <3>1
    <3> QED BY <2>2, <3>1, <3>2
  <2> HIDE DEF few, A
  <2>5. few \in Surjection(A, 0..(k - 1)) BY <2>2, <2>4 DEF Surjection
  <2>6. IsFiniteSet(0..(k - 1)) /\ Cardinality(0..(k - 1)) = k BY <2>1, FS_Interval
  <2>7. Cardinality(A) = k BY <2>3, <2>5, <2>6, FS_Injection
  <2> QED BY <2>7 DEF A
<1> QED BY <1>2, <1>4, <1>5 DEF n
-----------------------------------------------------------------------------
(* Values of books.                                                        *)
LEMMA PriceFacts == \A s \in Symbols : Price[s] \in Nat /\ Price[s] > 0
BY RebalanceAssumption

LEMMA AbsFacts == \A n \in Int : Abs(n) \in Nat /\ (Abs(n) = 0 <=> n = 0)
BY DEF Abs

LEMMA ProductFacts ==
  /\ \A a, b \in Int : a * b \in Int /\ a * b = b * a
  /\ \A a, b \in Nat : a * b \in Nat
  /\ \A a, b \in Int : b > 0 => (a > 0 <=> a * b > 0) /\ (a < 0 <=> a * b < 0)
  /\ \A a, b, c \in Int : (a - b) * c = a * c - b * c
OBVIOUS

LEMMA NetIsSum ==
  ASSUME NEW q
  PROVE  /\ Net(q) = SumFunctionOnSet([s \in Symbols |-> q[s] * Price[s]], Symbols)
         /\ Gross(q) = SumFunctionOnSet([s \in Symbols |-> Abs(q[s]) * Price[s]], Symbols)
BY DEF Net, Gross, SumFunction

LEMMA NetTyped ==
  ASSUME NEW q \in [Symbols -> Int]
  PROVE  Net(q) \in Int /\ Gross(q) \in Nat
<1> DEFINE f == [s \in Symbols |-> q[s] * Price[s]]
           g == [s \in Symbols |-> Abs(q[s]) * Price[s]]
<1>1. \A s \in Symbols : f[s] \in Int /\ g[s] \in Nat
  <2> SUFFICES ASSUME NEW s \in Symbols PROVE f[s] \in Int /\ g[s] \in Nat OBVIOUS
  <2>1. q[s] \in Int /\ Abs(q[s]) \in Nat /\ Price[s] \in Nat BY PriceFacts, AbsFacts
  <2> QED BY <2>1, ProductFacts
<1> HIDE DEF f, g
<1>2. SumFunctionOnSet(f, Symbols) \in Int BY <1>1, SymbolsFacts, SumIsInt
<1>3. SumFunctionOnSet(g, Symbols) \in Nat BY <1>1, SymbolsFacts, SumIsNat
<1> QED BY <1>2, <1>3, NetIsSum DEF f, g

LEMMA NetMoves ==
  ASSUME NEW q \in [Symbols -> Int], NEW r \in [Symbols -> Int], NEW a \in Symbols,
         \A s \in Symbols \ {a} : r[s] = q[s]
  PROVE  /\ Net(r) = Net(q) + (r[a] - q[a]) * Price[a]
         /\ Gross(r) = Gross(q) + (Abs(r[a]) - Abs(q[a])) * Price[a]
<1> DEFINE fq == [s \in Symbols |-> q[s] * Price[s]]
           gq == [s \in Symbols |-> Abs(q[s]) * Price[s]]
           fr == [s \in Symbols |-> r[s] * Price[s]]
           gr == [s \in Symbols |-> Abs(r[s]) * Price[s]]
<1>1. ASSUME NEW s \in Symbols
      PROVE  fq[s] \in Int /\ gq[s] \in Int /\ fr[s] \in Int /\ gr[s] \in Int
  <2>1. /\ q[s] \in Int /\ r[s] \in Int /\ Abs(q[s]) \in Int /\ Abs(r[s]) \in Int
        /\ Price[s] \in Int
    BY PriceFacts, AbsFacts
  <2> QED BY <2>1, ProductFacts
<1>2. \A s \in Symbols \ {a} : fr[s] = fq[s] /\ gr[s] = gq[s] OBVIOUS
<1>3. /\ fr[a] - fq[a] = (r[a] - q[a]) * Price[a]
      /\ gr[a] - gq[a] = (Abs(r[a]) - Abs(q[a])) * Price[a]
  <2>1. r[a] \in Int /\ q[a] \in Int /\ Price[a] \in Int BY PriceFacts
  <2>2. Abs(r[a]) \in Int /\ Abs(q[a]) \in Int BY <2>1, AbsFacts
  <2> QED BY <2>1, <2>2, ProductFacts
<1>4. /\ Net(q) = SumFunctionOnSet(fq, Symbols) /\ Gross(q) = SumFunctionOnSet(gq, Symbols)
      /\ Net(r) = SumFunctionOnSet(fr, Symbols) /\ Gross(r) = SumFunctionOnSet(gr, Symbols)
  BY NetIsSum
<1> HIDE DEF fq, gq, fr, gr
<1>5. SumFunctionOnSet(fr, Symbols) = SumFunctionOnSet(fq, Symbols) + (fr[a] - fq[a])
  <2>1. IsFiniteSet(Symbols) BY SymbolsFacts
  <2>2. \A s \in Symbols : fq[s] \in Int /\ fr[s] \in Int BY <1>1
  <2>3. \A s \in Symbols \ {a} : fr[s] = fq[s] BY <1>2
  <2> QED BY <2>1, <2>2, <2>3, SumMoves
<1>6. SumFunctionOnSet(gr, Symbols) = SumFunctionOnSet(gq, Symbols) + (gr[a] - gq[a])
  <2>1. IsFiniteSet(Symbols) BY SymbolsFacts
  <2>2. \A s \in Symbols : gq[s] \in Int /\ gr[s] \in Int BY <1>1
  <2>3. \A s \in Symbols \ {a} : gr[s] = gq[s] BY <1>2
  <2> QED BY <2>1, <2>2, <2>3, SumMoves
<1> QED BY <1>3, <1>4, <1>5, <1>6

(* Targets are whole numbers of lots.                                      *)
LEMMA TargetsTyped ==
  ASSUME NEW w \in [Symbols -> Int], NEW budget \in Nat, NEW priced,
         NEW have \in [Symbols -> Int]
  PROVE  Targets(w, budget, priced, have) \in [Symbols -> Int]
<1> DEFINE f == [r \in Symbols |-> Abs(w[r])]
           total == SumFunction(f)
           lots(s) == IF total = 0 THEN 0 ELSE (Abs(w[s]) * budget) \div (total * Price[s])
<1>1. \A s \in Symbols : f[s] \in Nat BY AbsFacts
<1>2. total \in Nat
  <2>1. total = SumFunctionOnSet(f, Symbols) BY DEF SumFunction
  <2> QED BY <1>1, <2>1, SymbolsFacts, SumIsNat
<1>3. ASSUME NEW s \in Symbols PROVE lots(s) \in Int
  <2> DEFINE a == Abs(w[s]) * budget
             b == total * Price[s]
  <2>1. a \in Nat BY AbsFacts, ProductFacts
  <2>2. total # 0 => b \in Int /\ b > 0
    <3>1. Price[s] \in Int /\ Price[s] > 0 /\ total \in Int BY <1>2, PriceFacts
    <3> HIDE DEF total
    <3> QED BY <1>2, <3>1, ProductFacts
  <2> HIDE DEF a, b, total
  <2>3. total # 0 => a \div b \in Int BY <2>1, <2>2
  <2> QED BY <2>3 DEF a, b
<1>4. Targets(w, budget, priced, have) =
        [s \in Symbols |-> IF s \notin priced THEN have[s]
                           ELSE IF ~ is_tradeable(s, lots(s)) THEN 0
                           ELSE IF w[s] < 0 THEN - lots(s) ELSE lots(s)]
  BY DEF Targets
<1> HIDE DEF lots
<1>5. \A s \in Symbols : have[s] \in Int /\ - lots(s) \in Int BY <1>3
<1> QED BY <1>3, <1>4, <1>5

LEMMA SizedTyped ==
  ASSUME NEW w \in [Symbols -> Int], NEW budget
  PROVE  /\ \A S \in SUBSET Symbols : SumFunction([s \in S |-> w[s]]) \in Int
         /\ \A S \in SUBSET Symbols : SumFunction([s \in S |-> -w[s]]) \in Int
         /\ Sized(w, budget) \in [Symbols -> Int]
<1>1. ASSUME NEW S \in SUBSET Symbols
      PROVE  SumFunction([s \in S |-> w[s]]) \in Int /\ SumFunction([s \in S |-> -w[s]]) \in Int
  <2> DEFINE f == [s \in S |-> w[s]]
             g == [s \in S |-> -w[s]]
  <2>1. \A s \in S : f[s] \in Int /\ g[s] \in Int OBVIOUS
  <2>2. DOMAIN f = S /\ DOMAIN g = S OBVIOUS
  <2> HIDE DEF f, g
  <2>3. SumFunctionOnSet(f, S) \in Int /\ SumFunctionOnSet(g, S) \in Int
    BY <2>1, SymbolsFacts, SumIsInt
  <2>4. SumFunction(f) \in Int /\ SumFunction(g) \in Int BY <2>2, <2>3 DEF SumFunction
  <2> QED BY <2>4 DEF f, g
<1>2. Cut(w, budget) \in [Symbols -> Int]
  <2> DEFINE longs == Strongest(w, Leg(w, 1), per_side(w, budget))
             shorts == Strongest(w, Leg(w, -1), per_side(w, budget))
             sum_l == SumFunction([s \in longs |-> w[s]])
             sum_s == SumFunction([s \in shorts |-> -w[s]])
  <2>1. longs \in SUBSET Symbols /\ shorts \in SUBSET Symbols BY DEF Strongest, Leg
  <2>2. sum_l \in Int /\ sum_s \in Int BY <1>1, <2>1
  <2>3. Cut(w, budget) = [s \in Symbols |-> CASE s \in longs -> w[s] * sum_s
                                              [] s \in shorts -> w[s] * sum_l
                                              [] OTHER -> 0]
    BY DEF Cut
  <2> HIDE DEF longs, shorts, sum_l, sum_s
  <2>4. \A s \in Symbols : w[s] \in Int /\ w[s] * sum_s \in Int /\ w[s] * sum_l \in Int BY <2>2
  <2> QED BY <2>3, <2>4
<1> QED BY <1>1, <1>2 DEF Sized
-----------------------------------------------------------------------------
(* The repair.  What it works on: the plan's positions as they are booked, *)
(* and with some of the skipped adjustments taken back.                    *)
Booking(have, t, priced) ==
  [s \in Symbols |-> IF s \in priced THEN Booked(s, have[s], t[s]) ELSE 0]

Merged(have, t, priced, back) ==
  [s \in Symbols |-> IF s \in back THEN t[s] ELSE Booking(have, t, priced)[s]]

Entry(have, t, priced) ==
  [net |-> Net(Booking(have, t, priced)), gross |-> Gross(Booking(have, t, priced)), back |-> {}]

move(have, t, s) == (t[s] - have[s]) * Price[s]

LEMMA MoveTyped ==
  ASSUME NEW have \in [Symbols -> Int], NEW t \in [Symbols -> Int], NEW s \in Symbols
  PROVE  move(have, t, s) \in Int
<1>1. t[s] - have[s] \in Int /\ Price[s] \in Int BY PriceFacts
<1> QED BY <1>1, ProductFacts DEF move

LEMMA MergedTyped ==
  ASSUME NEW have \in [Symbols -> Int], NEW t \in [Symbols -> Int],
         NEW priced \in SUBSET Symbols, NEW back
  PROVE  /\ Booking(have, t, priced) \in [Symbols -> Int]
         /\ Merged(have, t, priced, back) \in [Symbols -> Int]
         /\ Merged(have, t, priced, {}) = Booking(have, t, priced)
         /\ \A s \in Skipped(have, t, priced) :
              s \in Symbols /\ s \in priced /\ Booking(have, t, priced)[s] = have[s]
<1>1. \A s \in Symbols : Booked(s, have[s], t[s]) \in Int BY DEF Booked
<1>2. Booking(have, t, priced) \in [Symbols -> Int] BY <1>1 DEF Booking
<1>3. Merged(have, t, priced, back) \in [Symbols -> Int] BY <1>2 DEF Merged
<1>4. Merged(have, t, priced, {}) = Booking(have, t, priced) BY <1>2 DEF Merged
<1>5. \A s \in Skipped(have, t, priced) :
        s \in Symbols /\ s \in priced /\ Booking(have, t, priced)[s] = have[s]
  BY DEF Skipped, Booked, Booking, TooSmall
<1> QED BY <1>2, <1>3, <1>4, <1>5

(* One adjustment more is taken back.                                      *)
LEMMA MergedMoves ==
  ASSUME NEW have \in [Symbols -> Int], NEW t \in [Symbols -> Int],
         NEW priced \in SUBSET Symbols, NEW back,
         NEW s \in Skipped(have, t, priced) \ back
  PROVE  /\ Net(Merged(have, t, priced, back \cup {s})) =
              Net(Merged(have, t, priced, back)) + (t[s] - have[s]) * Price[s]
         /\ Gross(Merged(have, t, priced, back \cup {s})) =
              Gross(Merged(have, t, priced, back)) + (Abs(t[s]) - Abs(have[s])) * Price[s]
<1> DEFINE q == Merged(have, t, priced, back)
           r == Merged(have, t, priced, back \cup {s})
<1>1. q \in [Symbols -> Int] /\ r \in [Symbols -> Int] BY MergedTyped
<1>2. s \in Symbols /\ q[s] = have[s] /\ r[s] = t[s] BY MergedTyped DEF Merged
<1>3. \A x \in Symbols \ {s} : r[x] = q[x] BY DEF Merged
<1> HIDE DEF q, r
<1>4. /\ Net(r) = Net(q) + (r[s] - q[s]) * Price[s]
      /\ Gross(r) = Gross(q) + (Abs(r[s]) - Abs(q[s])) * Price[s]
  BY <1>1, <1>2, <1>3, NetMoves
<1> QED BY <1>2, <1>4 DEF q, r

(* The candidates are the adjustments that pull against the net, each of   *)
(* them once.                                                              *)
Enumerates(next, S) ==
  /\ Len(next) \in Nat
  /\ \A i \in 1..Len(next) : next[i] \in S
  /\ \A i, j \in 1..Len(next) : i # j => next[i] # next[j]
  /\ \A s \in S : \E i \in 1..Len(next) : next[i] = s

LEMMA CandidatesFacts ==
  ASSUME NEW have \in [Symbols -> Int], NEW t \in [Symbols -> Int],
         NEW priced \in SUBSET Symbols, NEW net
  PROVE  Enumerates(Candidates(have, t, priced, net), Pulling(have, t, priced, net))
<1> DEFINE S == Pulling(have, t, priced, net)
           n == Cardinality(S)
           size == [s \in Symbols |-> Abs(move(have, t, s))]
           found == [i \in 1..n |-> CHOOSE s \in S : Rank(size, S, s) = i - 1]
<1>1. S \in SUBSET Symbols /\ S \subseteq Skipped(have, t, priced)
  BY DEF Pulling, Skipped
<1>2. n \in Nat BY <1>1, SymbolsFacts
<1>3. size \in [Symbols -> Int]
  <2>1. \A s \in Symbols : Abs(move(have, t, s)) \in Int BY MoveTyped, AbsFacts
  <2> QED BY <2>1
<1>4. Candidates(have, t, priced, net) = found BY DEF Candidates, move
<1> HIDE DEF S, size
<1>5. /\ \A s \in S : Rank(size, S, s) \in 0..(n - 1)
      /\ \A r, s \in S : r # s => Rank(size, S, r) # Rank(size, S, s)
  BY <1>1, <1>3, RanksDiffer
<1>6. \A i \in 0..(n - 1) : \E s \in S : Rank(size, S, s) = i BY <1>1, <1>3, RanksCount
<1> HIDE DEF n
<1>7. ASSUME NEW i \in 1..n PROVE found[i] \in S /\ Rank(size, S, found[i]) = i - 1
  <2>1. i - 1 \in 0..(n - 1) BY <1>2
  <2>2. \E s \in S : Rank(size, S, s) = i - 1 BY <1>6, <2>1
  <2>3. found[i] = CHOOSE s \in S : Rank(size, S, s) = i - 1 OBVIOUS
  <2> QED BY <2>2, <2>3
<1>8. Len(found) = n BY <1>2
<1> HIDE DEF found
<1>9. ASSUME NEW i \in 1..n, NEW j \in 1..n, i # j PROVE found[i] # found[j]
  <2>1. i - 1 # j - 1 BY <1>2, <1>9
  <2> QED BY <1>7, <2>1
<1>10. ASSUME NEW s \in S PROVE \E i \in 1..n : found[i] = s
  <2> DEFINE k == Rank(size, S, s) + 1
  <2>1. k \in 1..n /\ k - 1 = Rank(size, S, s) BY <1>2, <1>5
  <2>2. found[k] \in S /\ Rank(size, S, found[k]) = Rank(size, S, s) BY <1>7, <2>1
  <2>3. found[k] = s BY <1>5, <2>2
  <2> QED BY <2>1, <2>3
<1>11. Enumerates(found, S) BY <1>2, <1>7, <1>8, <1>9, <1>10 DEF Enumerates
<1> QED BY <1>4, <1>11 DEF S

(* The repair's recursive function is defined on each of its steps.        *)
Repairs(f, have, t, b, next, n) ==
  f = [i \in 0..n |-> IF i = 0 THEN b ELSE Considers(have, t, f[i - 1], next[i])]

LEMMA RepairDef ==
  ASSUME NEW have, NEW t, NEW priced, NEW b
  PROVE  LET next == Candidates(have, t, priced, b.net)
         IN _repair_neutrality(have, t, priced, b) =
              (CHOOSE f : Repairs(f, have, t, b, next, Len(next)))[Len(next)]
BY DEF _repair_neutrality, Repairs

LEMMA RepairExists ==
  ASSUME NEW have, NEW t, NEW b, NEW next, NEW n \in Nat
  PROVE  \E f : Repairs(f, have, t, b, next, n)
<1> DEFINE Bad == {m \in Nat : ~ \E f : Repairs(f, have, t, b, next, m)}
<1> SUFFICES ASSUME Bad # {} PROVE FALSE OBVIOUS
<1>1. PICK m \in Bad : \A k \in Bad : m <= k
  <2>1. Bad \in SUBSET Nat OBVIOUS
  <2> QED BY <2>1, LeastExists
<1>2. CASE m = 0
  <2> DEFINE f == [i \in 0..0 |-> b]
  <2>1. Repairs(f, have, t, b, next, 0) BY DEF Repairs
  <2> QED BY <1>2, <2>1
<1>3. CASE m # 0
  <2>1. m \in Nat /\ m - 1 \in Nat /\ m - 1 \notin Bad BY <1>1, <1>3
  <2>2. PICK f : Repairs(f, have, t, b, next, m - 1) BY <2>1
  <2> DEFINE g == [i \in 0..m |-> IF i = 0 THEN b ELSE Considers(have, t, f[i - 1], next[i])]
  <2>3. ASSUME NEW i \in 0..m, i # 0 PROVE g[i - 1] = f[i - 1]
    <3>1. i - 1 \in 0..(m - 1) /\ i - 1 \in 0..m BY <2>1, <2>3
    <3> DEFINE j == i - 1
    <3> HIDE DEF j
    <3>2. f[j] = IF j = 0 THEN b ELSE Considers(have, t, f[j - 1], next[j])
      BY <2>2, <3>1 DEF Repairs, j
    <3>3. g[j] = IF j = 0 THEN b ELSE Considers(have, t, f[j - 1], next[j])
      BY <3>1 DEF j
    <3> QED BY <3>2, <3>3 DEF j
  <2>4. g = [i \in 0..m |-> IF i = 0 THEN b ELSE Considers(have, t, g[i - 1], next[i])]
    BY <2>3
  <2>5. Repairs(g, have, t, b, next, m) BY <2>4 DEF Repairs
  <2> QED BY <1>1, <2>5
<1> QED BY <1>2, <1>3
(* What holds of the repair's books, whatever was taken back already: net  *)
(* and gross are those of the positions.                                   *)
Follows(have, t, priced, b) ==
  /\ b = [net |-> Net(Merged(have, t, priced, b.back)),
          gross |-> Gross(Merged(have, t, priced, b.back)), back |-> b.back]
  /\ b.back \subseteq Pulling(have, t, priced, Net(Booking(have, t, priced)))

Nearer(b, c) == Abs(c.net) < Abs(b.net)

(* A candidate is refused for good.                                        *)
Refused(have, t, b, s) ==
  \/ Within(b.net, b.gross)
  \/ s \in b.back
  \/ ~ is_tradeable(s, t[s] - have[s])
  \/ Abs(b.net + (t[s] - have[s]) * Price[s]) >= Abs(b.net)

LEMMA FollowsTyped ==
  ASSUME NEW have \in [Symbols -> Int], NEW t \in [Symbols -> Int],
         NEW priced \in SUBSET Symbols, NEW b, Follows(have, t, priced, b)
  PROVE  b.net \in Int /\ b.gross \in Nat
<1>1. Merged(have, t, priced, b.back) \in [Symbols -> Int] BY MergedTyped
<1>2. /\ Net(Merged(have, t, priced, b.back)) \in Int
      /\ Gross(Merged(have, t, priced, b.back)) \in Nat
  BY <1>1, NetTyped
<1>3. /\ b.net = Net(Merged(have, t, priced, b.back))
      /\ b.gross = Gross(Merged(have, t, priced, b.back))
  BY DEF Follows
<1> QED BY <1>2, <1>3

(* One candidate: it is refused, and the books stay, or it is taken back,  *)
(* and the net is nearer to nothing.                                       *)
LEMMA ConsidersOne ==
  ASSUME NEW have \in [Symbols -> Int], NEW t \in [Symbols -> Int],
         NEW priced \in SUBSET Symbols, NEW b, Follows(have, t, priced, b),
         NEW s \in Pulling(have, t, priced, Net(Booking(have, t, priced))) \ b.back
  PROVE  LET c == Considers(have, t, b, s)
         IN \/ c = b /\ Refused(have, t, b, s)
            \/ /\ Follows(have, t, priced, c) /\ c.back = b.back \cup {s}
               /\ c.net = b.net + move(have, t, s) /\ Nearer(b, c)
               /\ ~ Within(b.net, b.gross) /\ ~ Refused(have, t, b, s)
<1> DEFINE c == Considers(have, t, b, s)
           no == \/ Within(b.net, b.gross)
                 \/ ~ is_tradeable(s, t[s] - have[s])
                 \/ Abs(b.net + (t[s] - have[s]) * Price[s]) >= Abs(b.net)
<1>1. CASE no
  <2>1. c = b BY <1>1 DEF Considers
  <2>2. Refused(have, t, b, s) BY <1>1 DEF Refused
  <2> QED BY <2>1, <2>2
<1>2. CASE ~ no
  <2>1. c = [net |-> b.net + (t[s] - have[s]) * Price[s],
             gross |-> b.gross + (Abs(t[s]) - Abs(have[s])) * Price[s],
             back |-> b.back \cup {s}]
    BY <1>2 DEF Considers
  <2> HIDE DEF c
  <2>2. s \in Skipped(have, t, priced) \ b.back BY DEF Pulling
  <2>3. /\ b.net = Net(Merged(have, t, priced, b.back))
        /\ b.gross = Gross(Merged(have, t, priced, b.back))
    BY DEF Follows
  <2>4. /\ Net(Merged(have, t, priced, b.back \cup {s})) = b.net + (t[s] - have[s]) * Price[s]
        /\ Gross(Merged(have, t, priced, b.back \cup {s})) =
             b.gross + (Abs(t[s]) - Abs(have[s])) * Price[s]
    BY <2>2, <2>3, MergedMoves
  <2>5. /\ c.net = b.net + (t[s] - have[s]) * Price[s] /\ c.back = b.back \cup {s}
        /\ c = [net |-> Net(Merged(have, t, priced, c.back)),
                gross |-> Gross(Merged(have, t, priced, c.back)), back |-> c.back]
    BY <2>1, <2>4
  <2>6. c.back \subseteq Pulling(have, t, priced, Net(Booking(have, t, priced)))
    BY <2>5 DEF Follows
  <2>7. Follows(have, t, priced, c) BY <2>5, <2>6 DEF Follows
  <2>8. c.net = b.net + move(have, t, s) BY <2>5 DEF move
  <2>9. Nearer(b, c)
    <3>1. c.net \in Int /\ b.net \in Int BY <2>7, FollowsTyped
    <3>2. ~ (Abs(c.net) >= Abs(b.net)) BY <1>2, <2>5
    <3>3. Abs(c.net) \in Int /\ Abs(b.net) \in Int BY <3>1, AbsFacts
    <3> QED BY <3>2, <3>3 DEF Nearer
  <2>10. ~ Within(b.net, b.gross) /\ ~ Refused(have, t, b, s) BY <1>2 DEF Refused
  <2> QED BY <2>5, <2>7, <2>8, <2>9, <2>10 DEF c
<1> QED BY <1>1, <1>2

(* All candidates pull the same way, so what would not help does not help  *)
(* after another one was taken back either.                                *)
LEMMA RefusalsStay ==
  ASSUME NEW n \in Int, NEW m1 \in Int, NEW m2 \in Int,
         (m1 < 0 /\ m2 < 0) \/ (m1 > 0 /\ m2 > 0),
         Abs(n + m1) < Abs(n), Abs(n + m2) >= Abs(n)
  PROVE  Abs((n + m1) + m2) >= Abs(n + m1)
BY DEF Abs

LEMMA SameSide ==
  ASSUME NEW n \in Int, NEW m1 \in Int, NEW m2 \in Int, NEW p1 \in Int, NEW p2 \in Int,
         p1 > 0, p2 > 0, m1 * n < 0, m2 * n < 0
  PROVE  (m1 * p1 < 0 /\ m2 * p2 < 0) \/ (m1 * p1 > 0 /\ m2 * p2 > 0)
<1>1. \A a, b \in Int : a * b < 0 => (a < 0 /\ b > 0) \/ (a > 0 /\ b < 0) OBVIOUS
<1>2. (m1 < 0 /\ m2 < 0) \/ (m1 > 0 /\ m2 > 0) BY <1>1
<1> QED BY <1>2, ProductFacts

LEMMA StillRefused ==
  ASSUME NEW have \in [Symbols -> Int], NEW t \in [Symbols -> Int],
         NEW priced \in SUBSET Symbols,
         NEW b, NEW c, Follows(have, t, priced, b),
         NEW s \in Pulling(have, t, priced, Net(Booking(have, t, priced))),
         NEW r \in Pulling(have, t, priced, Net(Booking(have, t, priced))),
         c.back = b.back \cup {s}, c.net = b.net + move(have, t, s), Nearer(b, c),
         ~ Within(b.net, b.gross), Refused(have, t, b, r)
  PROVE  Refused(have, t, c, r)
<1>1. CASE r \in b.back \/ ~ is_tradeable(r, t[r] - have[r])
  BY <1>1 DEF Refused
<1>2. CASE Abs(b.net + move(have, t, r)) >= Abs(b.net)
  <2> DEFINE n0 == Net(Booking(have, t, priced))
  <2>1. n0 \in Int BY MergedTyped, NetTyped
  <2>2. s \in Symbols /\ r \in Symbols BY DEF Pulling, Skipped
  <2>3. (t[s] - have[s]) * n0 < 0 /\ (t[r] - have[r]) * n0 < 0 BY DEF Pulling
  <2> HIDE DEF n0
  <2>4. /\ t[s] - have[s] \in Int /\ t[r] - have[r] \in Int
        /\ Price[s] \in Int /\ Price[r] \in Int /\ Price[s] > 0 /\ Price[r] > 0
    BY <2>2, PriceFacts
  <2> DEFINE m1 == move(have, t, s)
             m2 == move(have, t, r)
  <2>5. (m1 < 0 /\ m2 < 0) \/ (m1 > 0 /\ m2 > 0)
    BY <2>1, <2>3, <2>4, SameSide DEF move
  <2>6. m1 \in Int /\ m2 \in Int BY <2>2, MoveTyped
  <2>7. b.net \in Int BY FollowsTyped
  <2>8. Abs(b.net + m1) < Abs(b.net) BY DEF Nearer
  <2> HIDE DEF m1, m2
  <2>9. Abs((b.net + m1) + m2) >= Abs(b.net + m1)
    <3>1. Abs(b.net + m2) >= Abs(b.net) BY <1>2 DEF m2
    <3> QED BY <2>5, <2>6, <2>7, <2>8, <3>1, RefusalsStay
  <2>10. Abs(c.net + move(have, t, r)) >= Abs(c.net) BY <2>9 DEF m1, m2
  <2> QED BY <2>10 DEF Refused, move
<1> QED BY <1>1, <1>2 DEF Refused, move
(* The whole repair: the books follow the positions, the net got nearer to *)
(* nothing if anything was taken back, and something was that helps on its *)
(* own; every candidate was refused for good or taken back.                *)
Fares(have, t, priced, next, b, i) ==
  /\ Follows(have, t, priced, b)
  /\ \A s \in b.back : \E j \in 1..i : next[j] = s
  /\ \/ b = Entry(have, t, priced)
     \/ /\ Nearer(Entry(have, t, priced), b)
        /\ \E j \in 1..i : ~ Refused(have, t, Entry(have, t, priced), next[j])
  /\ \A j \in 1..i : Refused(have, t, b, next[j])

LEMMA EntryFollows ==
  ASSUME NEW have \in [Symbols -> Int], NEW t \in [Symbols -> Int],
         NEW priced \in SUBSET Symbols
  PROVE  /\ Follows(have, t, priced, Entry(have, t, priced))
         /\ Entry(have, t, priced).net = Net(Booking(have, t, priced))
         /\ Entry(have, t, priced).back = {}
BY MergedTyped DEF Follows, Entry

LEMMA FaresOn ==
  ASSUME NEW have \in [Symbols -> Int], NEW t \in [Symbols -> Int],
         NEW priced \in SUBSET Symbols, NEW next, NEW i \in Nat, i > 0,
         NEW b, Fares(have, t, priced, next, b, i - 1),
         next[i] \in Pulling(have, t, priced, Net(Booking(have, t, priced))),
         \A j \in 1..(i - 1) :
           /\ next[j] # next[i]
           /\ next[j] \in Pulling(have, t, priced, Net(Booking(have, t, priced)))
  PROVE  Fares(have, t, priced, next, Considers(have, t, b, next[i]), i)
<1> DEFINE c == Considers(have, t, b, next[i])
           e == Entry(have, t, priced)
<1>1. Follows(have, t, priced, b) BY DEF Fares
<1>2. next[i] \notin b.back BY DEF Fares
<1>3. \/ c = b /\ Refused(have, t, b, next[i])
      \/ /\ Follows(have, t, priced, c) /\ c.back = b.back \cup {next[i]}
         /\ c.net = b.net + move(have, t, next[i]) /\ Nearer(b, c)
         /\ ~ Within(b.net, b.gross) /\ ~ Refused(have, t, b, next[i])
  BY <1>1, <1>2, ConsidersOne
<1>4. \A j \in 1..i : j = i \/ j \in 1..(i - 1) OBVIOUS
<1>5. \A j \in 1..(i - 1) : j \in 1..i OBVIOUS
<1>6. i \in 1..i OBVIOUS
<1> HIDE DEF c, e
<1>7. CASE c = b /\ Refused(have, t, b, next[i])
  <2>1. Follows(have, t, priced, c) BY <1>1, <1>7
  <2>2. \A s \in c.back : \E j \in 1..i : next[j] = s BY <1>5, <1>7 DEF Fares
  <2>3. c = e \/ (Nearer(e, c) /\ \E j \in 1..i : ~ Refused(have, t, e, next[j]))
    BY <1>5, <1>7 DEF Fares, e
  <2>4. \A j \in 1..i : Refused(have, t, c, next[j]) BY <1>4, <1>7 DEF Fares
  <2>5. Fares(have, t, priced, next, c, i) BY <2>1, <2>2, <2>3, <2>4 DEF Fares, e
  <2> QED BY <2>5 DEF c
<1>8. CASE /\ Follows(have, t, priced, c) /\ c.back = b.back \cup {next[i]}
           /\ c.net = b.net + move(have, t, next[i]) /\ Nearer(b, c)
           /\ ~ Within(b.net, b.gross) /\ ~ Refused(have, t, b, next[i])
  <2>1. \A s \in c.back : \E j \in 1..i : next[j] = s
    <3>1. \A s \in b.back : \E j \in 1..(i - 1) : next[j] = s BY DEF Fares
    <3> QED BY <1>5, <1>6, <1>8, <3>1
  <2>2. Nearer(e, c)
    <3>1. b = e \/ Nearer(e, b) BY DEF Fares, e
    <3>2. Follows(have, t, priced, e) BY EntryFollows DEF e
    <3>3. e.net \in Int /\ b.net \in Int /\ c.net \in Int BY <1>1, <1>8, <3>2, FollowsTyped
    <3>4. Abs(e.net) \in Int /\ Abs(b.net) \in Int /\ Abs(c.net) \in Int BY <3>3, AbsFacts
    <3> QED BY <1>8, <3>1, <3>4 DEF Nearer
  <2>3. ASSUME NEW j \in 1..(i - 1) PROVE Refused(have, t, c, next[j])
    <3>1. Refused(have, t, b, next[j]) BY DEF Fares
    <3>2. next[j] \in Pulling(have, t, priced, Net(Booking(have, t, priced))) OBVIOUS
    <3> QED BY <1>1, <1>8, <3>1, <3>2, StillRefused
  <2>4. Refused(have, t, c, next[i]) BY <1>8 DEF Refused
  <2>5. \A j \in 1..i : Refused(have, t, c, next[j]) BY <1>4, <2>3, <2>4
  <2>6. \E j \in 1..i : ~ Refused(have, t, e, next[j])
    <3>1. b = e \/ \E j \in 1..(i - 1) : ~ Refused(have, t, e, next[j]) BY DEF Fares, e
    <3> QED BY <1>5, <1>6, <1>8, <3>1
  <2>7. Fares(have, t, priced, next, c, i) BY <1>8, <2>1, <2>2, <2>5, <2>6 DEF Fares, e
  <2> QED BY <2>7 DEF c
<1> QED BY <1>3, <1>7, <1>8

Repaired(have, t, priced) == _repair_neutrality(have, t, priced, Entry(have, t, priced))

LEMMA RepairFacts ==
  ASSUME NEW have \in [Symbols -> Int], NEW t \in [Symbols -> Int],
         NEW priced \in SUBSET Symbols
  PROVE  LET b == Repaired(have, t, priced)
         IN /\ Follows(have, t, priced, b)
            /\ \/ b = Entry(have, t, priced)
               \/ /\ Nearer(Entry(have, t, priced), b)
                  /\ \E s \in Pulling(have, t, priced, Net(Booking(have, t, priced))) :
                       ~ Refused(have, t, Entry(have, t, priced), s)
            /\ \A s \in Pulling(have, t, priced, Net(Booking(have, t, priced))) :
                 Refused(have, t, b, s)
<1> DEFINE e == Entry(have, t, priced)
           P == Pulling(have, t, priced, Net(Booking(have, t, priced)))
           next == Candidates(have, t, priced, Net(Booking(have, t, priced)))
           n == Len(next)
           after == CHOOSE f : Repairs(f, have, t, e, next, n)
<1>1. Net(Booking(have, t, priced)) = e.net BY EntryFollows
<1>2. /\ n \in Nat
      /\ \A i \in 1..n : next[i] \in P
      /\ \A i, j \in 1..n : i # j => next[i] # next[j]
      /\ \A s \in P : \E i \in 1..n : next[i] = s
  <2> HIDE DEF n, after, e
  <2>1. Enumerates(next, P) BY CandidatesFacts
  <2> HIDE DEF next, P
  <2> QED BY <2>1 DEF Enumerates, n
<1>3. Repaired(have, t, priced) = after[n] BY <1>1, RepairDef DEF Repaired
<1> HIDE DEF e, next, n
<1>4. Repairs(after, have, t, e, next, n) BY <1>2, RepairExists
<1> HIDE DEF after, P
<1>5. \A i \in 0..n : after[i] = IF i = 0 THEN e ELSE Considers(have, t, after[i - 1], next[i])
  BY <1>4 DEF Repairs
<1> DEFINE Bad == {i \in 0..n : ~ Fares(have, t, priced, next, after[i], i)}
<1>6. ASSUME Bad # {} PROVE FALSE
  <2>1. PICK i \in Bad : \A k \in Bad : i <= k
    <3>1. Bad \in SUBSET Nat BY <1>2
    <3> HIDE DEF Bad
    <3> QED BY <1>6, <3>1, LeastExists
  <2>2. i \in 0..n /\ ~ Fares(have, t, priced, next, after[i], i) OBVIOUS
  <2>3. CASE i = 0
    <3>1. after[i] = e BY <1>5, <2>2, <2>3
    <3>2. Follows(have, t, priced, e) /\ e.back = {} BY EntryFollows DEF e
    <3>3. 1..i = {} BY <2>3
    <3>4. Fares(have, t, priced, next, e, i) BY <3>2, <3>3 DEF Fares, e
    <3> QED BY <2>2, <3>1, <3>4
  <2>4. CASE i # 0
    <3>1. i - 1 \in 0..n /\ ~ (i <= i - 1) /\ i \in Nat /\ i > 0 /\ i \in 1..n
      BY <1>2, <2>2, <2>4
    <3>2. i - 1 \notin Bad BY <2>1, <3>1
    <3>3. Fares(have, t, priced, next, after[i - 1], i - 1) BY <3>1, <3>2
    <3>4. next[i] \in P BY <1>2, <3>1
    <3>5. \A j \in 1..(i - 1) : next[j] # next[i] /\ next[j] \in P
      <4>1. \A j \in 1..(i - 1) : j \in 1..n /\ j # i BY <1>2, <3>1
      <4> QED BY <1>2, <3>1, <4>1
    <3>6. Fares(have, t, priced, next, Considers(have, t, after[i - 1], next[i]), i)
      BY <3>1, <3>3, <3>4, <3>5, FaresOn DEF P
    <3>7. after[i] = Considers(have, t, after[i - 1], next[i]) BY <1>5, <2>2, <2>4
    <3> QED BY <2>2, <3>6, <3>7
  <2> QED BY <2>3, <2>4
<1>7. Fares(have, t, priced, next, after[n], n)
  <2>1. n \in 0..n BY <1>2
  <2> QED BY <1>6, <2>1
<1>8. \A s \in P : Refused(have, t, after[n], s) BY <1>2, <1>7 DEF Fares
<1>9. /\ Follows(have, t, priced, after[n])
      /\ after[n] = e \/ (Nearer(e, after[n]) /\ \E s \in P : ~ Refused(have, t, e, s))
  BY <1>2, <1>7 DEF Fares, e
<1> QED BY <1>3, <1>8, <1>9 DEF e, P
-----------------------------------------------------------------------------
(* The plan: what it says is what the repair left.                         *)
LEMMA PlannedIs ==
  ASSUME NEW have, NEW t, NEW priced
  PROVE  LET p == Planned(have, t, priced)
             b == Repaired(have, t, priced)
         IN /\ p.net = b.net /\ p.gross = b.gross /\ p.back = b.back
            /\ p.unrepaired = Net(Booking(have, t, priced))
            /\ p.target = t
            /\ p.orders = Ordered(have, t, priced) \cup b.back
            /\ p.kept = Skipped(have, t, priced) \ b.back
            /\ p.forgotten = Forgotten(have, t, priced) \cup (Symbols \ priced)
<1> DEFINE b == _repair_neutrality(have, t, priced,
                  [net |-> Net(Booking(have, t, priced)),
                   gross |-> Gross(Booking(have, t, priced)), back |-> {}])
<1>1. Planned(have, t, priced) =
        [net |-> b.net, gross |-> b.gross, unrepaired |-> Net(Booking(have, t, priced)),
         target |-> t, back |-> b.back,
         orders |-> Ordered(have, t, priced) \cup b.back,
         kept |-> Skipped(have, t, priced) \ b.back,
         forgotten |-> Forgotten(have, t, priced) \cup (Symbols \ priced)]
  BY Zenon DEF Planned, Booking
<1>2. Repaired(have, t, priced) = b BY DEF Repaired, Entry
<1> HIDE DEF b
<1> QED BY <1>1, <1>2

(* The book there will be with all orders of the plan filled.              *)
Filled(have, t, priced, back) ==
  [s \in Symbols |-> IF s \in Ordered(have, t, priced) \cup back THEN t[s] ELSE have[s]]

LEMMA FilledFacts ==
  ASSUME NEW have \in [Symbols -> Int], NEW t \in [Symbols -> Int],
         NEW priced \in SUBSET Symbols, NEW back \in SUBSET Skipped(have, t, priced)
  PROVE  LET q == Filled(have, t, priced, back)
         IN /\ q \in [Symbols -> Int]
            /\ \A s \in Symbols \ priced : q[s] = have[s]
            /\ Booking(q, t, priced) = Merged(have, t, priced, back)
            /\ Skipped(q, t, priced) = Skipped(have, t, priced) \ back
            /\ \A s \in Skipped(q, t, priced) : q[s] = have[s]
            /\ Ordered(q, t, priced) = {}
            /\ Forgotten(have, t, priced) \cup (Symbols \ priced) = {} =>
                 q = Merged(have, t, priced, back)
<1> DEFINE q == Filled(have, t, priced, back)
<1>0. \A s \in Symbols : have[s] \in Int /\ t[s] \in Int OBVIOUS
<1>1. q \in [Symbols -> Int] BY <1>0 DEF Filled
<1>2. ASSUME NEW s \in Symbols \ priced PROVE q[s] = have[s] /\ s \notin back
  BY DEF Filled, Ordered, Skipped
<1>3. ASSUME NEW s \in priced
      PROVE  \/ /\ q[s] = t[s] /\ s \notin Forgotten(have, t, priced)
                /\ s \in back \/ (s \notin back /\ Booked(s, have[s], t[s]) = t[s])
                /\ s \in Skipped(have, t, priced) => s \in back
             \/ /\ q[s] = have[s] /\ s \notin back /\ have[s] # t[s]
                /\ s \in Skipped(have, t, priced) \/ s \in Forgotten(have, t, priced)
  <2>1. s \in Symbols /\ s \in priced OBVIOUS
  <2>2. CASE s \in back
    <3>1. s \in Skipped(have, t, priced) BY <2>2
    <3>2. InBand(have[s], t[s]) BY <3>1 DEF Skipped
    <3>3. s \notin Forgotten(have, t, priced) BY <3>2 DEF Forgotten, TooSmall
    <3> QED BY <2>1, <2>2, <3>3 DEF Filled
  <2>3. CASE s \notin back /\ have[s] = t[s]
    <3>1. ~ InBand(have[s], t[s]) /\ ~ TooSmall(s, have[s], t[s])
      BY <2>3 DEF InBand, TooSmall
    <3>2. s \notin Skipped(have, t, priced) /\ s \notin Forgotten(have, t, priced)
      BY <3>1 DEF Skipped, Forgotten
    <3>3. Booked(s, have[s], t[s]) = t[s] BY <3>1 DEF Booked
    <3> QED BY <2>1, <2>3, <3>2, <3>3 DEF Filled
  <2>4. CASE s \notin back /\ have[s] # t[s] /\ s \in Ordered(have, t, priced)
    <3>1. s \notin Skipped(have, t, priced) /\ s \notin Forgotten(have, t, priced)
      BY <2>4 DEF Ordered
    <3>2. ~ InBand(have[s], t[s]) /\ ~ TooSmall(s, have[s], t[s])
      BY <3>1 DEF Skipped, Forgotten
    <3>3. Booked(s, have[s], t[s]) = t[s] BY <3>2 DEF Booked
    <3> QED BY <2>1, <2>4, <3>1, <3>3 DEF Filled
  <2>5. CASE s \notin back /\ have[s] # t[s] /\ s \notin Ordered(have, t, priced)
    <3>1. s \in Skipped(have, t, priced) \/ s \in Forgotten(have, t, priced)
      BY <2>5 DEF Ordered
    <3> QED BY <2>1, <2>5, <3>1 DEF Filled
  <2> QED BY <2>2, <2>3, <2>4, <2>5
<1> HIDE DEF q
<1>4. ASSUME NEW s \in priced
      PROVE  Booked(s, q[s], t[s]) = IF s \in back THEN t[s] ELSE Booked(s, have[s], t[s])
  <2>1. Booked(s, t[s], t[s]) = t[s] BY DEF Booked, InBand, TooSmall
  <2> QED BY <1>3, <2>1
<1>5. Booking(q, t, priced) = Merged(have, t, priced, back)
  <2>1. \A s \in Symbols :
          (IF s \in priced THEN Booked(s, q[s], t[s]) ELSE 0) =
          (IF s \in back THEN t[s] ELSE IF s \in priced THEN Booked(s, have[s], t[s]) ELSE 0)
    BY <1>2, <1>4
  <2> QED BY <2>1 DEF Booking, Merged
<1>6. ASSUME NEW s \in priced
      PROVE  /\ InBand(q[s], t[s]) <=> InBand(have[s], t[s]) /\ s \notin back
             /\ q[s] # t[s] => InBand(q[s], t[s]) \/ TooSmall(s, q[s], t[s])
  <2>1. ~ InBand(t[s], t[s]) BY DEF InBand
  <2>2. s \in Skipped(have, t, priced) <=> InBand(have[s], t[s]) BY DEF Skipped
  <2>3. s \in Forgotten(have, t, priced) <=> TooSmall(s, have[s], t[s]) BY DEF Forgotten
  <2> QED BY <1>3, <2>1, <2>2, <2>3
<1>7. Skipped(q, t, priced) = Skipped(have, t, priced) \ back BY <1>6 DEF Skipped
<1>8. \A s \in Skipped(q, t, priced) : q[s] = have[s]
  <2>1. \A s \in Skipped(q, t, priced) :
          s \in priced /\ s \in Skipped(have, t, priced) /\ s \notin back
    BY <1>7 DEF Skipped
  <2> QED BY <1>3, <2>1
<1>9. Ordered(q, t, priced) = {} BY <1>6 DEF Ordered, Skipped, Forgotten
<1>10. ASSUME Forgotten(have, t, priced) \cup (Symbols \ priced) = {}
       PROVE  q = Merged(have, t, priced, back)
  <2>1. \A s \in Symbols : s \in priced /\ s \notin Forgotten(have, t, priced) BY <1>10
  <2>2. \A s \in Skipped(have, t, priced) : Booked(s, have[s], t[s]) = have[s]
    BY DEF Skipped, Booked, TooSmall
  <2>3. \A s \in Symbols : q[s] = IF s \in back THEN t[s] ELSE Booked(s, have[s], t[s])
    <3> SUFFICES ASSUME NEW s \in Symbols
                 PROVE  q[s] = IF s \in back THEN t[s] ELSE Booked(s, have[s], t[s])
      OBVIOUS
    <3>1. s \in priced /\ s \notin Forgotten(have, t, priced) BY <2>1
    <3> QED BY <1>3, <2>2, <3>1
  <2>4. \A s \in Symbols : q[s] = Merged(have, t, priced, back)[s]
    BY <2>1, <2>3 DEF Merged, Booking
  <2>5. Merged(have, t, priced, back) \in [Symbols -> Int] BY MergedTyped
  <2> QED BY <1>1, <2>4, <2>5
<1> QED BY <1>1, <1>2, <1>5, <1>7, <1>8, <1>9, <1>10 DEF q
(* A repaired plan is at rest: every adjustment the next plan could take   *)
(* back pulls the way the last candidates did, and was refused.            *)
LEMMA SameSign ==
  ASSUME NEW m \in Int, NEW n \in Int, NEW u \in Int,
         m * n < 0, n * u >= 0, u = 0 => n = 0
  PROVE  m * u < 0
<1>1. \A a, b \in Int : a * b < 0 <=> (a < 0 /\ b > 0) \/ (a > 0 /\ b < 0) OBVIOUS
<1>2. (m < 0 /\ n > 0) \/ (m > 0 /\ n < 0) BY <1>1
<1>3. ~ (n < 0 /\ u > 0) /\ ~ (n > 0 /\ u < 0) BY <1>1
<1>4. (m < 0 /\ u > 0) \/ (m > 0 /\ u < 0) BY <1>2, <1>3
<1> QED BY <1>1, <1>4

LEMMA RestsAfterwards ==
  ASSUME NEW have \in [Symbols -> Int], NEW t \in [Symbols -> Int],
         NEW priced \in SUBSET Symbols,
         Planned(have, t, priced).net * Planned(have, t, priced).unrepaired >= 0
  PROVE  Planned(Filled(have, t, priced, Planned(have, t, priced).back), t, priced).orders = {}
<1> DEFINE b == Repaired(have, t, priced)
           u == Net(Booking(have, t, priced))
           q == Filled(have, t, priced, b.back)
           c == Repaired(q, t, priced)
           e == Entry(q, t, priced)
<1>1. /\ Follows(have, t, priced, b)
      /\ b = Entry(have, t, priced) \/ Nearer(Entry(have, t, priced), b)
      /\ \A s \in Pulling(have, t, priced, u) : Refused(have, t, b, s)
  BY RepairFacts
<1>2. b.back \in SUBSET Skipped(have, t, priced) BY <1>1 DEF Follows, Pulling
<1>3. /\ q \in [Symbols -> Int]
      /\ Booking(q, t, priced) = Merged(have, t, priced, b.back)
      /\ Skipped(q, t, priced) = Skipped(have, t, priced) \ b.back
      /\ \A s \in Skipped(q, t, priced) : q[s] = have[s]
      /\ Ordered(q, t, priced) = {}
  <2> DEFINE back == b.back
  <2>1. back \in SUBSET Skipped(have, t, priced) BY <1>2
  <2> HIDE DEF back, b, u, c, e
  <2>2. LET p == Filled(have, t, priced, back)
        IN /\ p \in [Symbols -> Int]
           /\ Booking(p, t, priced) = Merged(have, t, priced, back)
           /\ Skipped(p, t, priced) = Skipped(have, t, priced) \ back
           /\ \A s \in Skipped(p, t, priced) : p[s] = have[s]
           /\ Ordered(p, t, priced) = {}
    BY <2>1, FilledFacts
  <2> QED BY <2>2 DEF back
<1>4. b.net * u >= 0 BY PlannedIs
<1> HIDE DEF b, q
<1>5. e.net = b.net /\ e.gross = b.gross /\ e.back = {}
  <2>1. /\ b.net = Net(Merged(have, t, priced, b.back))
        /\ b.gross = Gross(Merged(have, t, priced, b.back))
    BY <1>1 DEF Follows
  <2> QED BY <1>3, <2>1 DEF Entry
<1>6. u \in Int /\ b.net \in Int /\ (u = 0 => b.net = 0)
  <2>1. u \in Int BY MergedTyped, NetTyped
  <2>2. b.net \in Int BY <1>1, FollowsTyped
  <2>3. Entry(have, t, priced).net = u BY DEF Entry
  <2>4. ASSUME u = 0 PROVE b.net = 0
    <3>1. CASE b = Entry(have, t, priced) BY <2>3, <2>4, <3>1
    <3>2. CASE Nearer(Entry(have, t, priced), b)
      <4>1. Abs(b.net) < Abs(u) BY <2>3, <3>2 DEF Nearer
      <4>2. Abs(b.net) \in Nat /\ Abs(u) = 0 BY <2>1, <2>2, <2>4, AbsFacts
      <4> QED BY <4>1, <4>2
    <3> QED BY <1>1, <3>1, <3>2
  <2> QED BY <2>1, <2>2, <2>4
<1> HIDE DEF u, e
<1>7. ASSUME NEW s \in Pulling(q, t, priced, Net(Booking(q, t, priced)))
      PROVE  Refused(q, t, e, s)
  <2>1. Net(Booking(q, t, priced)) = b.net BY <1>5 DEF Entry, e
  <2>2. s \in Skipped(q, t, priced) /\ (t[s] - q[s]) * b.net < 0 BY <2>1 DEF Pulling
  <2>3. s \in Skipped(have, t, priced) /\ s \notin b.back /\ q[s] = have[s] /\ s \in Symbols
    BY <1>3, <2>2 DEF Skipped
  <2>4. t[s] - have[s] \in Int BY <2>3
  <2>5. (t[s] - have[s]) * u < 0 BY <1>4, <1>6, <2>2, <2>3, <2>4, SameSign
  <2>6. s \in Pulling(have, t, priced, u) BY <2>3, <2>5 DEF Pulling
  <2>7. Refused(have, t, b, s) BY <1>1, <2>6
  <2> QED BY <1>5, <2>3, <2>7 DEF Refused
<1>8. \/ c = e
      \/ \E s \in Pulling(q, t, priced, Net(Booking(q, t, priced))) : ~ Refused(q, t, e, s)
  BY <1>3, RepairFacts DEF e
<1>9. c.back = {} BY <1>5, <1>7, <1>8
<1>10. Planned(q, t, priced).orders = Ordered(q, t, priced) \cup c.back BY PlannedIs
<1>11. Planned(have, t, priced).back = b.back BY PlannedIs DEF b
<1> QED BY <1>3, <1>9, <1>10, <1>11 DEF q

(* What the round holds, and what its plan was made of.                    *)
Faithful ==
  /\ held \in [Symbols -> Int]
  /\ plan # NoPlan =>
       /\ plan.asked \in Weights /\ plan.budget \in Budgets
       /\ plan.sized \in Nat /\ plan.priced \in SUBSET Symbols
       /\ plan.weights = Sized(plan.asked, plan.budget)
       /\ plan.book = build_rebalance_plan(plan.weights, plan.sized, plan.priced, held)

LEMMA PlanBudgetTyped ==
  ASSUME NEW budget \in Budgets, NEW multiplier \in Multipliers
  PROVE  plan_budget(budget, multiplier) \in Nat
<1> DEFINE k == budget * multiplier
<1>1. budget \in Nat /\ multiplier \in Nat BY RebalanceAssumption
<1>2. k \in Nat BY <1>1, ProductFacts
<1> HIDE DEF k
<1>3. k \div 100 \in Nat BY <1>2
<1> QED BY <1>1, <1>3 DEF plan_budget, k

LEMMA TargetsNow ==
  ASSUME Faithful, plan # NoPlan
  PROVE  LET t == Targets(plan.weights, plan.sized, plan.priced, held)
         IN /\ t \in [Symbols -> Int]
            /\ plan.book = Planned(held, t, plan.priced)
<1>1. plan.asked \in [Symbols -> Int] BY RebalanceAssumption DEF Faithful
<1>2. plan.weights \in [Symbols -> Int] BY <1>1, SizedTyped DEF Faithful
<1>3. Targets(plan.weights, plan.sized, plan.priced, held) \in [Symbols -> Int]
  BY <1>2, TargetsTyped DEF Faithful
<1> QED BY <1>3 DEF Faithful, build_rebalance_plan

LEMMA FaithfulStays ==
  ASSUME Faithful, [Next]_vars
  PROVE  Faithful'
<1>1. CASE Plans
  <2>1. PICK w \in Weights, budget \in Budgets, multiplier \in Multipliers,
             priced \in {Symbols} \cup {Symbols \ {s} : s \in Symbols} :
          plan' = [asked |-> w, weights |-> Sized(w, budget), budget |-> budget,
                   sized |-> plan_budget(budget, multiplier), priced |-> priced,
                   book |-> build_rebalance_plan(Sized(w, budget),
                              plan_budget(budget, multiplier), priced, held)]
    BY <1>1 DEF Plans
  <2>2. held' = held BY <1>1 DEF Plans
  <2>3. plan_budget(budget, multiplier) \in Nat BY PlanBudgetTyped
  <2>4. priced \in SUBSET Symbols OBVIOUS
  <2>5. /\ plan'.asked = w /\ plan'.budget = budget
        /\ plan'.sized = plan_budget(budget, multiplier) /\ plan'.priced = priced
        /\ plan'.weights = Sized(w, budget)
        /\ plan'.book = build_rebalance_plan(Sized(w, budget),
                          plan_budget(budget, multiplier), priced, held)
    BY <2>1
  <2>6. /\ plan'.asked \in Weights /\ plan'.budget \in Budgets
        /\ plan'.sized \in Nat /\ plan'.priced \in SUBSET Symbols
        /\ plan'.weights = Sized(plan'.asked, plan'.budget)
    BY <2>3, <2>4, <2>5
  <2>7. plan'.book = build_rebalance_plan(plan'.weights, plan'.sized, plan'.priced, held')
    BY <2>2, <2>5
  <2> QED BY <2>2, <2>6, <2>7 DEF Faithful
<1>2. CASE Executes
  <2>1. plan # NoPlan /\ plan' = NoPlan BY <1>2 DEF Executes
  <2>2. PICK filled \in SUBSET Placed :
          held' = [s \in Symbols |-> IF s \in filled THEN plan.book.target[s] ELSE held[s]]
    BY <1>2 DEF Executes
  <2>3. plan.book.target \in [Symbols -> Int]
    <3> DEFINE t == Targets(plan.weights, plan.sized, plan.priced, held)
    <3>1. t \in [Symbols -> Int] /\ plan.book = Planned(held, t, plan.priced)
      BY <2>1, TargetsNow
    <3> HIDE DEF t
    <3>2. plan.book.target = t BY <3>1, PlannedIs
    <3> QED BY <3>1, <3>2
  <2>4. held \in [Symbols -> Int] BY DEF Faithful
  <2>5. held' \in [Symbols -> Int] BY <2>2, <2>3, <2>4
  <2> QED BY <2>1, <2>5 DEF Faithful, NoPlan, Flat
<1>3. CASE UNCHANGED vars BY <1>3 DEF vars, Faithful, NoPlan, Flat
<1> QED BY <1>1, <1>2, <1>3 DEF Next
-----------------------------------------------------------------------------
(* The cut to the capital.                                                 *)
LEMMA PerSideFacts ==
  ASSUME NEW w \in [Symbols -> Int], NEW budget \in Nat
  PROVE  /\ per_side(w, budget) \in 0..Cardinality(Leg(w, 1))
         /\ per_side(w, budget) \in 0..Cardinality(Leg(w, -1))
         /\ 2 * per_side(w, budget) <= max_positions_for_capital(budget)
<1> DEFINE m == max_positions_for_capital(budget)
           a == m \div 2
           b == Cardinality(Leg(w, 1))
           c == Cardinality(Leg(w, -1))
<1>1. m \in Nat
  <2>1. MinPosition \in Nat /\ MinPosition > 0 BY RebalanceAssumption
  <2> QED BY <2>1 DEF max_positions_for_capital
<1>2. a \in Nat /\ 2 * a <= m
  <2> HIDE DEF m
  <2> QED BY <1>1
<1>3. b \in Nat /\ c \in Nat BY SymbolsFacts DEF Leg
<1>4. per_side(w, budget) = Min({a, b, c}) BY DEF per_side
<1> HIDE DEF a, b, c, m
<1>5. Min({a, b, c}) \in {a, b, c} /\ \A y \in {a, b, c} : Min({a, b, c}) <= y
  <2>1. \E x \in {a, b, c} : \A y \in {a, b, c} : x <= y BY <1>2, <1>3
  <2> QED BY <2>1 DEF Min
<1>6. Min({a, b, c}) \in Nat /\ Min({a, b, c}) <= a /\ Min({a, b, c}) <= b /\ Min({a, b, c}) <= c
  BY <1>2, <1>3, <1>5
<1>7. per_side(w, budget) \in 0..b /\ per_side(w, budget) \in 0..c /\ 2 * per_side(w, budget) <= m
  BY <1>1, <1>2, <1>3, <1>4, <1>6
<1> QED BY <1>7 DEF b, c, m

LEMMA StrongestFacts ==
  ASSUME NEW w \in [Symbols -> Int], NEW S \in SUBSET Symbols,
         NEW k \in 0..Cardinality(S)
  PROVE  /\ Strongest(w, S, k) \in SUBSET S
         /\ Cardinality(Strongest(w, S, k)) = k
<1> DEFINE size == [t \in Symbols |-> Abs(w[t])]
<1>1. size \in [Symbols -> Int] BY AbsFacts
<1>2. Strongest(w, S, k) = {s \in S : Rank(size, S, s) < k} BY DEF Strongest
<1> HIDE DEF size
<1>3. Cardinality({s \in S : Rank(size, S, s) < k}) = k BY <1>1, RanksCount
<1> QED BY <1>2, <1>3

(* The sum of a leg is positive, unless the leg is empty.                  *)
LEMMA LegSum ==
  ASSUME NEW f, NEW S \in SUBSET Symbols, DOMAIN f = S,
         \A s \in S : f[s] \in Nat /\ f[s] > 0
  PROVE  /\ SumFunction(f) = SumFunctionOnSet(f, S)
         /\ SumFunction(f) \in Nat
         /\ S # {} => SumFunction(f) > 0
<1>1. SumFunction(f) = SumFunctionOnSet(f, S) BY DEF SumFunction
<1>2. IsFiniteSet(S) BY SymbolsFacts
<1>3. SumFunctionOnSet(f, S) \in Nat BY <1>2, SumIsNat
<1>4. (\E s \in S : f[s] > 0) => SumFunctionOnSet(f, S) > 0 BY <1>2, SumIsNat
<1> QED BY <1>1, <1>3, <1>4

(* Two legs, each scaled with the sum of the other, sum up to nothing.     *)
Scales(f, g, S, c) ==
  IsFiniteSet(S) /\ c \in Int /\ \A s \in S : g[s] \in Int /\ f[s] = g[s] * c

Parts(f, A, B) ==
  /\ IsFiniteSet(A) /\ IsFiniteSet(B) /\ A \cap B = {}
  /\ \A s \in A \cup B : f[s] \in Int

LEMMA ScaledSum ==
  ASSUME NEW f, NEW g, NEW S, NEW c, Scales(f, g, S, c)
  PROVE  SumFunctionOnSet(f, S) = SumFunctionOnSet(g, S) * c
BY SumScales DEF Scales

LEMMA SumOfParts ==
  ASSUME NEW f, NEW A, NEW B, Parts(f, A, B)
  PROVE  SumFunctionOnSet(f, A \cup B) = SumFunctionOnSet(f, A) + SumFunctionOnSet(f, B)
BY SumSplits DEF Parts

Legs(f, up, down, longs, shorts, l, r) ==
  /\ longs \in SUBSET Symbols /\ shorts \in SUBSET Symbols /\ longs \cap shorts = {}
  /\ l = SumFunctionOnSet(up, longs) /\ l \in Int
  /\ r = SumFunctionOnSet(down, shorts) /\ r \in Int
  /\ \A s \in longs : up[s] \in Int /\ f[s] = up[s] * r
  /\ \A s \in shorts : down[s] \in Int /\ f[s] = down[s] * (-l)
  /\ \A s \in Symbols \ (longs \cup shorts) : f[s] = 0

LEMMA LegsCancel ==
  ASSUME NEW f, NEW up, NEW down, NEW longs, NEW shorts, NEW l, NEW r,
         Legs(f, up, down, longs, shorts, l, r)
  PROVE  SumFunctionOnSet(f, Symbols) = 0
<1> DEFINE both == longs \cup shorts
           rest == Symbols \ both
<1>1. longs \in SUBSET Symbols /\ shorts \in SUBSET Symbols /\ longs \cap shorts = {}
  BY DEF Legs
<1>2. l \in Int /\ r \in Int /\ - l \in Int BY DEF Legs
<1>3. IsFiniteSet(longs) /\ IsFiniteSet(shorts) /\ IsFiniteSet(rest) /\ IsFiniteSet(both)
  <2>1. rest \in SUBSET Symbols /\ both \in SUBSET Symbols BY <1>1
  <2> QED BY <1>1, <2>1, SymbolsFacts
<1>4. \A s \in Symbols : f[s] \in Int
  <2>1. \A a \in Int : a * r \in Int /\ a * (-l) \in Int BY <1>2
  <2> QED BY <2>1 DEF Legs
<1>5. SumFunctionOnSet(f, longs) = l * r
  <2>1. Scales(f, up, longs, r) BY <1>2, <1>3 DEF Legs, Scales
  <2>2. l = SumFunctionOnSet(up, longs) BY DEF Legs
  <2> QED BY <2>1, <2>2, ScaledSum
<1>6. SumFunctionOnSet(f, shorts) = r * (-l)
  <2>1. Scales(f, down, shorts, -l) BY <1>2, <1>3 DEF Legs, Scales
  <2>2. r = SumFunctionOnSet(down, shorts) BY DEF Legs
  <2> QED BY <2>1, <2>2, ScaledSum
<1>7. SumFunctionOnSet(f, rest) = 0
  <2>1. \A s \in rest : f[s] \in Int /\ f[s] = f[s] * 0 BY DEF Legs
  <2>2. Scales(f, f, rest, 0) BY <1>3, <2>1 DEF Scales
  <2>3. SumFunctionOnSet(f, rest) = SumFunctionOnSet(f, rest) * 0 BY <2>2, ScaledSum
  <2>4. SumFunctionOnSet(f, rest) \in Int BY <1>3, <2>1, SumIsInt
  <2> QED BY <2>3, <2>4
<1>8. SumFunctionOnSet(f, both) = l * r + r * (-l)
  <2>1. Parts(f, longs, shorts) BY <1>1, <1>3, <1>4 DEF Parts
  <2>2. SumFunctionOnSet(f, longs \cup shorts) =
          SumFunctionOnSet(f, longs) + SumFunctionOnSet(f, shorts)
    BY <2>1, SumOfParts
  <2> QED BY <1>5, <1>6, <2>2
<1>9. both \cup rest = Symbols BY <1>1
<1>10. SumFunctionOnSet(f, both \cup rest) = (l * r + r * (-l)) + 0
  <2>1. both \cap rest = {} OBVIOUS
  <2>2. Parts(f, both, rest) BY <1>3, <1>4, <1>9, <2>1 DEF Parts
  <2> HIDE DEF both, rest
  <2>3. SumFunctionOnSet(f, both \cup rest) =
          SumFunctionOnSet(f, both) + SumFunctionOnSet(f, rest)
    BY <2>2, SumOfParts
  <2> QED BY <1>7, <1>8, <2>3
<1>11. (l * r + r * (-l)) + 0 = 0 BY <1>2
<1> HIDE DEF both, rest
<1> QED BY <1>9, <1>10, <1>11

LEMMA CutFacts ==
  ASSUME NEW w \in [Symbols -> Int], NEW budget \in Nat
  PROVE  LET c == Cut(w, budget)
         IN /\ SumFunction(c) = 0
            /\ Leg(c, 1) \subseteq Leg(w, 1) /\ Leg(c, -1) \subseteq Leg(w, -1)
            /\ Cardinality(Leg(c, 1)) = Cardinality(Leg(c, -1))
            /\ Cardinality(Leg(c, 1) \cup Leg(c, -1)) <= max_positions_for_capital(budget)
<1> DEFINE k == per_side(w, budget)
           longs == Strongest(w, Leg(w, 1), k)
           shorts == Strongest(w, Leg(w, -1), k)
           up == [s \in longs |-> w[s]]
           down == [s \in shorts |-> -w[s]]
           sum_l == SumFunction(up)
           sum_s == SumFunction(down)
           c == Cut(w, budget)
<1>1. /\ Leg(w, 1) \in SUBSET Symbols /\ Leg(w, -1) \in SUBSET Symbols
      /\ \A s \in Leg(w, 1) : w[s] \in Int /\ w[s] > 0
      /\ \A s \in Leg(w, -1) : w[s] \in Int /\ w[s] < 0
  BY DEF Leg
<1>2. /\ k \in 0..Cardinality(Leg(w, 1)) /\ k \in 0..Cardinality(Leg(w, -1))
      /\ 2 * k <= max_positions_for_capital(budget)
  BY PerSideFacts
<1>3. c = [s \in Symbols |-> CASE s \in longs -> w[s] * sum_s
                               [] s \in shorts -> w[s] * sum_l
                               [] OTHER -> 0]
  BY DEF Cut
<1> HIDE DEF k
<1>4. /\ longs \in SUBSET Leg(w, 1) /\ Cardinality(longs) = k
      /\ shorts \in SUBSET Leg(w, -1) /\ Cardinality(shorts) = k
  BY <1>1, <1>2, StrongestFacts
<1> HIDE DEF longs, shorts
<1>5. /\ longs \in SUBSET Symbols /\ shorts \in SUBSET Symbols /\ longs \cap shorts = {}
      /\ \A s \in longs : w[s] \in Int /\ w[s] > 0
      /\ \A s \in shorts : w[s] \in Int /\ w[s] < 0
  BY <1>1, <1>4
<1>6. /\ sum_l = SumFunctionOnSet(up, longs) /\ sum_l \in Nat
      /\ longs # {} => sum_l > 0
  <2>1. DOMAIN up = longs /\ \A s \in longs : up[s] \in Nat /\ up[s] > 0 BY <1>5
  <2> HIDE DEF up
  <2> QED BY <1>5, <2>1, LegSum
<1>7. /\ sum_s = SumFunctionOnSet(down, shorts) /\ sum_s \in Nat
      /\ shorts # {} => sum_s > 0
  <2>1. DOMAIN down = shorts /\ \A s \in shorts : down[s] \in Nat /\ down[s] > 0 BY <1>5
  <2> HIDE DEF down
  <2> QED BY <1>5, <2>1, LegSum
<1> HIDE DEF sum_l, sum_s, c
<1>8. /\ \A s \in longs : c[s] = w[s] * sum_s
      /\ \A s \in shorts : c[s] = w[s] * sum_l
      /\ \A s \in Symbols \ (longs \cup shorts) : c[s] = 0
  BY <1>3, <1>5
<1>9. SumFunction(c) = 0
  <2>1. SumFunction(c) = SumFunctionOnSet(c, Symbols) BY <1>3 DEF SumFunction
  <2>2. /\ \A s \in longs : up[s] \in Int /\ c[s] = up[s] * sum_s
        /\ \A s \in shorts : down[s] \in Int /\ c[s] = down[s] * (- sum_l)
    <3>1. \A a \in Int : a * sum_l = (-a) * (- sum_l) BY <1>6
    <3> QED BY <1>5, <1>8, <3>1
  <2> HIDE DEF up, down
  <2>3. Legs(c, up, down, longs, shorts, sum_l, sum_s)
    BY <1>5, <1>6, <1>7, <1>8, <2>2 DEF Legs
  <2>4. SumFunctionOnSet(c, Symbols) = 0 BY <2>3, LegsCancel
  <2> QED BY <2>1, <2>4
<1>10. IsFiniteSet(longs) /\ IsFiniteSet(shorts) /\ k \in Nat
  BY <1>2, <1>5, SymbolsFacts
<1>11. (longs = {} <=> k = 0) /\ (shorts = {} <=> k = 0)
  BY <1>4, <1>10, FS_EmptySet
<1>12. /\ \A s \in longs : c[s] * 1 > 0 /\ ~ (c[s] * (-1) > 0)
       /\ \A s \in shorts : c[s] * (-1) > 0 /\ ~ (c[s] * 1 > 0)
       /\ \A s \in Symbols \ (longs \cup shorts) : ~ (c[s] * 1 > 0) /\ ~ (c[s] * (-1) > 0)
  <2>1. ASSUME NEW s \in longs PROVE c[s] \in Int /\ c[s] > 0
    <3>1. sum_s \in Int /\ sum_s > 0 BY <1>7, <1>11
    <3> QED BY <1>5, <1>8, <3>1, ProductFacts
  <2>2. ASSUME NEW s \in shorts PROVE c[s] \in Int /\ c[s] < 0
    <3>1. sum_l \in Int /\ sum_l > 0 BY <1>6, <1>11
    <3> QED BY <1>5, <1>8, <3>1, ProductFacts
  <2>3. \A a \in Int : a * 1 = a /\ a * (-1) = -a OBVIOUS
  <2> QED BY <1>8, <2>1, <2>2, <2>3
<1>13. Leg(c, 1) = longs /\ Leg(c, -1) = shorts BY <1>5, <1>12 DEF Leg
<1>14. Cardinality(longs \cup shorts) = k + k
  <2>1. Cardinality(longs \cup shorts) =
          Cardinality(longs) + Cardinality(shorts) - Cardinality(longs \cap shorts)
    BY <1>10, FS_Union
  <2>2. Cardinality(longs \cap shorts) = 0 BY <1>5, FS_EmptySet
  <2> QED BY <1>4, <1>10, <2>1, <2>2
<1>15. Cardinality(longs \cup shorts) <= max_positions_for_capital(budget)
  <2>1. k + k = 2 * k BY <1>10
  <2> QED BY <1>2, <1>14, <2>1
<1> QED BY <1>4, <1>9, <1>13, <1>15 DEF c
-----------------------------------------------------------------------------
(* Types.                                                                  *)
Books == [net : Int, gross : Nat, unrepaired : Int, target : [Symbols -> Int],
          back : SUBSET Symbols, orders : SUBSET Symbols,
          kept : SUBSET Symbols, forgotten : SUBSET Symbols]

LEMMA PlannedTyped ==
  ASSUME NEW have \in [Symbols -> Int], NEW t \in [Symbols -> Int],
         NEW priced \in SUBSET Symbols
  PROVE  Planned(have, t, priced) \in Books
<1> DEFINE b == _repair_neutrality(have, t, priced,
                  [net |-> Net(Booking(have, t, priced)),
                   gross |-> Gross(Booking(have, t, priced)), back |-> {}])
           u == Net(Booking(have, t, priced))
           orders == Ordered(have, t, priced) \cup b.back
           kept == Skipped(have, t, priced) \ b.back
           forgotten == Forgotten(have, t, priced) \cup (Symbols \ priced)
<1>1. Repaired(have, t, priced) = b BY DEF Repaired, Entry
<1>2. Follows(have, t, priced, b)
  <2> HIDE DEF b
  <2> QED BY <1>1, RepairFacts
<1>3. Planned(have, t, priced) =
        [net |-> b.net, gross |-> b.gross, unrepaired |-> u, target |-> t, back |-> b.back,
         orders |-> orders, kept |-> kept, forgotten |-> forgotten]
  BY Zenon DEF Planned, Booking
<1> HIDE DEF b
<1>4. b.net \in Int /\ b.gross \in Nat BY <1>2, FollowsTyped
<1>5. u \in Int BY MergedTyped, NetTyped
<1>6. b.back \in SUBSET Symbols BY <1>2 DEF Follows, Pulling, Skipped
<1>7. orders \in SUBSET Symbols /\ kept \in SUBSET Symbols /\ forgotten \in SUBSET Symbols
  BY <1>6 DEF Ordered, Skipped, Forgotten
<1> HIDE DEF u, orders, kept, forgotten
<1> QED BY <1>3, <1>4, <1>5, <1>6, <1>7 DEF Books

LEMMA NoPlanTyped ==
  /\ Flat \in [Symbols -> Int]
  /\ NoPlan.book \in Books
  /\ NoPlan = [asked |-> Flat, weights |-> Flat, budget |-> 0, sized |-> 0, priced |-> {},
               book |-> NoPlan.book]
<1>1. Flat \in [Symbols -> Int] BY DEF Flat
<1>2. NoPlan.book = [net |-> 0, gross |-> 0, unrepaired |-> 0, target |-> Flat, back |-> {},
                     orders |-> {}, kept |-> {}, forgotten |-> {}]
  BY DEF NoPlan
<1>3. NoPlan.book \in Books BY <1>1, <1>2 DEF Books
<1> QED BY <1>1, <1>3 DEF NoPlan

Plannings == [asked : [Symbols -> Int], weights : [Symbols -> Int], budget : Nat,
              sized : Nat, priced : SUBSET Symbols, book : Books]

LEMMA TypeDef == TypeOK <=> held \in [Symbols -> Int] /\ plan \in Plannings
BY DEF TypeOK, Plannings, Books

LEMMA NoPlanFits == NoPlan \in Plannings
<1> DEFINE b == NoPlan.book
<1>1. NoPlan = [asked |-> Flat, weights |-> Flat, budget |-> 0, sized |-> 0, priced |-> {},
                book |-> b] /\ b \in Books /\ Flat \in [Symbols -> Int]
  BY NoPlanTyped
<1> HIDE DEF b
<1> QED BY <1>1 DEF Plannings

LEMMA TypeStays ==
  ASSUME Faithful, plan \in Plannings, [Next]_vars
  PROVE  plan' \in Plannings
<1>1. CASE Plans
  <2>1. PICK w \in Weights, budget \in Budgets, multiplier \in Multipliers,
             priced \in {Symbols} \cup {Symbols \ {s} : s \in Symbols} :
          plan' = [asked |-> w, weights |-> Sized(w, budget), budget |-> budget,
                   sized |-> plan_budget(budget, multiplier), priced |-> priced,
                   book |-> build_rebalance_plan(Sized(w, budget),
                              plan_budget(budget, multiplier), priced, held)]
    BY <1>1 DEF Plans
  <2> DEFINE x == Sized(w, budget)
             y == plan_budget(budget, multiplier)
             b == build_rebalance_plan(x, y, priced, held)
             t == Targets(x, y, priced, held)
  <2>2. w \in [Symbols -> Int] /\ budget \in Nat BY RebalanceAssumption
  <2>3. x \in [Symbols -> Int] BY <2>2, SizedTyped
  <2>4. y \in Nat BY PlanBudgetTyped
  <2>5. priced \in SUBSET Symbols OBVIOUS
  <2>6. held \in [Symbols -> Int] BY DEF Faithful
  <2>7. b = Planned(held, t, priced) BY DEF build_rebalance_plan
  <2>8. plan' = [asked |-> w, weights |-> x, budget |-> budget, sized |-> y,
                 priced |-> priced, book |-> b]
    BY <2>1
  <2> HIDE DEF x, y, b
  <2>9. t \in [Symbols -> Int] BY <2>3, <2>4, <2>5, <2>6, TargetsTyped
  <2> HIDE DEF t
  <2>10. b \in Books BY <2>5, <2>6, <2>7, <2>9, PlannedTyped
  <2> QED BY <2>2, <2>3, <2>4, <2>5, <2>8, <2>10 DEF Plannings
<1>2. CASE Executes
  <2>1. plan' = NoPlan BY <1>2 DEF Executes
  <2>2. NoPlan' = NoPlan BY DEF NoPlan, Flat
  <2> QED BY <2>1, NoPlanFits
<1>3. CASE UNCHANGED vars BY <1>3 DEF vars
<1> QED BY <1>1, <1>2, <1>3 DEF Next

LEMMA StartsFaithful ==
  ASSUME Init
  PROVE  Faithful /\ plan \in Plannings
<1>1. held \in [Symbols -> Int] BY RebalanceAssumption DEF Init
<1>2. plan = NoPlan BY DEF Init
<1> QED BY <1>1, <1>2, NoPlanFits DEF Faithful

(* The state has its type, and a plan is what build_rebalance_plan makes   *)
(* of what the round read (execution/paper_rebalancer.py).                 *)
THEOREM PlansAreFaithful == Spec => [](TypeOK /\ Faithful)
<1>1. Init => TypeOK /\ Faithful BY StartsFaithful, TypeDef DEF Faithful
<1>2. TypeOK /\ Faithful /\ [Next]_vars => (TypeOK /\ Faithful)'
  <2> SUFFICES ASSUME TypeOK, Faithful, [Next]_vars PROVE (TypeOK /\ Faithful)'
    OBVIOUS
  <2>1. plan \in Plannings BY TypeDef
  <2>2. Faithful' BY FaithfulStays
  <2>3. plan' \in Plannings BY <2>1, TypeStays
  <2>4. held' \in [Symbols -> Int] BY <2>2 DEF Faithful
  <2>5. TypeOK' BY <2>3, <2>4, TypeDef DEF TypeOK, Plannings, Books
  <2> QED BY <2>2, <2>5
<1> QED BY <1>1, <1>2, PTL DEF Spec

(* The plan of a state, in terms of the repair.                            *)
LEMMA PlanNow ==
  ASSUME Faithful, plan # NoPlan,
         NEW t, t = Targets(plan.weights, plan.sized, plan.priced, held),
         NEW b, b = Repaired(held, t, plan.priced)
  PROVE  /\ held \in [Symbols -> Int] /\ t \in [Symbols -> Int]
         /\ plan.priced \in SUBSET Symbols
         /\ plan.book = Planned(held, t, plan.priced)
         /\ plan.book.net = b.net /\ plan.book.gross = b.gross /\ plan.book.back = b.back
         /\ plan.book.unrepaired = Net(Booking(held, t, plan.priced))
         /\ plan.book.target = t
         /\ plan.book.orders = Ordered(held, t, plan.priced) \cup b.back
         /\ plan.book.kept = Skipped(held, t, plan.priced) \ b.back
         /\ plan.book.forgotten = Forgotten(held, t, plan.priced) \cup (Symbols \ plan.priced)
         /\ b.back \in SUBSET Skipped(held, t, plan.priced)
         /\ After = Filled(held, t, plan.priced, b.back)
<1>1. held \in [Symbols -> Int] /\ plan.priced \in SUBSET Symbols BY DEF Faithful
<1>2. t \in [Symbols -> Int] /\ plan.book = Planned(held, t, plan.priced) BY TargetsNow
<1>3. /\ plan.book.net = b.net /\ plan.book.gross = b.gross /\ plan.book.back = b.back
      /\ plan.book.unrepaired = Net(Booking(held, t, plan.priced))
      /\ plan.book.target = t
      /\ plan.book.orders = Ordered(held, t, plan.priced) \cup b.back
      /\ plan.book.kept = Skipped(held, t, plan.priced) \ b.back
      /\ plan.book.forgotten = Forgotten(held, t, plan.priced) \cup (Symbols \ plan.priced)
  BY <1>2, PlannedIs
<1>4. Follows(held, t, plan.priced, b) BY <1>1, <1>2, RepairFacts
<1>5. b.back \in SUBSET Skipped(held, t, plan.priced) BY <1>4 DEF Follows, Pulling
<1>6. After = Filled(held, t, plan.priced, b.back) BY <1>3 DEF After, Filled
<1> QED BY <1>1, <1>2, <1>3, <1>5, <1>6

LEMMA FaithfulRepairs ==
  ASSUME Faithful
  PROVE  RepairWorks
<1> SUFFICES ASSUME plan # NoPlan PROVE RepairWorks
  BY DEF RepairWorks, RepairHelps, RepairIsComplete
<1> DEFINE t == Targets(plan.weights, plan.sized, plan.priced, held)
           b == Repaired(held, t, plan.priced)
           u == Net(Booking(held, t, plan.priced))
           e == Entry(held, t, plan.priced)
           forgotten == Forgotten(held, t, plan.priced) \cup (Symbols \ plan.priced)
<1>1. /\ held \in [Symbols -> Int] /\ t \in [Symbols -> Int]
      /\ plan.priced \in SUBSET Symbols
      /\ plan.book.net = b.net /\ plan.book.gross = b.gross /\ plan.book.back = b.back
      /\ plan.book.unrepaired = u /\ plan.book.target = t
      /\ plan.book.kept = Skipped(held, t, plan.priced) \ b.back
      /\ plan.book.forgotten = forgotten
      /\ b.back \in SUBSET Skipped(held, t, plan.priced)
      /\ After = Filled(held, t, plan.priced, b.back)
  BY PlanNow
<1> HIDE DEF t
<1>2. /\ Follows(held, t, plan.priced, b)
      /\ b = e \/ Nearer(e, b)
      /\ \A s \in Pulling(held, t, plan.priced, u) : Refused(held, t, b, s)
  BY <1>1, RepairFacts
<1>3. e.net = u /\ e.back = {} BY <1>1, EntryFollows
<1>4. u \in Int /\ b.net \in Int
  <2>1. u \in Int BY <1>1, MergedTyped, NetTyped
  <2>2. b.net \in Int
    <3> HIDE DEF b
    <3> QED BY <1>1, <1>2, FollowsTyped
  <2> QED BY <2>1, <2>2
<1> HIDE DEF b, u, e
<1>5. RepairHelps
  <2> SUFFICES ASSUME b.back # {}, forgotten = {} PROVE Abs(Net(After)) < Abs(u)
    BY <1>1 DEF RepairHelps
  <2>1. Nearer(e, b) BY <1>2, <1>3
  <2>2. After = Merged(held, t, plan.priced, b.back)
    <3> DEFINE back == b.back
    <3>1. back \in SUBSET Skipped(held, t, plan.priced) BY <1>1
    <3> HIDE DEF back
    <3>2. Filled(held, t, plan.priced, back) = Merged(held, t, plan.priced, back)
      BY <1>1, <3>1, FilledFacts
    <3> QED BY <1>1, <3>2 DEF back
  <2>3. Net(After) = b.net BY <1>2, <2>2 DEF Follows
  <2> QED BY <1>3, <2>1, <2>3 DEF Nearer
<1>6. RepairIsComplete
  <2> SUFFICES ASSUME ~ Within(b.net, b.gross),
                      NEW s \in Skipped(held, t, plan.priced) \ b.back,
                      is_tradeable(s, t[s] - held[s]), ~ ((t[s] - held[s]) * u >= 0)
               PROVE  Abs(b.net + (t[s] - held[s]) * Price[s]) >= Abs(b.net)
    BY <1>1 DEF RepairIsComplete
  <2>1. s \in Symbols BY <1>1 DEF Skipped
  <2>2. (t[s] - held[s]) * u \in Int BY <1>1, <1>4, <2>1, ProductFacts
  <2>3. (t[s] - held[s]) * u < 0 BY <2>2
  <2>4. s \in Pulling(held, t, plan.priced, u) BY <2>3 DEF Pulling
  <2>5. Refused(held, t, b, s) BY <1>2, <2>4
  <2> QED BY <2>5 DEF Refused
<1> QED BY <1>5, <1>6 DEF RepairWorks

(* What the repair of a plan's neutrality takes back brings the book       *)
(* nearer to neutral, and it leaves nothing that would bring it nearer     *)
(* still (_repair_neutrality, F42).                                        *)
THEOREM PlansAreRepaired == Spec => []RepairWorks
<1>1. TypeOK /\ Faithful => RepairWorks BY FaithfulRepairs
<1> QED BY <1>1, PlansAreFaithful, PTL

(* Targets cut to the capital are neutral, fit into it, keep their signs   *)
(* and hold as many symbols of the one leg as of the other (run_once, F43).*)
THEOREM CutsAreNeutral == Spec => []CutIsNeutral
<1>1. ASSUME Faithful PROVE CutIsNeutral
  <2> SUFFICES ASSUME plan # NoPlan, plan.weights # plan.asked PROVE CutIsNeutral
    BY DEF CutIsNeutral
  <2>1. plan.asked \in [Symbols -> Int] /\ plan.budget \in Nat
    BY <1>1, RebalanceAssumption DEF Faithful
  <2>2. plan.weights = Cut(plan.asked, plan.budget) BY <1>1 DEF Faithful, Sized
  <2> DEFINE w == plan.asked
             budget == plan.budget
             c == plan.weights
  <2> HIDE DEF w, budget, c
  <2>3. c = Cut(w, budget) /\ w \in [Symbols -> Int] /\ budget \in Nat
    BY <2>1, <2>2 DEF c, w, budget
  <2>4. /\ SumFunction(c) = 0
        /\ Leg(c, 1) \subseteq Leg(w, 1) /\ Leg(c, -1) \subseteq Leg(w, -1)
        /\ Cardinality(Leg(c, 1)) = Cardinality(Leg(c, -1))
        /\ Cardinality(Leg(c, 1) \cup Leg(c, -1)) <= max_positions_for_capital(budget)
    BY <2>3, CutFacts
  <2> QED BY <2>4 DEF CutIsNeutral, c, w, budget
<1>2. TypeOK /\ Faithful => CutIsNeutral BY <1>1
<1> QED BY <1>2, PlansAreFaithful, PTL

(* With all orders of a plan filled, the same targets make no more orders, *)
(* unless the repair went past neutral: the book comes to rest             *)
(* (build_rebalance_plan and its no-trade band).                           *)
THEOREM BooksComeToRest == Spec => []ComesToRest
<1>1. ASSUME Faithful PROVE ComesToRest
  <2> SUFFICES ASSUME plan # NoPlan, plan.book.net * plan.book.unrepaired >= 0
               PROVE  build_rebalance_plan(plan.weights, plan.sized, plan.priced, After).orders = {}
    BY DEF ComesToRest
  <2> DEFINE t == Targets(plan.weights, plan.sized, plan.priced, held)
             b == Repaired(held, t, plan.priced)
  <2>1. /\ held \in [Symbols -> Int] /\ t \in [Symbols -> Int]
        /\ plan.priced \in SUBSET Symbols
        /\ plan.book = Planned(held, t, plan.priced)
        /\ plan.book.back = b.back
        /\ b.back \in SUBSET Skipped(held, t, plan.priced)
        /\ After = Filled(held, t, plan.priced, b.back)
    BY <1>1, PlanNow
  <2> HIDE DEF b
  <2>2. Targets(plan.weights, plan.sized, plan.priced, After) = t
    <3> DEFINE back == b.back
               q == Filled(held, t, plan.priced, back)
    <3>1. back \in SUBSET Skipped(held, t, plan.priced) BY <2>1
    <3> HIDE DEF back
    <3>2. \A s \in Symbols \ plan.priced : q[s] = held[s]
      <4> HIDE DEF t
      <4> QED BY <2>1, <3>1, FilledFacts
    <3>3. After = q BY <2>1 DEF back
    <3> HIDE DEF q
    <3>4. \A s \in Symbols \ plan.priced : After[s] = held[s] BY <3>2, <3>3
    <3> QED BY <3>4 DEF Targets
  <2> HIDE DEF t
  <2>3. build_rebalance_plan(plan.weights, plan.sized, plan.priced, After) =
          Planned(After, t, plan.priced)
    BY <2>2 DEF build_rebalance_plan
  <2>4. Planned(held, t, plan.priced).net * Planned(held, t, plan.priced).unrepaired >= 0
    BY <2>1
  <2>5. Planned(Filled(held, t, plan.priced, Planned(held, t, plan.priced).back), t,
                plan.priced).orders = {}
    BY <2>1, <2>4, RestsAfterwards
  <2> QED BY <2>1, <2>3, <2>5
<1>2. TypeOK /\ Faithful => ComesToRest BY <1>1
<1> QED BY <1>2, PlansAreFaithful, PTL
=============================================================================
