---------------------------- MODULE ResearchProofs ----------------------------
(***************************************************************************)
(* The research pipeline: what training and test have in common, what a    *)
(* label says, where the live engine finds a record, and what the labels   *)
(* of one bar share.                                                       *)
(*                                                                         *)
(* ResearchInv is inductive.  It carries what the events, the labels, the  *)
(* folds and the records owe to each other from stage to stage: the events *)
(* rise, a label ends within its window, the folds are apart when every    *)
(* event is taken as long as a trade may last, and a record is of a test   *)
(* event of its fold and ends that early.  The functions the model         *)
(* computes are shown to exist, and to be what the properties say, by the  *)
(* least bar at which they would not be.  What the labels share is counted *)
(* twice, once by label and once by bar.                                   *)
(***************************************************************************)
EXTENDS Research, Foundations, TLAPS

LEMMA MinFacts ==
  ASSUME NEW a \in Int, NEW b \in Int, NEW S \in SUBSET (a..b), S # {}
  PROVE  Min(S) \in S /\ \A y \in S : Min(S) <= y
<1> DEFINE T == {y - a : y \in S}
<1>1. T \in SUBSET Nat /\ T # {}
  <2>1. \A y \in S : y - a \in Nat OBVIOUS
  <2>2. PICK y \in S : TRUE OBVIOUS
  <2>3. y - a \in T OBVIOUS
  <2>4. \A t \in T : t \in Nat BY <2>1
  <2> QED BY <2>3, <2>4
<1>2. PICK t \in T : \A u \in T : t <= u BY <1>1, LeastExists
<1>3. PICK x \in S : t = x - a BY <1>2
<1>4. \A y \in S : x <= y
  <2> TAKE y \in S
  <2>1. t <= y - a BY <1>2
  <2> QED BY <1>3, <2>1
<1>5. \E v \in S : \A y \in S : v <= y BY <1>4
<1> QED BY <1>5 DEF Min

LEMMA MaxFacts ==
  ASSUME NEW a \in Int, NEW b \in Int, NEW S \in SUBSET (a..b), S # {}
  PROVE  Max(S) \in S /\ \A y \in S : y <= Max(S)
<1> DEFINE T == {b - y : y \in S}
<1>1. T \in SUBSET Nat /\ T # {}
  <2>1. \A y \in S : b - y \in Nat OBVIOUS
  <2>2. PICK y \in S : TRUE OBVIOUS
  <2>3. b - y \in T OBVIOUS
  <2>4. \A t \in T : t \in Nat BY <2>1
  <2> QED BY <2>3, <2>4
<1>2. PICK t \in T : \A u \in T : t <= u BY <1>1, LeastExists
<1>3. PICK x \in S : t = b - x BY <1>2
<1>4. \A y \in S : x >= y
  <2> TAKE y \in S
  <2>1. t <= b - y BY <1>2
  <2> QED BY <1>3, <2>1
<1>5. \E v \in S : \A y \in S : v >= y BY <1>4
<1>6. Max(S) \in S /\ \A y \in S : Max(S) >= y BY <1>5 DEF Max
<1> QED BY <1>6
-----------------------------------------------------------------------------
(* The tables.                                                             *)

Untruncated(rs) == {r \in Range(rs) : ~r.truncated}
OfMode(rs, mode) == {r \in Range(rs) : r.mode = mode}
Mine(rs, mode) == {r \in Range(rs) : r.mode = mode /\ ~r.truncated}
InCell(rs, in, c) == {r \in Range(rs) : CellFor(in.pEdges, in.chop, r.p, r.chop) = c}
Returns(rs) == Column(rs, "ret")

(* What of a mode goes into the tables is what was not cut short.          *)
LEMMA MineOnce ==
  ASSUME NEW T, NEW rs \in Seq(T), NEW mode
  PROVE  LET clean == Only(rs, Untruncated(rs))
             mine  == Only(clean, OfMode(clean, mode))
         IN  mine = Only(rs, Mine(rs, mode)) /\ Only(mine, Untruncated(mine)) = mine
<1> DEFINE clean == Only(rs, Untruncated(rs))
           mine  == Only(clean, OfMode(clean, mode))
<1>1. SameFor(clean, OfMode(clean, mode), OfMode(rs, mode))
  <2>1. \A x \in Range(clean) : x \in Range(rs) BY OnlyIsPart
  <2> QED BY <2>1 DEF OfMode, SameFor
<1>2. mine = Only(rs, Untruncated(rs) \cap OfMode(rs, mode)) BY <1>1, OnlyWithin
<1>3. Untruncated(rs) \cap OfMode(rs, mode) = Mine(rs, mode)
  BY DEF Untruncated, OfMode, Mine
<1>4. mine = Only(rs, Mine(rs, mode)) BY <1>2, <1>3
<1> HIDE DEF mine
<1>5. \A x \in Range(mine) : x \in Mine(rs, mode) /\ x \in Range(rs) BY <1>4, OnlyIsPart
<1>6. SameFor(mine, Untruncated(mine), Mine(rs, mode))
  BY <1>5 DEF Untruncated, Mine, SameFor
<1>7. Only(mine, Untruncated(mine)) = Only(rs, Mine(rs, mode) \cap Mine(rs, mode))
  <2> DEFINE M == Mine(rs, mode)
             U == Untruncated(mine)
  <2>1. SameFor(Only(rs, M), U, M) BY <1>4, <1>6
  <2> HIDE DEF M, U
  <2>2. Only(Only(rs, M), U) = Only(rs, M \cap M) BY <2>1, OnlyWithin
  <2> QED BY <1>4, <2>2 DEF M, U
<1>8. Mine(rs, mode) \cap Mine(rs, mode) = Mine(rs, mode) OBVIOUS
<1> QED BY <1>4, <1>7, <1>8 DEF mine

(* The rows and then the cells of a row hold what the lookup finds there.  *)
LEMMA CellsAreFound ==
  ASSUME NEW T, NEW rs \in Seq(T), Only(rs, Untruncated(rs)) = rs, NEW i \in Bins, NEW j \in Bins
  PROVE  LET in == trade_records_to_kelly_table_inputs(rs)
         IN  in.cells[i][j] = Returns(Only(rs, InCell(rs, in, <<i, j>>)))
<1> DEFINE in == trade_records_to_kelly_table_inputs(rs)
<1>1. CASE rs = <<>>
  <2>1. in.cells = [a \in Bins |-> [b \in Bins |-> <<>>]]
    BY <1>1 DEF trade_records_to_kelly_table_inputs, Untruncated
  <2> HIDE DEF in
  <2>2. in.cells[i][j] = <<>> BY <2>1
  <2>3. Only(rs, InCell(rs, in, <<i, j>>)) = <<>> BY <1>1, OnlyEmpty
  <2>4. Returns(<<>>) = <<>> BY DEF Returns, Column
  <2> QED BY <2>2, <2>3, <2>4 DEF in
<1>2. CASE rs # <<>>
  <2> DEFINE Row(a) == Only(rs, {r \in Range(rs) : CellOf(in.pEdges, r.p) = a})
             Cell(a, b) == Only(Row(a), {r \in Range(Row(a)) : CellOf(in.chop[a], r.chop) = b})
  <2>1. in.cells = [a \in Bins |-> [b \in Bins |-> Returns(Cell(a, b))]]
    BY <1>2 DEF trade_records_to_kelly_table_inputs, Untruncated, Returns
  <2> HIDE DEF in
  <2>2. in.cells[i][j] = Returns(Cell(i, j)) BY <2>1
  <2> DEFINE A == {r \in Range(rs) : CellOf(in.pEdges, r.p) = i}
             C == {r \in Range(rs) : CellOf(in.chop[i], r.chop) = j}
             row == Only(rs, A)
             B == {r \in Range(row) : CellOf(in.chop[i], r.chop) = j}
  <2>3. Cell(i, j) = Only(row, B) OBVIOUS
  <2>4. \A x \in Range(row) : x \in Range(rs) BY OnlyIsPart
  <2>5. SameFor(row, B, C) BY <2>4 DEF SameFor
  <2> HIDE DEF B
  <2>6. Only(row, B) = Only(rs, A \cap C) BY <2>5, OnlyWithin
  <2>7. A \cap C = InCell(rs, in, <<i, j>>)
    <3>1. \A r : CellFor(in.pEdges, in.chop, r.p, r.chop) = <<i, j>>
                  <=> CellOf(in.pEdges, r.p) = i /\ CellOf(in.chop[i], r.chop) = j
      BY DEF CellFor
    <3> QED BY <3>1 DEF InCell
  <2> QED BY <2>2, <2>3, <2>6, <2>7 DEF in
<1> QED BY <1>1, <1>2
-----------------------------------------------------------------------------
(* Events.                                                                 *)

NewScan == [plus |-> 0, minus |-> 0, last |-> -1, events |-> <<>>]
Scans(f, bs, th, m) ==
  f = [i \in 0..m |-> IF i = 0 THEN NewScan ELSE CusumStep(bs, th, f[i - 1], i)]

LEMMA ScansAt ==
  ASSUME NEW f, NEW bs, NEW th, NEW m \in Nat, Scans(f, bs, th, m)
  PROVE  /\ f[0] = NewScan
         /\ \A k \in 1..m : f[k] = CusumStep(bs, th, f[k - 1], k)
<1>1. \A k \in 0..m : f[k] = IF k = 0 THEN NewScan ELSE CusumStep(bs, th, f[k - 1], k)
  BY Zenon DEF Scans
<1>2. 0 \in 0..m /\ \A k \in 1..m : k \in 0..m /\ k # 0 OBVIOUS
<1> QED BY <1>1, <1>2, Zenon

LEMMA ScansExists ==
  ASSUME NEW bs, NEW th, NEW m \in Nat
  PROVE  \E f : Scans(f, bs, th, m)
<1> DEFINE Bad == {n \in Nat : ~ \E f : Scans(f, bs, th, n)}
<1>1. SUFFICES ASSUME Bad # {} PROVE FALSE OBVIOUS
<1>2. PICK n \in Bad : \A k \in Bad : n <= k BY <1>1, LeastExists
<1>3. CASE n = 0
  <2>1. Scans([k \in 0..0 |-> NewScan], bs, th, 0) BY DEF Scans
  <2> QED BY <1>2, <1>3, <2>1
<1>4. CASE n # 0
  <2>1. n - 1 \in Nat /\ n - 1 \notin Bad BY <1>2, <1>4
  <2>2. PICK f : Scans(f, bs, th, n - 1) BY <2>1
  <2> DEFINE last == CusumStep(bs, th, f[n - 1], n)
             h == [k \in 0..n |-> IF k = n THEN last ELSE f[k]]
  <2>a. f[0] = NewScan /\ \A k \in 1..(n - 1) : f[k] = CusumStep(bs, th, f[k - 1], k)
    BY <2>1, <2>2, ScansAt
  <2>3. \A k \in 0..n : h[k] = IF k = 0 THEN NewScan ELSE CusumStep(bs, th, h[k - 1], k)
    <3> TAKE k \in 0..n
    <3>1. CASE k = n
      <4>1. n - 1 \in 0..n /\ n \in 0..n /\ n - 1 # n BY <1>4
      <4>2. h[n] = last /\ h[n - 1] = f[n - 1] BY <4>1
      <4> HIDE DEF h
      <4> QED BY <1>4, <3>1, <4>2
    <3>2. CASE k # n
      <4>1. k \in 0..(n - 1) /\ h[k] = f[k] BY <3>2
      <4>2. k # 0 => h[k - 1] = f[k - 1] /\ k \in 1..(n - 1) BY <3>2
      <4> HIDE DEF h, last
      <4> QED BY <2>a, <4>1, <4>2
    <3> QED BY <3>1, <3>2
  <2>4. h = [k \in 0..n |-> h[k]] OBVIOUS
  <2> HIDE DEF h, last
  <2>5. h = [k \in 0..n |-> IF k = 0 THEN NewScan ELSE CusumStep(bs, th, h[k - 1], k)]
    BY <2>3, <2>4
  <2>6. Scans(h, bs, th, n) BY <2>5 DEF Scans
  <2> QED BY <1>2, <2>6
<1> QED BY <1>3, <1>4

(* Events come in order, and none is later than the bar that found it.     *)
UpTo(s, i) == s \in Seq(0..i) /\ Rising(s)

LEMMA ScanStep ==
  ASSUME NEW bs, NEW th, NEW i \in Nat \ {0}, NEW b, UpTo(b.events, i - 1)
  PROVE  UpTo(CusumStep(bs, th, b, i).events, i)
<1> DEFINE e == b.events
           after == CusumStep(bs, th, b, i).events
<1>1. after = Append(e, i) \/ after = e BY DEF CusumStep
<1>2. e \in Seq(0..(i - 1)) /\ Rising(e) BY DEF UpTo
<1> HIDE DEF e, after
<1>3. e \in Seq(0..i) /\ e \in Seq(Int) /\ Append(e, i) \in Seq(0..i) BY <1>2
<1>4. \A k \in 1..Len(e) : e[k] < i BY <1>2
<1>5. Rising(Append(e, i)) BY <1>2, <1>3, <1>4, RisingAppend
<1> QED BY <1>1, <1>2, <1>3, <1>5 DEF UpTo, after

LEMMA ScanInOrder ==
  ASSUME NEW f, NEW bs, NEW th, NEW m \in Nat, Scans(f, bs, th, m)
  PROVE  UpTo(f[m].events, m)
<1> DEFINE Bad == {n \in Nat : n <= m /\ ~UpTo(f[n].events, n)}
<1>1. SUFFICES ASSUME Bad # {} PROVE FALSE OBVIOUS
<1>2. PICK n \in Bad : \A k \in Bad : n <= k BY <1>1, LeastExists
<1>3. f[0] = NewScan /\ \A k \in 1..m : f[k] = CusumStep(bs, th, f[k - 1], k) BY ScansAt
<1>4. CASE n = 0
  <2>1. f[n].events = <<>> BY <1>3, <1>4 DEF NewScan
  <2>2. <<>> \in Seq(0..n) /\ Len(<<>>) = 0 OBVIOUS
  <2>3. UpTo(<<>>, n) BY <2>2 DEF UpTo, Rising
  <2> QED BY <1>2, <2>1, <2>3
<1>5. CASE n # 0
  <2>1. n - 1 \in Nat /\ n - 1 \notin Bad /\ n - 1 <= m /\ n \in 1..m BY <1>2, <1>5
  <2>2. UpTo(f[n - 1].events, n - 1) BY <2>1
  <2>3. UpTo(CusumStep(bs, th, f[n - 1], n).events, n) BY <1>5, <2>2, ScanStep
  <2> QED BY <1>2, <1>3, <2>1, <2>3
<1> QED BY <1>4, <1>5

LEMMA CusumInOrder ==
  ASSUME NEW bs \in Series
  PROVE  UpTo(filter_cusum_events_dynamic(bs), LastBar(bs))
<1> DEFINE m  == LastBar(bs)
           th == compute_dynamic_cusum_thresholds(bs)
<1>1. m \in Nat /\ DOMAIN bs = 0..m BY ResearchAssumption DEF ResearchAssumption
<1>2. filter_cusum_events_dynamic(bs) = (CHOOSE f : Scans(f, bs, th, m))[m].events
  BY <1>1 DEF filter_cusum_events_dynamic, Scans, NewScan
<1> HIDE DEF m, th
<1>3. \E f : Scans(f, bs, th, m) BY <1>1, ScansExists
<1>4. Scans(CHOOSE f : Scans(f, bs, th, m), bs, th, m) BY <1>3
<1> QED BY <1>1, <1>2, <1>4, ScanInOrder DEF m

(* Division by a positive number, and products of numbers in order.        *)
LEMMA DivFacts ==
  ASSUME NEW a \in Int, NEW n \in Nat \ {0}
  PROVE  a \div n \in Int /\ n * (a \div n) <= a /\ a < n * (a \div n) + n
OBVIOUS

LEMMA TimesGrows ==
  ASSUME NEW x \in Int, NEW y \in Int, NEW n \in Nat, x <= y
  PROVE  n * x <= n * y /\ n * x \in Int /\ n * y \in Int
OBVIOUS

LEMMA TimesGrowsBy ==
  ASSUME NEW x \in Int, NEW y \in Int, NEW n \in Nat \ {0}, x < y
  PROVE  n * x + n <= n * y
<1>1. x + 1 <= y OBVIOUS
<1>2. n * (x + 1) <= n * y BY <1>1, TimesGrows
<1>3. n * (x + 1) = n * x + n OBVIOUS
<1> QED BY <1>2, <1>3

LEMMA GridInOrder ==
  ASSUME NEW from \in Nat, NEW to \in Int, NEW step \in Nat \ {0}, NEW last \in Nat, to <= last
  PROVE  UpTo(Grid(from, to, step), last)
<1> DEFINE q == (-(to - from)) \div step
           m == Larger(0, -q)
           g == Grid(from, to, step)
<1>1. -(to - from) \in Int OBVIOUS
<1>2. q \in Int /\ step * q <= -(to - from) /\ -(to - from) < step * q + step
  BY <1>1, DivFacts
<1>3. g = [k \in 1..m |-> from + (k - 1) * step] BY DEF Grid, CeilDiv
<1> HIDE DEF q, g
<1>4. m \in Nat /\ \A k \in 1..m : k <= -q BY <1>2 DEF Larger
<1> HIDE DEF m
<1>5. \A k \in 1..m : (k - 1) * step \in Nat /\ from + (k - 1) * step < to
  <2> TAKE k \in 1..m
  <2>1. k - 1 \in Nat /\ k - 1 <= (-q) - 1 /\ (-q) - 1 \in Int BY <1>2, <1>4
  <2>2. step * (k - 1) <= step * ((-q) - 1) BY <2>1, TimesGrows
  <2>3. step * ((-q) - 1) = -(step * q) - step BY <1>2
  <2>4. (k - 1) * step = step * (k - 1) /\ (k - 1) * step \in Nat BY <2>1
  <2> DEFINE sq == step * q
             sk == step * (k - 1)
  <2>5. sq \in Int /\ sk \in Int BY <1>2, <2>1
  <2>6. sk <= -sq - step /\ -(to - from) < sq + step BY <1>2, <2>2, <2>3
  <2>7. (k - 1) * step = sk BY <2>4
  <2> HIDE DEF sq, sk
  <2> QED BY <2>4, <2>5, <2>6, <2>7
<1>6. \A k \in 1..m : g[k] \in 0..last BY <1>3, <1>5
<1>7. g \in Seq(0..last) /\ Len(g) = m
  <2>1. g \in [1..m -> 0..last] BY <1>3, <1>6
  <2> QED BY <1>4, <2>1
<1>8. \A i, j \in 1..m : i < j => g[i] < g[j]
  <2> SUFFICES ASSUME NEW i \in 1..m, NEW j \in 1..m, i < j PROVE g[i] < g[j] OBVIOUS
  <2>1. i - 1 \in Int /\ j - 1 \in Int /\ i - 1 < j - 1 BY <1>4
  <2>2. step * (i - 1) + step <= step * (j - 1) BY <2>1, TimesGrowsBy
  <2>3. g[i] = from + (i - 1) * step /\ g[j] = from + (j - 1) * step BY <1>3
  <2>4. (i - 1) * step = step * (i - 1) /\ (j - 1) * step = step * (j - 1) BY <2>1
  <2>5. step * (i - 1) \in Int /\ step * (j - 1) \in Int BY <2>1
  <2> QED BY <2>2, <2>3, <2>4, <2>5
<1> QED BY <1>7, <1>8 DEF UpTo, Rising, g

LEMMA ValidStart ==
  ASSUME NEW bs \in Series
  PROVE  valid_start(bs) \in 0..LastBar(bs)
<1> DEFINE ready == {t \in DOMAIN bs : ~bs[t].short}
           last  == LastBar(bs)
<1>1. last \in Nat /\ DOMAIN bs = 0..last
  BY ResearchAssumption DEF ResearchAssumption
<1>2. ready \in SUBSET (0..last) BY <1>1
<1>3. valid_start(bs) = IF ready = {} THEN 0 ELSE Min(ready) BY DEF valid_start
<1> HIDE DEF ready, last
<1>4. ASSUME ready # {} PROVE Min(ready) \in 0..last
  <2>1. 0 \in Int /\ last \in Int BY <1>1
  <2>2. Min(ready) \in ready BY <1>2, <1>4, <2>1, MinFacts
  <2> QED BY <1>2, <2>2
<1>5. 0 \in 0..last BY <1>1
<1>6. valid_start(bs) \in 0..last BY <1>3, <1>4, <1>5
<1> QED BY <1>6 DEF last

LEMMA EventsCases ==
  ASSUME NEW bs, NEW fewest, NEW parts
  PROVE  LET start == valid_start(bs)
             found == Only(filter_cusum_events_dynamic(bs), start..LastBar(bs))
             n     == LastBar(bs) + 1
         IN  \/ EventsOrGrid(bs, fewest, parts) = found
             \/ EventsOrGrid(bs, fewest, parts)
                  = Grid(start, n - 5, Larger(1, (n - start) \div parts))
BY DEF EventsOrGrid

LEMMA EventsInOrder ==
  ASSUME NEW bs \in Series, NEW fewest, NEW parts \in Nat \ {0}
  PROVE  UpTo(EventsOrGrid(bs, fewest, parts), LastBar(bs))
<1> DEFINE last  == LastBar(bs)
           start == valid_start(bs)
           all   == filter_cusum_events_dynamic(bs)
           step  == Larger(1, ((last + 1) - start) \div parts)
<1>1. last \in Nat BY ResearchAssumption DEF ResearchAssumption
<1>2. start \in 0..last BY ValidStart
<1>3. all \in Seq(0..last) /\ Rising(all) BY CusumInOrder DEF UpTo
<1>4. \/ EventsOrGrid(bs, fewest, parts) = Only(all, start..last)
      \/ EventsOrGrid(bs, fewest, parts) = Grid(start, (last + 1) - 5, step)
  BY EventsCases
<1> HIDE DEF last, start, all
<1>5. ((last + 1) - start) \div parts \in Int
  <2>1. (last + 1) - start \in Int BY <1>1, <1>2
  <2> QED BY <2>1, DivFacts
<1>6. step \in Nat \ {0} BY <1>5 DEF Larger
<1> HIDE DEF step
<1>7. UpTo(Grid(start, (last + 1) - 5, step), last)
  <2>1. start \in Nat /\ (last + 1) - 5 \in Int /\ (last + 1) - 5 <= last BY <1>1, <1>2
  <2> QED BY <1>1, <1>6, <2>1, GridInOrder
<1>8. UpTo(Only(all, start..last), last)
  <2>1. all \in Seq(Int) BY <1>1, <1>3
  <2>2. Rising(Only(all, start..last)) BY <1>3, <2>1, OnlyKeepsRising
  <2>3. Only(all, start..last) \in Seq(0..last) BY <1>3, OnlyIsPart
  <2> QED BY <2>2, <2>3 DEF UpTo
<1> QED BY <1>4, <1>7, <1>8 DEF last
-----------------------------------------------------------------------------
(* Labels: the walk ends at the first bar that hits a barrier, or at the   *)
(* horizon.                                                                *)

WalkStepTo(bs, t0, side, price, end, t, later) ==
  LET hit == BarrierHit(bs[t], side, price)
  IN  CASE hit = "SL" -> Outcome(bs, t0, side, t, "SL", price.sl)
        [] hit = "TP" -> Outcome(bs, t0, side, t, "TP", price.tp)
        [] hit = "NONE" /\ t = end -> Outcome(bs, t0, side, t, "TIME", bs[t].cl)
        [] OTHER -> later

Walks(f, bs, t0, side, price, end) ==
  f = [t \in (t0 + 1)..end |-> WalkStepTo(bs, t0, side, price, end, t, f[t + 1])]

Hits(bs, side, price, t, end) == {u \in t..end : BarrierHit(bs[u], side, price) # "NONE"}

FirstOutcome(bs, t0, side, price, end, t) ==
  LET hits == Hits(bs, side, price, t, end)
      u    == Min(hits)
      hit  == BarrierHit(bs[u], side, price)
  IN  IF hits = {} THEN Outcome(bs, t0, side, end, "TIME", bs[end].cl)
      ELSE Outcome(bs, t0, side, u, hit, IF hit = "SL" THEN price.sl ELSE price.tp)

LEMMA HitValues == \A bar, side, price : BarrierHit(bar, side, price) \in {"SL", "TP", "NONE"}
BY DEF BarrierHit

(* The least and the greatest of a set, known by what they are.            *)
LEMMA MinIs ==
  ASSUME NEW S \in SUBSET Int, NEW x \in S, \A y \in S : x <= y
  PROVE  Min(S) = x
<1>1. Min(S) \in S /\ \A y \in S : Min(S) <= y BY DEF Min
<1>2. Min(S) \in Int /\ x \in Int /\ Min(S) <= x /\ x <= Min(S) BY <1>1
<1> QED BY <1>2

LEMMA MaxIs ==
  ASSUME NEW S \in SUBSET Int, NEW x \in S, \A y \in S : y <= x
  PROVE  Max(S) = x
<1>1. \A y \in S : x >= y OBVIOUS
<1>2. Max(S) \in S /\ \A y \in S : Max(S) >= y BY <1>1 DEF Max
<1>3. Max(S) \in Int /\ x \in Int /\ Max(S) >= x /\ Max(S) <= x BY <1>2
<1> QED BY <1>3

LEMMA FirstOutcomeStep ==
  ASSUME NEW bs, NEW t0 \in Int, NEW side, NEW price, NEW end \in Int, NEW t \in (t0 + 1)..end
  PROVE  FirstOutcome(bs, t0, side, price, end, t)
           = WalkStepTo(bs, t0, side, price, end, t, FirstOutcome(bs, t0, side, price, end, t + 1))
<1> DEFINE hit  == BarrierHit(bs[t], side, price)
           hits == Hits(bs, side, price, t, end)
<1>1. hit \in {"SL", "TP", "NONE"} BY HitValues
<1>2. CASE hit # "NONE"
  <2>1. t \in hits BY <1>2 DEF Hits
  <2>2. hits \in SUBSET Int /\ \A y \in hits : t <= y BY DEF Hits
  <2> HIDE DEF hits
  <2>3. Min(hits) = t BY <2>1, <2>2, MinIs
  <2>4. hits # {} BY <2>1
  <2>5. FirstOutcome(bs, t0, side, price, end, t)
          = Outcome(bs, t0, side, t, hit, IF hit = "SL" THEN price.sl ELSE price.tp)
    BY <2>3, <2>4 DEF FirstOutcome, hits
  <2>6. CASE hit = "SL" BY <2>5, <2>6 DEF WalkStepTo
  <2>7. CASE hit = "TP" BY <2>5, <2>7 DEF WalkStepTo
  <2> QED BY <1>1, <1>2, <2>6, <2>7
<1>3. CASE hit = "NONE" /\ t = end
  <2>1. hits = {}
    <3>1. \A u \in t..end : u = t BY <1>3
    <3> QED BY <1>3, <3>1 DEF Hits
  <2>2. FirstOutcome(bs, t0, side, price, end, t) = Outcome(bs, t0, side, t, "TIME", bs[t].cl)
    BY <1>3, <2>1 DEF FirstOutcome
  <2> QED BY <1>3, <2>2 DEF WalkStepTo
<1>4. CASE hit = "NONE" /\ t # end
  <2>1. hits = Hits(bs, side, price, t + 1, end)
    <3>1. \A u : u \in t..end <=> (u = t \/ u \in (t + 1)..end) OBVIOUS
    <3> QED BY <1>4, <3>1 DEF Hits
  <2>2. FirstOutcome(bs, t0, side, price, end, t) = FirstOutcome(bs, t0, side, price, end, t + 1)
    BY <2>1 DEF FirstOutcome
  <2> QED BY <1>4, <2>2 DEF WalkStepTo
<1> QED BY <1>2, <1>3, <1>4

LEMMA LastStep ==
  ASSUME NEW bs, NEW t0, NEW side, NEW price, NEW end, NEW x, NEW y
  PROVE  WalkStepTo(bs, t0, side, price, end, end, x) = WalkStepTo(bs, t0, side, price, end, end, y)
<1> DEFINE hit == BarrierHit(bs[end], side, price)
<1>1. hit \in {"SL", "TP", "NONE"} BY HitValues
<1>2. CASE hit = "SL" BY <1>2 DEF WalkStepTo
<1>3. CASE hit = "TP" BY <1>3 DEF WalkStepTo
<1>4. CASE hit = "NONE" BY <1>4 DEF WalkStepTo
<1> QED BY <1>1, <1>2, <1>3, <1>4

LEMMA WalkExists ==
  ASSUME NEW bs, NEW t0 \in Int, NEW side, NEW price, NEW end \in Int
  PROVE  \E f : Walks(f, bs, t0, side, price, end)
<1> DEFINE W == [t \in (t0 + 1)..end |-> FirstOutcome(bs, t0, side, price, end, t)]
<1>1. \A t \in (t0 + 1)..end : W[t] = WalkStepTo(bs, t0, side, price, end, t, W[t + 1])
  <2> TAKE t \in (t0 + 1)..end
  <2> DEFINE F == FirstOutcome(bs, t0, side, price, end, t + 1)
  <2>1. W[t] = WalkStepTo(bs, t0, side, price, end, t, F) BY FirstOutcomeStep
  <2>2. t # end => W[t + 1] = F OBVIOUS
  <2> HIDE DEF W, F
  <2>3. CASE t = end BY <2>1, <2>3, LastStep
  <2>4. CASE t # end BY <2>1, <2>2, <2>4
  <2> QED BY <2>3, <2>4
<1>2. W = [t \in (t0 + 1)..end |-> W[t]] OBVIOUS
<1> HIDE DEF W
<1>3. W = [t \in (t0 + 1)..end |-> WalkStepTo(bs, t0, side, price, end, t, W[t + 1])] BY <1>1, <1>2
<1> QED BY <1>3 DEF Walks

LEMMA WalkFindsFirst ==
  ASSUME NEW bs, NEW t0 \in Int, NEW side, NEW price, NEW end \in Int, t0 < end,
         NEW f, Walks(f, bs, t0, side, price, end)
  PROVE  f[t0 + 1] = FirstOutcome(bs, t0, side, price, end, t0 + 1)
<1> DEFINE Bad == {n \in Nat : \E t \in (t0 + 1)..end :
                     n = end - t /\ f[t] # FirstOutcome(bs, t0, side, price, end, t)}
<1>1. SUFFICES ASSUME Bad # {} PROVE FALSE
  <2>1. t0 + 1 \in (t0 + 1)..end /\ end - (t0 + 1) \in Nat OBVIOUS
  <2> QED BY <2>1
<1>2. PICK n \in Bad : \A k \in Bad : n <= k BY <1>1, LeastExists
<1>3. PICK t \in (t0 + 1)..end :
        n = end - t /\ f[t] # FirstOutcome(bs, t0, side, price, end, t) BY <1>2
<1>4. f[t] = WalkStepTo(bs, t0, side, price, end, t, f[t + 1]) BY Zenon DEF Walks
<1> DEFINE F == FirstOutcome(bs, t0, side, price, end, t + 1)
<1>5. FirstOutcome(bs, t0, side, price, end, t) = WalkStepTo(bs, t0, side, price, end, t, F)
  BY FirstOutcomeStep
<1>7. t # end => f[t + 1] = FirstOutcome(bs, t0, side, price, end, t + 1)
  <2> HAVE t # end
  <2>1. t + 1 \in (t0 + 1)..end /\ end - (t + 1) \in Nat /\ end - (t + 1) < n BY <1>3
  <2>2. end - (t + 1) \notin Bad BY <1>2, <2>1
  <2> QED BY <2>1, <2>2
<1> HIDE DEF F
<1>8. CASE t = end BY <1>3, <1>4, <1>5, <1>8, LastStep
<1>9. CASE t # end BY <1>3, <1>4, <1>5, <1>7, <1>9 DEF F
<1> QED BY <1>8, <1>9

(* A label, in closed form.                                                *)
LEMMA LabelIs ==
  ASSUME NEW bs, NEW t0 \in Int, NEW side, NEW end \in Int, t0 < end
  PROVE  apply_triple_barrier_single_event(bs, t0, side, end)
           = FirstOutcome(bs, t0, side, compute_dynamic_barriers(bs[t0], side), end, t0 + 1)
<1> DEFINE price == compute_dynamic_barriers(bs[t0], side)
           f == CHOOSE f : Walks(f, bs, t0, side, price, end)
<1>1. apply_triple_barrier_single_event(bs, t0, side, end) = f[t0 + 1]
  BY DEF apply_triple_barrier_single_event, Walks, WalkStepTo
<1> HIDE DEF price
<1>2. \E g : Walks(g, bs, t0, side, price, end) BY WalkExists
<1>3. Walks(f, bs, t0, side, price, end) BY <1>2
<1> HIDE DEF f
<1>4. f[t0 + 1] = FirstOutcome(bs, t0, side, price, end, t0 + 1) BY <1>3, WalkFindsFirst
<1> QED BY <1>1, <1>4 DEF price

(* What one label says, of the bars it may look at.                        *)
FirstTouch(bs, l, ahead) ==
  LET price  == compute_dynamic_barriers(bs[l.t0], l.side)
      stops  == {t \in ahead : HitsStop(bs[t], l.side, price.sl)}
      goals  == {t \in ahead : HitsTarget(bs[t], l.side, price.tp)}
      quiet  == stops \cup goals = {}
      gained == l.side * (bs[l.t1].cl - bs[l.t0].cl) > 0
  IN  /\ l.label = 1 <=> \/ goals # {} /\ \A s \in stops : Min(goals) < s
                         \/ quiet /\ gained
      /\ l.t1 = IF quiet THEN Max(ahead) ELSE Min(stops \cup goals)

LEMMA OutcomeFields ==
  ASSUME NEW bs, NEW t0, NEW side, NEW t1, NEW barrier, NEW exit
  PROVE  LET o == Outcome(bs, t0, side, t1, barrier, exit)
         IN  /\ o.t0 = t0 /\ o.t1 = t1 /\ o.side = side
             /\ o.label = 1 <=> (barrier = "TP" \/ (barrier = "TIME" /\ side * (exit - bs[t0].cl) > 0))
BY DEF Outcome

(* The label of an event with a future lies in it and is a first touch.    *)
LEMMA LabelLooksAhead ==
  ASSUME NEW bs, NEW t0 \in Int, NEW side, NEW end \in Int, t0 < end
  PROVE  LET l == apply_triple_barrier_single_event(bs, t0, side, end)
         IN  /\ l.t0 = t0 /\ l.t1 \in (t0 + 1)..end
             /\ FirstTouch(bs, l, (t0 + 1)..end)
<1> DEFINE price == compute_dynamic_barriers(bs[t0], side)
           ahead == (t0 + 1)..end
           l     == apply_triple_barrier_single_event(bs, t0, side, end)
           stops == {t \in ahead : HitsStop(bs[t], side, price.sl)}
           goals == {t \in ahead : HitsTarget(bs[t], side, price.tp)}
           hits  == Hits(bs, side, price, t0 + 1, end)
           u     == Min(hits)
           hit   == BarrierHit(bs[u], side, price)
<1>1. l = FirstOutcome(bs, t0, side, price, end, t0 + 1) BY LabelIs
<1>2. hits = stops \cup goals
  <2>1. \A t : BarrierHit(bs[t], side, price) # "NONE"
               <=> HitsStop(bs[t], side, price.sl) \/ HitsTarget(bs[t], side, price.tp)
    BY DEF BarrierHit
  <2> QED BY <2>1 DEF Hits
<1>3. hits \in SUBSET ahead /\ ahead \in SUBSET Int /\ end \in ahead /\ t0 + 1 \in Int BY DEF Hits
<1>4. CASE hits = {}
  <2>1. l = Outcome(bs, t0, side, end, "TIME", bs[end].cl) BY <1>1, <1>4 DEF FirstOutcome
  <2>2. Max(ahead) = end
    <3>1. \A y \in ahead : y <= end OBVIOUS
    <3> HIDE DEF ahead
    <3> QED BY <1>3, <3>1, MaxIs
  <2>3. /\ l.t0 = t0 /\ l.t1 = end /\ l.side = side
        /\ l.label = 1 <=> side * (bs[end].cl - bs[t0].cl) > 0
    BY <2>1, OutcomeFields
  <2>4. stops \cup goals = {} /\ goals = {} BY <1>2, <1>4
  <2> HIDE DEF hits, l
  <2>5. FirstTouch(bs, l, ahead) BY <2>2, <2>3, <2>4 DEF FirstTouch
  <2> HIDE DEF ahead
  <2> QED BY <1>3, <2>3, <2>5 DEF l, ahead
<1>5. CASE hits # {}
  <2>1. l = Outcome(bs, t0, side, u, hit, IF hit = "SL" THEN price.sl ELSE price.tp)
    BY <1>1, <1>5 DEF FirstOutcome
  <2>2. u \in hits /\ \A y \in hits : u <= y
    <3> HIDE DEF hits, u
    <3>1. hits \in SUBSET ((t0 + 1)..end) BY <1>3
    <3>2. Min(hits) \in hits /\ \A y \in hits : Min(hits) <= y BY <1>3, <1>5, <3>1, MinFacts
    <3> QED BY <3>2 DEF u
  <2> HIDE DEF u
  <2>3. u \in ahead /\ hit # "NONE" BY <2>2 DEF Hits
  <2>4. hit \in {"SL", "TP"} BY <2>3, HitValues
  <2>5. hit = "SL" <=> u \in stops BY <2>3 DEF BarrierHit
  <2> HIDE DEF hit
  <2>6. l.t0 = t0 /\ l.t1 = u /\ l.side = side /\ (l.label = 1 <=> hit = "TP")
    BY <2>1, <2>4, OutcomeFields
  <2>7. l.label = 1 <=> u \notin stops BY <2>4, <2>5, <2>6
  <2> HIDE DEF l, stops, goals, hits
  <2>8. goals \in SUBSET ((t0 + 1)..end) /\ stops \in SUBSET ahead BY DEF goals, stops
  <2>9. goals # {} => Min(goals) \in goals /\ \A y \in goals : Min(goals) <= y
    BY <1>3, <2>8, MinFacts
  <2>10. u \notin stops <=> goals # {} /\ \A s \in stops : Min(goals) < s
    <3>1. ASSUME u \notin stops PROVE goals # {} /\ \A s \in stops : Min(goals) < s
      <4>1. u \in goals BY <1>2, <2>2, <3>1
      <4>2. Min(goals) <= u BY <2>9, <4>1
      <4>3. \A s \in stops : u < s
        <5> TAKE s \in stops
        <5>1. u <= s /\ u # s /\ s \in Int /\ u \in Int BY <1>2, <1>3, <2>2, <2>3, <2>8, <3>1
        <5> QED BY <5>1
      <4>4. Min(goals) \in Int /\ u \in Int /\ \A s \in stops : s \in Int
        BY <1>3, <2>3, <2>8, <2>9, <4>1
      <4> QED BY <4>1, <4>2, <4>3, <4>4
    <3>2. ASSUME u \in stops, goals # {}, \A s \in stops : Min(goals) < s PROVE FALSE
      <4>1. Min(goals) \in hits BY <1>2, <2>9, <3>2
      <4>2. u <= Min(goals) /\ Min(goals) < u BY <2>2, <3>2, <4>1
      <4>3. u \in Int /\ Min(goals) \in Int BY <1>3, <2>3, <4>1
      <4> QED BY <4>2, <4>3
    <3> QED BY <3>1, <3>2
  <2>11. stops \cup goals # {} /\ Min(stops \cup goals) = u BY <1>2, <1>5 DEF u
  <2>12. FirstTouch(bs, l, ahead)
    BY <2>6, <2>7, <2>10, <2>11 DEF FirstTouch, stops, goals
  <2> QED BY <2>3, <2>6, <2>12 DEF l
<1> QED BY <1>4, <1>5

(* The labels of a series: in the order of the events, over bars of the    *)
(* series, none longer than the window; and first touches.                 *)
Longest == Larger(TWindow, 1)

LabelBounds(ls, last) ==
  /\ ls \in Seq(Range(ls))
  /\ \A i \in 1..Len(ls) : /\ ls[i].t0 \in 0..(last - 1)
                           /\ ls[i].t1 \in (ls[i].t0 + 1)..last
                           /\ ls[i].t1 <= ls[i].t0 + Longest
  /\ \A i, j \in 1..Len(ls) : i < j => ls[i].t0 < ls[j].t0

FirstTouches(bs, ls, last) ==
  \A i \in DOMAIN ls : FirstTouch(bs, ls[i], (ls[i].t0 + 1)..Smaller(ls[i].t0 + TWindow, last))

LEMMA ListIsSeq ==
  ASSUME NEW n \in Nat, NEW f, f = [i \in 1..n |-> f[i]]
  PROVE  f \in Seq(Range(f)) /\ Len(f) = n
<1>1. DOMAIN f = 1..n OBVIOUS
<1>2. \A i \in 1..n : f[i] \in Range(f) BY <1>1 DEF Range
<1>3. f \in [1..n -> Range(f)] BY <1>2
<1> QED BY <1>3

LEMMA OneLabel ==
  ASSUME NEW bs \in Series, NEW t0 \in 0..(LastBar(bs) - 1), NEW side
  PROVE  LET last == LastBar(bs)
             end  == Smaller(t0 + TWindow, last)
             l    == apply_triple_barrier_single_event(bs, t0, side, end)
         IN  /\ l.t0 = t0 /\ l.t1 \in (t0 + 1)..last /\ l.t1 <= t0 + Longest
             /\ TWindow >= 1 => FirstTouch(bs, l, (t0 + 1)..end)
<1> DEFINE last == LastBar(bs)
           end  == Smaller(t0 + TWindow, last)
           l    == apply_triple_barrier_single_event(bs, t0, side, end)
<1>1. last \in Nat BY ResearchAssumption DEF ResearchAssumption
<1>2. TWindow \in Nat BY LabellingAssumption DEF LabellingAssumption
<1>3. t0 \in Nat /\ t0 < last BY <1>1
<1>4. end \in Int /\ end <= last /\ end <= t0 + TWindow /\ t0 <= end
  BY <1>1, <1>2, <1>3 DEF Smaller
<1>5. TWindow >= 1 => t0 < end BY <1>1, <1>2, <1>3 DEF Smaller
<1> HIDE DEF end, last
<1>6. CASE t0 < end
  <2>1. l.t0 = t0 /\ l.t1 \in (t0 + 1)..end /\ FirstTouch(bs, l, (t0 + 1)..end)
    BY <1>3, <1>4, <1>6, LabelLooksAhead
  <2> HIDE DEF l
  <2>2. l.t1 <= t0 + Longest BY <1>2, <1>3, <1>4, <2>1 DEF Longest, Larger
  <2> QED BY <1>1, <1>3, <1>4, <2>1, <2>2 DEF end, last, l
<1>7. CASE end = t0
  <2>1. l = Outcome(bs, t0, side, t0 + 1, "TIME", bs[t0].cl)
    BY <1>7 DEF apply_triple_barrier_single_event
  <2>2. l.t0 = t0 /\ l.t1 = t0 + 1 BY <2>1, OutcomeFields
  <2> HIDE DEF l
  <2>3. l.t1 <= t0 + Longest BY <1>2, <1>3, <2>2 DEF Longest, Larger
  <2> QED BY <1>1, <1>3, <1>5, <1>7, <2>2, <2>3 DEF end, last, l
<1> QED BY <1>3, <1>4, <1>6, <1>7

LEMMA LabelsOfSeries ==
  ASSUME NEW bs \in Series, NEW es, NEW side, UpTo(es, LastBar(bs))
  PROVE  LET ls == generate_meta_labels_triple_barrier(bs, es, side)
         IN  /\ LabelBounds(ls, LastBar(bs))
             /\ TWindow >= 1 => FirstTouches(bs, ls, LastBar(bs))
<1> DEFINE last == LastBar(bs)
           open == Only(es, 0..(last - 1))
           ls   == generate_meta_labels_triple_barrier(bs, es, side)
           n    == Len(open)
<1>1. last \in Nat BY ResearchAssumption DEF ResearchAssumption
<1>2. es \in Seq(0..last) /\ Rising(es) BY DEF UpTo
<1> HIDE DEF last
<1>3. OnlyTakes(0..last, es, 0..(last - 1)) BY <1>2, OnlyMembers
<1>4. open \in Seq(0..last) /\ n \in Nat /\ DOMAIN open = 1..n BY <1>3 DEF OnlyTakes
<1>5. \A i \in 1..n : open[i] \in 0..(last - 1) BY <1>3 DEF OnlyTakes
<1>6. Rising(open)
  <2>1. es \in Seq(Int) BY <1>1, <1>2
  <2> QED BY <1>2, <2>1, OnlyKeepsRising
<1>7. ls = [i \in DOMAIN open |->
              apply_triple_barrier_single_event(bs, open[i], side[open[i]],
                                                Smaller(open[i] + TWindow, last))]
  BY DEF generate_meta_labels_triple_barrier, last
<1> HIDE DEF open, ls, n
<1>8. DOMAIN ls = 1..n /\ ls = [i \in 1..n |-> ls[i]] BY <1>4, <1>7
<1>9. ls \in Seq(Range(ls)) /\ Len(ls) = n BY <1>4, <1>8, ListIsSeq
<1>10. \A i \in 1..n : /\ ls[i].t0 = open[i] /\ ls[i].t1 \in (open[i] + 1)..last
                       /\ ls[i].t1 <= open[i] + Longest
                       /\ TWindow >= 1 =>
                            FirstTouch(bs, ls[i], (open[i] + 1)..Smaller(open[i] + TWindow, last))
  <2> TAKE i \in 1..n
  <2>1. ls[i] = apply_triple_barrier_single_event(bs, open[i], side[open[i]],
                                                  Smaller(open[i] + TWindow, last))
    BY <1>4, <1>7
  <2>2. open[i] \in 0..(LastBar(bs) - 1) BY <1>5 DEF last
  <2> QED BY <2>1, <2>2, OneLabel DEF last
<1>11. LabelBounds(ls, last)
  <2>1. \A i, j \in 1..n : i < j => ls[i].t0 < ls[j].t0
    BY <1>4, <1>6, <1>10 DEF Rising, n
  <2> QED BY <1>5, <1>9, <1>10, <2>1 DEF LabelBounds
<1>12. TWindow >= 1 => FirstTouches(bs, ls, last) BY <1>8, <1>10 DEF FirstTouches
<1> QED BY <1>11, <1>12 DEF last, ls
-----------------------------------------------------------------------------
(* Folds.                                                                  *)

(* A group is a block of the samples.                                      *)
LEMMA GroupIsBlock ==
  ASSUME NEW n \in Nat, NEW parts \in Nat \ {0}, NEW g \in 1..parts
  PROVE  Group(n, parts, g) \in SUBSET (1..n)
<1> DEFINE size == n \div parts
           rest == n % parts
           from == (g - 1) * size + Smaller(g - 1, rest)
           more == IF g <= rest THEN 1 ELSE 0
<1>1. Group(n, parts, g) = (from + 1)..(from + size + more) BY DEF Group
<1>2. size \in Nat /\ rest \in 0..(parts - 1) /\ n = parts * size + rest
  <2>1. size \in Int /\ parts * size <= n /\ n < parts * size + parts BY DivFacts
  <2>2. rest \in 0..(parts - 1) /\ n = parts * size + rest OBVIOUS
  <2>3. size \in Nat OBVIOUS
  <2> QED BY <2>2, <2>3
<1> HIDE DEF size, rest
<1>3. (g - 1) * size = size * (g - 1) /\ size * (g - 1) \in Nat
  <2>1. g - 1 \in Nat OBVIOUS
  <2> QED BY <1>2, <2>1
<1>4. size * (g - 1) + size <= parts * size
  <2>1. size * g <= size * parts BY <1>2, TimesGrows
  <2>2. size * g = size * (g - 1) + size /\ size * parts = parts * size BY <1>2
  <2> QED BY <2>1, <2>2
<1> DEFINE a == size * (g - 1)
           b == parts * size
<1>5. a \in Nat /\ a + size <= b /\ n = b + rest /\ b \in Int BY <1>2, <1>3, <1>4
<1>6. from = a + Smaller(g - 1, rest) BY <1>3
<1> HIDE DEF a, b, from
<1>7. from \in Nat BY <1>2, <1>5, <1>6 DEF Smaller
<1>8. from + size + more <= n
  <2>1. CASE g <= rest BY <1>2, <1>5, <1>6, <2>1 DEF Smaller
  <2>2. CASE ~(g <= rest) BY <1>2, <1>5, <1>6, <2>2 DEF Smaller
  <2> QED BY <2>1, <2>2
<1> HIDE DEF more
<1>9. \A x \in (from + 1)..(from + size + more) : x \in 1..n
  <2>1. more \in Int BY DEF more
  <2> QED BY <1>2, <1>7, <1>8, <2>1
<1> QED BY <1>1, <1>9

(* A choice of test groups is a set of groups.                             *)
LEMMA ChoiceOfGroups ==
  ASSUME NEW groups \in Nat, NEW k, NEW f \in DOMAIN GroupChoices(groups, k)
  PROVE  GroupChoices(groups, k)[f] \in SUBSET (1..groups)
<1> DEFINE S == kSubset(k, 1..groups)
           G == CHOOSE h \in [1..Cardinality(S) -> S] : IsInjective(h)
<1>1. S \in SUBSET (SUBSET (1..groups)) BY DEF kSubset
<1>2. IsFiniteSet(S)
  <2>1. IsFiniteSet(1..groups) BY FS_Interval
  <2>2. IsFiniteSet(SUBSET (1..groups)) BY <2>1, FS_SUBSET
  <2> QED BY <1>1, <2>2, FS_Subset
<1>3. GroupChoices(groups, k) = G BY DEF GroupChoices, SetToSeq
<1> HIDE DEF S
<1>4. \E h \in [1..Cardinality(S) -> S] : IsInjective(h)
  <2>1. ExistsBijection(1..Cardinality(S), S) BY <1>2, FS_CardinalityType
  <2>2. PICK h : h \in Bijection(1..Cardinality(S), S) BY <2>1 DEF ExistsBijection
  <2>3. h \in Injection(1..Cardinality(S), S) BY <2>2 DEF Bijection
  <2> QED BY <2>3 DEF Injection
<1>5. G \in [1..Cardinality(S) -> S] BY <1>4
<1> HIDE DEF G
<1>6. G[f] \in S BY <1>3, <1>5
<1> QED BY <1>1, <1>3, <1>6

LEMMA ClearOfBlock ==
  ASSUME NEW e0 \in Int, NEW e1 \in Int, NEW x0 \in Int, NEW x1 \in Int, NEW p0 \in Int,
         NEW q1 \in Int, NEW embargo \in Nat, p0 <= x0, x1 <= q1,
         e1 <= p0 \/ e0 >= q1, ~(q1 <= e0 /\ e0 < q1 + embargo)
  PROVE  e1 <= x0 \/ e0 >= x1 + embargo
OBVIOUS

(* No training sample of a fold overlaps one of its test samples, and none *)
(* opens within the embargo of one.                                        *)
FoldApart(f, t0, t1, embargo) ==
  \A e \in f.train, x \in f.test : t1[e] <= t0[x] \/ t0[e] >= t1[x] + embargo

Spans(t0, t1, n) ==
  /\ \A i \in 1..n : t0[i] \in Int /\ t1[i] \in Int
  /\ \A i, j \in 1..n : i <= j => t0[i] <= t0[j] /\ t1[i] <= t1[j]

LEMMA SplitKeepsApart ==
  ASSUME NEW t0, Len(t0) \in Nat, NEW t1, Spans(t0, t1, Len(t0)),
         NEW groups \in Nat \ {0}, NEW k, NEW embargo \in Nat,
         NEW f \in DOMAIN GroupChoices(groups, k)
  PROVE  LET fold == split(t0, t1, groups, k, embargo)[f]
         IN  /\ fold.train \in SUBSET (1..Len(t0)) /\ fold.test \in SUBSET (1..Len(t0))
             /\ FoldApart(fold, t0, t1, embargo)
<1> DEFINE n      == Len(t0)
           choice == GroupChoices(groups, k)[f]
           Test   == UNION {Group(n, groups, g) : g \in choice}
           Start(g) == t0[Min(Group(n, groups, g))]
           End(g)   == t1[Max(Group(n, groups, g))]
           Near(i, g) == \/ Overlaps(t0[i], t1[i], Start(g), End(g))
                         \/ End(g) <= t0[i] /\ t0[i] < End(g) + embargo
           fold   == split(t0, t1, groups, k, embargo)[f]
<1>1. fold = [test |-> Test, train |-> {i \in (1..n) \ Test : \A g \in choice : ~Near(i, g)}]
  BY DEF split
<1>2. choice \in SUBSET (1..groups) BY ChoiceOfGroups
<1>3. \A g \in choice : Group(n, groups, g) \in SUBSET (1..n) BY <1>2, GroupIsBlock
<1> HIDE DEF n, choice, fold
<1>4. Test \in SUBSET (1..n) BY <1>3
<1>5. fold.train \in SUBSET (1..n) /\ fold.test = Test BY <1>1
<1>6. \A e \in fold.train : \A g \in choice : ~Near(e, g) BY <1>1
<1>7. FoldApart(fold, t0, t1, embargo)
  <2> SUFFICES ASSUME NEW e \in fold.train, NEW x \in fold.test
               PROVE  t1[e] <= t0[x] \/ t0[e] >= t1[x] + embargo
    BY DEF FoldApart
  <2>1. PICK g \in choice : x \in Group(n, groups, g) BY <1>5
  <2> DEFINE block == Group(n, groups, g)
             p == Min(block)
             q == Max(block)
  <2>2. block \in SUBSET (1..n) /\ block # {} /\ x \in block /\ n \in Int
    BY <1>3, <2>1 DEF n
  <2>3. ~Near(e, g) BY <1>6
  <2>4. /\ t1[e] <= t0[p] \/ t0[e] >= t1[q]
        /\ ~(t1[q] <= t0[e] /\ t0[e] < t1[q] + embargo)
    BY <2>3 DEF Overlaps
  <2> HIDE DEF block
  <2>5. p \in block /\ q \in block /\ p <= x /\ x <= q
    <3>1. 1 \in Int /\ n \in Int /\ block \in SUBSET (1..n) /\ block # {} BY <2>2
    <3>2. Min(block) \in block /\ \A y \in block : Min(block) <= y BY <3>1, MinFacts
    <3>3. Max(block) \in block /\ \A y \in block : y <= Max(block) BY <3>1, MaxFacts
    <3> QED BY <2>2, <3>2, <3>3
  <2> HIDE DEF p, q
  <2>6. e \in 1..n /\ x \in 1..n /\ p \in 1..n /\ q \in 1..n BY <1>5, <2>2, <2>5
  <2>7. t0[p] <= t0[x] /\ t1[x] <= t1[q] BY <2>5, <2>6 DEF Spans, n
  <2>8. /\ t0[p] \in Int /\ t0[x] \in Int /\ t0[e] \in Int
        /\ t1[q] \in Int /\ t1[x] \in Int /\ t1[e] \in Int
    BY <2>6 DEF Spans, n
  <2> QED BY <2>4, <2>7, <2>8, ClearOfBlock
<1> QED BY <1>4, <1>5, <1>7 DEF fold, n

(* Likewise the folds of the calibration.                                  *)
LEMMA PurgedSplitKeepsApart ==
  ASSUME NEW t0, Len(t0) \in Nat, NEW t1, NEW last \in Int,
         \A i \in 1..Len(t0) : t0[i] \in Int /\ t1[i] \in 0..last,
         \A i, j \in 1..Len(t0) : i <= j => t0[i] <= t0[j],
         NEW splits \in Nat \ {0}, NEW step \in Nat, NEW g \in 1..splits
  PROVE  LET fold == purged_split(t0, t1, splits, step)[g]
         IN  /\ fold.train \in SUBSET (1..Len(t0)) /\ fold.test \in SUBSET (1..Len(t0))
             /\ FoldApart(fold, t0, t1, step)
<1> DEFINE n    == Len(t0)
           test == Group(n, splits, g)
           ends == {t1[i] : i \in test}
           end  == Max(ends)
           p    == Min(test)
           q    == Max(test)
           fold == purged_split(t0, t1, splits, step)[g]
<1>1. fold = [test |-> test, train |-> {i \in 1..n : \/ i < p /\ t1[i] <= t0[p]
                                                     \/ i > q /\ t0[i] > end + step}]
  BY DEF purged_split
<1>2. test \in SUBSET (1..n) BY GroupIsBlock
<1> HIDE DEF n, test, fold
<1>3. ASSUME NEW e \in fold.train, NEW x \in fold.test
      PROVE  t1[e] <= t0[x] \/ t0[e] >= t1[x] + step
  <2>1. x \in test /\ test # {} /\ n \in Int /\ e \in 1..n /\ x \in 1..n BY <1>1, <1>2, <1>3 DEF n
  <2>2. t1[e] <= t0[p] \/ t0[e] > end + step BY <1>1, <1>3
  <2>3. p \in test /\ p <= x
    <3>1. 1 \in Int /\ n \in Int /\ test \in SUBSET (1..n) /\ test # {} BY <1>2, <2>1
    <3>2. Min(test) \in test /\ \A y \in test : Min(test) <= y BY <3>1, MinFacts
    <3> QED BY <2>1, <3>2
  <2>4. t0[p] <= t0[x] BY <1>2, <2>1, <2>3 DEF n
  <2>5. ends \in SUBSET (0..last)
    <3>1. \A i \in test : t1[i] \in 0..last BY <1>2 DEF n
    <3> QED BY <3>1
  <2>6. t1[x] \in ends BY <2>1
  <2> HIDE DEF ends
  <2>7. end \in ends /\ t1[x] <= end
    <3>1. ends # {} /\ 0 \in Int /\ last \in Int BY <2>6
    <3> QED BY <2>5, <2>6, <3>1, MaxFacts
  <2> HIDE DEF end, p, q
  <2>a. \A y \in ends : y \in Int BY <2>5
  <2>8. end \in Int /\ t1[x] \in Int BY <2>6, <2>7, <2>a
  <2>9. t0[e] \in Int /\ t1[e] \in Int /\ t0[p] \in Int /\ t0[x] \in Int
    BY <1>2, <2>1, <2>3 DEF n
  <2>b. t1[e] <= t0[p] => t1[e] <= t0[x] BY <2>4, <2>9
  <2>c. t0[e] > end + step => t0[e] >= t1[x] + step BY <2>7, <2>8, <2>9
  <2> QED BY <2>2, <2>b, <2>c
<1>4. FoldApart(fold, t0, t1, step) BY <1>3 DEF FoldApart
<1>5. fold.train \in SUBSET (1..n) /\ fold.test \in SUBSET (1..n) BY <1>1, <1>2
<1> QED BY <1>4, <1>5 DEF fold, n
-----------------------------------------------------------------------------
(* Trades: none outlasts the longest holding time.                         *)

NewWalk == [reason |-> "NONE", exit |-> 0, best |-> Unit, flips |-> 0]
Trails(f, t, trade, m) ==
  f = [k \in 0..m |-> IF k = 0 THEN NewWalk ELSE WalkStep(t, trade, f[k - 1], k)]

LEMMA TrailsAt ==
  ASSUME NEW f, NEW t, NEW trade, NEW m \in Nat, Trails(f, t, trade, m)
  PROVE  /\ f[0] = NewWalk
         /\ \A k \in 1..m : f[k] = WalkStep(t, trade, f[k - 1], k)
<1>1. \A k \in 0..m : f[k] = IF k = 0 THEN NewWalk ELSE WalkStep(t, trade, f[k - 1], k)
  BY Zenon DEF Trails
<1>2. 0 \in 0..m /\ \A k \in 1..m : k \in 0..m /\ k # 0 OBVIOUS
<1> QED BY <1>1, <1>2, Zenon

LEMMA TrailsExists ==
  ASSUME NEW t, NEW trade, NEW m \in Nat
  PROVE  \E f : Trails(f, t, trade, m)
<1> DEFINE Bad == {n \in Nat : ~ \E f : Trails(f, t, trade, n)}
<1>1. SUFFICES ASSUME Bad # {} PROVE FALSE OBVIOUS
<1>2. PICK n \in Bad : \A k \in Bad : n <= k BY <1>1, LeastExists
<1>3. CASE n = 0
  <2>1. Trails([k \in 0..0 |-> NewWalk], t, trade, 0) BY DEF Trails
  <2> QED BY <1>2, <1>3, <2>1
<1>4. CASE n # 0
  <2>1. n - 1 \in Nat /\ n - 1 \notin Bad BY <1>2, <1>4
  <2>2. PICK f : Trails(f, t, trade, n - 1) BY <2>1
  <2> DEFINE last == WalkStep(t, trade, f[n - 1], n)
             h == [k \in 0..n |-> IF k = n THEN last ELSE f[k]]
  <2>3. f[0] = NewWalk /\ \A k \in 1..(n - 1) : f[k] = WalkStep(t, trade, f[k - 1], k)
    BY <2>1, <2>2, TrailsAt
  <2>4. \A k \in 0..n : h[k] = IF k = 0 THEN NewWalk ELSE WalkStep(t, trade, h[k - 1], k)
    <3> TAKE k \in 0..n
    <3>1. CASE k = n
      <4>1. n - 1 \in 0..n /\ n \in 0..n /\ n - 1 # n BY <1>4
      <4>2. h[n] = last /\ h[n - 1] = f[n - 1] BY <4>1
      <4> HIDE DEF h
      <4> QED BY <1>4, <3>1, <4>2
    <3>2. CASE k # n
      <4>1. k \in 0..(n - 1) /\ h[k] = f[k] BY <3>2
      <4>2. k # 0 => h[k - 1] = f[k - 1] /\ k \in 1..(n - 1) BY <3>2
      <4> HIDE DEF h, last
      <4> QED BY <2>3, <4>1, <4>2
    <3> QED BY <3>1, <3>2
  <2>5. h = [k \in 0..n |-> h[k]] OBVIOUS
  <2> HIDE DEF h, last
  <2>6. h = [k \in 0..n |-> IF k = 0 THEN NewWalk ELSE WalkStep(t, trade, h[k - 1], k)]
    BY <2>4, <2>5
  <2>7. Trails(h, t, trade, n) BY <2>6 DEF Trails
  <2> QED BY <1>2, <2>7
<1> QED BY <1>3, <1>4

LEMMA TrailsExit ==
  ASSUME NEW f, NEW t, NEW trade, NEW m \in Nat, Trails(f, t, trade, m)
  PROVE  f[m].exit \in 0..m
<1> DEFINE Bad == {n \in Nat : n <= m /\ f[n].exit \notin 0..n}
<1>1. SUFFICES ASSUME Bad # {} PROVE FALSE OBVIOUS
<1>2. PICK n \in Bad : \A k \in Bad : n <= k BY <1>1, LeastExists
<1>3. f[0] = NewWalk /\ \A k \in 1..m : f[k] = WalkStep(t, trade, f[k - 1], k) BY TrailsAt
<1>4. CASE n = 0
  <2>1. f[n].exit = 0 BY <1>3, <1>4 DEF NewWalk
  <2> QED BY <1>2, <1>4, <2>1
<1>5. CASE n # 0
  <2>1. n - 1 \in Nat /\ n - 1 \notin Bad /\ n - 1 <= m /\ n \in 1..m BY <1>2, <1>5
  <2>2. f[n - 1].exit \in 0..(n - 1) BY <2>1
  <2>3. WalkStep(t, trade, f[n - 1], n).exit \in {f[n - 1].exit, n} BY DEF WalkStep
  <2>4. f[n].exit = f[n - 1].exit \/ f[n].exit = n BY <1>3, <2>1, <2>3
  <2>5. f[n].exit \in 0..n BY <2>1, <2>2, <2>4
  <2> QED BY <1>2, <2>5
<1> QED BY <1>4, <1>5

LEMMA ExitWithinSlice ==
  ASSUME NEW t, NEW trade, NEW window, SliceLength(trade, window) \in Nat
  PROVE  run_trailing_exit_for_oos_event(t, trade, window).exit
           \in 0..Larger(SliceLength(trade, window), 1)
<1> DEFINE n == SliceLength(trade, window)
           f == CHOOSE f : Trails(f, t, trade, n)
           r == run_trailing_exit_for_oos_event(t, trade, window)
<1>1. r = IF f[n].reason # "NONE"
          THEN [reason |-> f[n].reason, exit |-> f[n].exit, truncated |-> FALSE]
          ELSE [reason |-> "TIME_STOP", exit |-> Larger(n, 1),
                truncated |-> TruncatedWindow(trade, window)]
  BY DEF run_trailing_exit_for_oos_event, Trails, NewWalk
<1>2. n \in Nat OBVIOUS
<1> HIDE DEF n, r
<1>3. \E g : Trails(g, t, trade, n) BY <1>2, TrailsExists
<1>4. Trails(f, t, trade, n) BY <1>3
<1> HIDE DEF f
<1>5. f[n].exit \in 0..n BY <1>2, <1>4, TrailsExit
<1>6. r.exit = f[n].exit \/ r.exit = Larger(n, 1) BY <1>1
<1>7. r.exit \in 0..Larger(n, 1) BY <1>2, <1>5, <1>6 DEF Larger
<1> QED BY <1>7 DEF n, r

LEMMA TermsOfTrade ==
  ASSUME NEW p, NEW chop, NEW entry, NEW primary, NEW cushion,
         NEW tmax, NEW margin
  PROVE  LET r == resolve_trade_execution_params(p, chop, entry, primary, cushion, tmax, margin)
         IN  /\ r.result \in {"none", "raise", "trade"}
             /\ r.result = "trade" => r.mode \in {"follow", "fade"} /\ r.tmax = tmax[r.mode]
<1> DEFINE mode == classify_trade_mode(p, chop)
           r == resolve_trade_execution_params(p, chop, entry, primary, cushion, tmax, margin)
<1>1. mode \in {"follow", "fade", "none"} BY DEF classify_trade_mode
<1>2. \/ r = [result |-> "none"] \/ r = [result |-> "raise"]
      \/ /\ mode # "none" /\ r.result = "trade" /\ r.mode = mode /\ r.tmax = tmax[mode]
  BY <1>1 DEF resolve_trade_execution_params
<1> HIDE DEF r, mode
<1>3. CASE r = [result |-> "none"] BY <1>3 DEF r
<1>4. CASE r = [result |-> "raise"] BY <1>4 DEF r
<1>5. CASE mode # "none" /\ r.result = "trade" /\ r.mode = mode /\ r.tmax = tmax[mode]
  BY <1>1, <1>5 DEF r
<1> QED BY <1>2, <1>3, <1>4, <1>5

LEMMA TradeEndsInTime ==
  ASSUME bars \in Series, NEW f, NEW t \in 0..LastOf, TermsAt(t).result = "trade",
         NEW m \in Int, Max({PurgeEnd(events[e]) : e \in folds[f].test}) = m
  PROVE  /\ TradeAt(f, t).fold = f /\ TradeAt(f, t).t0 = t
         /\ TradeAt(f, t).exit \in 0..PurgeEnd(t)
<1> DEFINE terms  == TermsAt(t)
           trained == SetToSeq(folds[f].train)
           trainP  == [i \in DOMAIN trained |-> bars[events[trained[i]]].p]
           window == Max({PurgeEnd(events[e]) : e \in folds[f].test}) - t
           trade  == ForFold(terms, LastOf + 1 - t, trainP)
           r      == run_trailing_exit_for_oos_event(t, trade, window)
<1>1. LastOf \in Nat BY ResearchAssumption DEF ResearchAssumption, LastOf
<1>2. terms.mode \in {"follow", "fade"} /\ terms.tmax = TMax[terms.mode]
  BY TermsOfTrade DEF TermsAt
<1>3. TMax["follow"] \in Nat \ {0} /\ TMax["fade"] \in Nat \ {0}
  BY ResearchAssumption DEF ResearchAssumption
<1>4. purge_horizon \in Nat \ {0} /\ terms.tmax \in Nat \ {0} /\ terms.tmax <= purge_horizon
  BY <1>2, <1>3 DEF purge_horizon, Larger
<1>a. window \in Int OBVIOUS
<1>8. /\ TradeAt(f, t).fold = f /\ TradeAt(f, t).t0 = t
      /\ TradeAt(f, t).exit = Smaller(t + r.exit, LastOf)
  BY DEF TradeAt
<1> HIDE DEF window, terms
<1>5. trade.tmax = terms.tmax /\ trade.len = LastOf + 1 - t BY DEF ForFold, terms
<1> HIDE DEF trade
<1>6. SliceLength(trade, window) \in Nat /\ SliceLength(trade, window) <= terms.tmax
  BY <1>1, <1>4, <1>5, <1>a DEF SliceLength, Larger, Smaller
<1>7. r.exit \in 0..terms.tmax
  <2>1. r.exit \in 0..Larger(SliceLength(trade, window), 1) BY <1>6, ExitWithinSlice
  <2> HIDE DEF r
  <2> QED BY <1>4, <1>6, <2>1 DEF Larger
<1> HIDE DEF r
<1>9. Smaller(t + r.exit, LastOf) \in 0..PurgeEnd(t)
  BY <1>1, <1>4, <1>7 DEF PurgeEnd, Clip, Smaller, Larger
<1> QED BY <1>8, <1>9
-----------------------------------------------------------------------------
(* The pipeline.  What a stage has, and has not yet.                       *)
Phases ==
  \/ /\ part = "research" /\ records = <<>>
     /\ stage \in {"bars", "events", "labels", "weights", "fitted", "raised"}
     /\ stage # "fitted" => folds = <<>>
  \/ /\ part = "cpcv" /\ records = <<>> /\ folds = <<>>
     /\ stage \in {"bars", "events", "labels", "weights"}
  \/ /\ part = "cpcv"
     /\ stage \in {"raised", "fold", "simulate", "simulated", "tables"}
     /\ stage = "simulate" => at \in DOMAIN folds

(* The events are in order, the labels within their windows.               *)
SeriesOk ==
  /\ bars \in Series
  /\ UpTo(events, LastOf)
  /\ LabelBounds(labels, LastOf)

(* A calibration fold keeps its labels apart, a fold of the                *)
(* cross-validation its events, each taken as long as a trade may last.    *)
CalibrationApart ==
  part = "research" => \A f \in DOMAIN folds : \A i \in folds[f].train, j \in folds[f].test :
    Apart(labels[i], labels[j].t0, labels[j].t1)

FoldsApart ==
  part = "cpcv" => \A f \in DOMAIN folds :
    /\ folds[f].train \in SUBSET (1..Len(events)) /\ folds[f].test \in SUBSET (1..Len(events))
    /\ \A e \in folds[f].train, x \in folds[f].test :
         \/ PurgeEnd(events[e]) <= events[x]
         \/ events[e] >= PurgeEnd(events[x]) + Embargo

(* A record is of a test event of its fold, and ends in time.              *)
RecordOk(r) ==
  /\ r.fold \in DOMAIN folds
  /\ \E x \in folds[r.fold].test : r.t0 = events[x]
  /\ r.t0 \in 0..LastOf /\ r.exit \in 0..PurgeEnd(r.t0)

RecordsOk ==
  /\ records \in Seq(Range(records))
  /\ \A k \in 1..Len(records) : RecordOk(records[k])

ResearchInv == Phases /\ SeriesOk /\ CalibrationApart /\ FoldsApart /\ RecordsOk

LEMMA EmptyIsSeq ==
  /\ <<>> \in Seq(Range(<<>>)) /\ Len(<<>>) = 0 /\ DOMAIN <<>> = {} /\ \A S : <<>> \in Seq(S)
OBVIOUS

LEMMA LastIsNat == ASSUME bars \in Series PROVE LastOf \in Nat
BY ResearchAssumption DEF ResearchAssumption, LastOf

LEMMA NoFoldsApart == ASSUME folds = <<>> PROVE FoldsApart /\ CalibrationApart
BY EmptyIsSeq DEF FoldsApart, CalibrationApart

LEMMA NoRecordsOk == ASSUME records = <<>> PROVE RecordsOk
BY EmptyIsSeq DEF RecordsOk

LEMMA SeriesFrame ==
  ASSUME SeriesOk, UNCHANGED <<bars, events, labels>> PROVE SeriesOk'
BY DEF SeriesOk, LastOf

LEMMA FoldsFrame ==
  ASSUME FoldsApart, UNCHANGED <<part, folds, events, bars>> PROVE FoldsApart'
BY DEF FoldsApart, PurgeEnd, LastOf

LEMMA CalibrationFrame ==
  ASSUME CalibrationApart, UNCHANGED <<part, folds, labels>> PROVE CalibrationApart'
BY DEF CalibrationApart, Apart

LEMMA RecordsFrame ==
  ASSUME RecordsOk, UNCHANGED <<records, folds, events, bars>> PROVE RecordsOk'
BY DEF RecordsOk, RecordOk, PurgeEnd, LastOf

LEMMA InitOk == ASSUME Init PROVE ResearchInv
<1>1. folds = <<>> /\ records = <<>> /\ events = <<>> /\ labels = <<>> BY DEF Init
<1>2. Phases BY DEF Init, Phases
<1>3. bars \in Series BY DEF Init
<1>4. UpTo(events, LastOf) BY <1>1, EmptyIsSeq DEF UpTo, Rising
<1>5. LabelBounds(labels, LastOf) BY <1>1, EmptyIsSeq DEF LabelBounds
<1> QED BY <1>1, <1>2, <1>3, <1>4, <1>5, NoFoldsApart, NoRecordsOk DEF ResearchInv, SeriesOk

LEMMA DetectOk == ASSUME ResearchInv, Detect PROVE ResearchInv'
<1>1. /\ stage = "bars" /\ stage' \in {"raised", "events"}
      /\ UNCHANGED <<part, bars, labels, folds, records>>
  BY DEF Detect
<1>2. records = <<>> /\ folds = <<>> /\ part \in {"research", "cpcv"} BY <1>1 DEF ResearchInv, Phases
<1>3. Phases' BY <1>1, <1>2 DEF Phases
<1>4. bars \in Series /\ UpTo(events, LastOf) /\ LabelBounds(labels, LastOf)
  BY DEF ResearchInv, SeriesOk
<1>5. UpTo(events', LastOf)
  <2>1. 2 * Groups \in Nat /\ Larger(3 * Groups, 10) \in Nat \ {0} /\ 20 \in Nat \ {0}
    BY ResearchAssumption DEF ResearchAssumption, Larger
  <2>2. \/ events' = events \/ events' = EventsOrGrid(bars, 5, 20)
        \/ events' = EventsOrGrid(bars, 2 * Groups, Larger(3 * Groups, 10))
    BY DEF Detect
  <2>3. UpTo(EventsOrGrid(bars, 5, 20), LastBar(bars)) BY <1>4, <2>1, EventsInOrder
  <2>4. UpTo(EventsOrGrid(bars, 2 * Groups, Larger(3 * Groups, 10)), LastBar(bars))
    BY <1>4, <2>1, EventsInOrder
  <2> QED BY <1>4, <2>2, <2>3, <2>4 DEF LastOf
<1>6. SeriesOk' BY <1>1, <1>4, <1>5 DEF SeriesOk, LastOf
<1>7. (FoldsApart /\ CalibrationApart)' BY <1>1, <1>2, NoFoldsApart, EmptyIsSeq
                                       DEF FoldsApart, CalibrationApart
<1>8. RecordsOk' BY <1>1, <1>2, EmptyIsSeq DEF RecordsOk
<1> QED BY <1>3, <1>6, <1>7, <1>8 DEF ResearchInv

LEMMA LabelOk ==
  ASSUME ResearchInv, Label
  PROVE  ResearchInv' /\ (TWindow >= 1 => FirstTouches(bars, labels', LastOf))
<1>1. /\ stage = "events" /\ stage' \in {"raised", "labels"}
      /\ UNCHANGED <<part, bars, events, folds, records>>
  BY DEF Label
<1>2. records = <<>> /\ folds = <<>> /\ part \in {"research", "cpcv"} BY <1>1 DEF ResearchInv, Phases
<1>3. Phases' BY <1>1, <1>2 DEF Phases
<1>4. bars \in Series /\ UpTo(events, LastOf) BY DEF ResearchInv, SeriesOk
<1> DEFINE sides == [t \in DOMAIN bars |-> PrimarySide(t)]
<1>5. labels' = generate_meta_labels_triple_barrier(bars, events, sides) BY DEF Label
<1> HIDE DEF sides
<1>6. LabelBounds(labels', LastOf) /\ (TWindow >= 1 => FirstTouches(bars, labels', LastOf))
  BY <1>4, <1>5, LabelsOfSeries DEF LastOf
<1>7. SeriesOk' BY <1>1, <1>4, <1>6 DEF SeriesOk, LastOf
<1>8. (FoldsApart /\ CalibrationApart)' BY <1>1, <1>2, EmptyIsSeq DEF FoldsApart, CalibrationApart
<1>9. RecordsOk' BY <1>1, <1>2, EmptyIsSeq DEF RecordsOk
<1> QED BY <1>3, <1>6, <1>7, <1>8, <1>9 DEF ResearchInv

(* The folds of the calibration.                                           *)
LEMMA FitModelOk == ASSUME ResearchInv, FitModel PROVE ResearchInv'
<1>1. /\ part = "research" /\ stage = "weights" /\ stage' = "fitted"
      /\ UNCHANGED <<part, bars, events, labels, records>>
  BY DEF FitModel
<1>2. records = <<>> /\ folds = <<>> BY <1>1 DEF ResearchInv, Phases
<1>3. Phases' BY <1>1, <1>2 DEF Phases
<1>4. SeriesOk' BY <1>1, SeriesFrame DEF ResearchInv
<1>5. RecordsOk' BY <1>1, <1>2, EmptyIsSeq DEF RecordsOk
<1>6. FoldsApart' BY <1>1 DEF FoldsApart
<1> DEFINE n     == Len(labels)
           parts == Smaller(3, Larger(2, n \div CalibratePer))
           step  == embargo_step(Embargo, 0, 0, n)
           fs    == purged_split(Starts(labels), Ends(labels), parts, step)
<1>7. folds' = folds \/ folds' = fs BY DEF FitModel
<1>8. step = Embargo /\ Embargo \in Nat /\ parts \in Nat \ {0}
  <2>1. Embargo \in Nat /\ CalibratePer \in Nat \ {0}
    BY ResearchAssumption DEF ResearchAssumption
  <2>2. step = Embargo BY <2>1 DEF embargo_step, None
  <2>3. n \in Nat BY DEF ResearchInv, SeriesOk, LabelBounds
  <2> HIDE DEF n
  <2>4. n \div CalibratePer \in Int BY <2>1, <2>3, DivFacts
  <2>5. parts \in Nat \ {0} BY <2>4 DEF Smaller, Larger
  <2> QED BY <2>1, <2>2, <2>5
<1>9. ASSUME folds' = fs PROVE CalibrationApart'
  <2>1. LabelBounds(labels, LastOf) /\ LastOf \in Nat BY LastIsNat DEF ResearchInv, SeriesOk
  <2>2. labels \in Seq(Range(labels)) BY <2>1 DEF LabelBounds
  <2>3. n \in Nat /\ DOMAIN labels = 1..n BY <2>2
  <2> DEFINE t0 == Starts(labels)
             t1 == Ends(labels)
  <2>4. t0 = [i \in 1..n |-> labels[i].t0] /\ t1 = [i \in 1..n |-> labels[i].t1]
    BY <2>3 DEF Starts, Ends
  <2>5. \A i \in 1..n : t0[i] = labels[i].t0 /\ t1[i] = labels[i].t1 BY <2>4
  <2>6. Len(t0) = n
    <3>1. t0 = [i \in 1..n |-> t0[i]] BY <2>4
    <3> HIDE DEF t0, n
    <3> QED BY <2>3, <3>1, ListIsSeq
  <2>7. \A i \in 1..n : t0[i] \in Int /\ t1[i] \in 0..LastOf
    <3> TAKE i \in 1..n
    <3>1. labels[i].t0 \in 0..(LastOf - 1) /\ labels[i].t1 \in (labels[i].t0 + 1)..LastOf
      BY <2>1 DEF LabelBounds
    <3> QED BY <2>1, <2>5, <3>1
  <2>8. \A i, j \in 1..n : i <= j => t0[i] <= t0[j]
    <3> SUFFICES ASSUME NEW i \in 1..n, NEW j \in 1..n, i <= j PROVE t0[i] <= t0[j] OBVIOUS
    <3>1. CASE i = j BY <2>7, <3>1
    <3>2. CASE i < j
      <4>1. labels[i].t0 < labels[j].t0 BY <2>1, <3>2 DEF LabelBounds
      <4>2. t0[i] < t0[j] /\ t0[i] \in Int /\ t0[j] \in Int BY <2>5, <2>7, <4>1
      <4> QED BY <4>2
    <3> QED BY <3>1, <3>2
  <2>9. DOMAIN fs = 1..parts BY DEF purged_split
  <2> HIDE DEF t0, t1, n, parts, step
  <2>10. \A g \in 1..parts :
          /\ fs[g].train \in SUBSET (1..n) /\ fs[g].test \in SUBSET (1..n)
          /\ FoldApart(fs[g], t0, t1, Embargo)
    <3> TAKE g \in 1..parts
    <3>1. fs = purged_split(t0, t1, parts, Embargo) BY <1>8 DEF t0, t1
    <3>2. Len(t0) \in Nat BY <2>3, <2>6
    <3>3. LastOf \in Int BY <2>1
    <3>4. \A i \in 1..Len(t0) : t0[i] \in Int /\ t1[i] \in 0..LastOf BY <2>6, <2>7
    <3>5. \A i, j \in 1..Len(t0) : i <= j => t0[i] <= t0[j] BY <2>6, <2>8
    <3> HIDE DEF fs
    <3> QED BY <1>8, <2>6, <3>1, <3>2, <3>3, <3>4, <3>5, PurgedSplitKeepsApart
  <2> HIDE DEF fs
  <2>11. \A f \in DOMAIN fs : \A i \in fs[f].train, j \in fs[f].test :
           Apart(labels[i], labels[j].t0, labels[j].t1)
    <3> SUFFICES ASSUME NEW f \in DOMAIN fs, NEW i \in fs[f].train, NEW j \in fs[f].test
                 PROVE  Apart(labels[i], labels[j].t0, labels[j].t1)
      OBVIOUS
    <3>1. FoldApart(fs[f], t0, t1, Embargo) /\ i \in 1..n /\ j \in 1..n BY <2>9, <2>10
    <3>2. t1[i] <= t0[j] \/ t0[i] >= t1[j] + Embargo BY <3>1 DEF FoldApart
    <3> QED BY <2>5, <3>1, <3>2 DEF Apart
  <2> QED BY <1>1, <1>9, <2>11 DEF CalibrationApart, Apart
<1>10. CalibrationApart'
  <2>1. CASE folds' = folds BY <1>1, <2>1, CalibrationFrame DEF ResearchInv
  <2> QED BY <1>7, <1>9, <2>1
<1> QED BY <1>3, <1>4, <1>5, <1>6, <1>10 DEF ResearchInv

LEMMA WeighOk == ASSUME ResearchInv, Weigh PROVE ResearchInv'
<1>1. /\ stage = "labels" /\ stage' = "weights"
      /\ UNCHANGED <<part, bars, events, labels, folds, records>>
  BY DEF Weigh
<1>2. Phases' BY <1>1 DEF ResearchInv, Phases
<1> QED BY <1>1, <1>2, SeriesFrame, FoldsFrame, CalibrationFrame, RecordsFrame DEF ResearchInv

LEMMA StartOk == ASSUME ResearchInv, StartCPCV PROVE ResearchInv'
<1>1. /\ stage = "fitted" /\ part' = "cpcv" /\ stage' = "bars" /\ folds' = <<>>
      /\ UNCHANGED <<bars, events, labels, records>>
  BY DEF StartCPCV
<1>2. records = <<>> BY <1>1 DEF ResearchInv, Phases
<1>3. Phases' BY <1>1, <1>2 DEF Phases
<1>4. SeriesOk' BY <1>1, SeriesFrame DEF ResearchInv
<1>5. (FoldsApart /\ CalibrationApart)' BY <1>1, EmptyIsSeq DEF FoldsApart, CalibrationApart
<1>6. RecordsOk' BY <1>1, <1>2, EmptyIsSeq DEF RecordsOk
<1> QED BY <1>3, <1>4, <1>5, <1>6 DEF ResearchInv

(* The folds of the cross-validation.                                      *)
LEMMA SplitOk == ASSUME ResearchInv, Split PROVE ResearchInv'
<1>1. /\ part = "cpcv" /\ stage = "weights" /\ stage' \in {"raised", "fold"}
      /\ UNCHANGED <<part, bars, events, labels, records>>
  BY DEF Split
<1>2. records = <<>> /\ folds = <<>> BY <1>1 DEF ResearchInv, Phases
<1>3. Phases' BY <1>1, <1>2 DEF Phases
<1>4. SeriesOk' BY <1>1, SeriesFrame DEF ResearchInv
<1>5. RecordsOk' BY <1>1, <1>2, EmptyIsSeq DEF RecordsOk
<1>6. CalibrationApart' BY <1>1 DEF CalibrationApart
<1> DEFINE n      == Len(events)
           groups == Smaller(Groups, Larger(2, n \div 2))
           test   == Smaller(TestGroups, Larger(1, groups \div 2))
           t1     == [i \in DOMAIN events |-> PurgeEnd(events[i])]
           fs     == split(events, t1, groups, test, Embargo)
<1>7. folds' = folds \/ folds' = fs BY DEF Split
<1>8. bars \in Series /\ events \in Seq(0..LastOf) /\ Rising(events) /\ LastOf \in Nat
  BY LastIsNat DEF ResearchInv, SeriesOk, UpTo
<1>9. n \in Nat /\ DOMAIN events = 1..n /\ \A i \in 1..n : events[i] \in 0..LastOf BY <1>8
<1>10. groups \in Nat \ {0} /\ Embargo \in Nat
  <2>1. Groups \in Nat /\ Groups >= 3 /\ Embargo \in Nat BY ResearchAssumption DEF ResearchAssumption
  <2> HIDE DEF n
  <2>2. n \div 2 \in Int BY <1>9
  <2>3. groups \in Nat \ {0} BY <2>1, <2>2 DEF Smaller, Larger
  <2> QED BY <2>1, <2>3
<1>11. DOMAIN fs = DOMAIN GroupChoices(groups, test) BY DEF split
<1>12. \A i \in 1..n : t1[i] = PurgeEnd(events[i]) BY <1>9
<1>13. Spans(events, t1, n)
  <2>1. purge_horizon \in Int BY ResearchAssumption DEF ResearchAssumption, purge_horizon, Larger
  <2>2. \A i \in 1..n : events[i] \in Int /\ t1[i] \in Int
    BY <1>8, <1>9, <1>12, <2>1 DEF PurgeEnd, Clip, Larger, Smaller
  <2>3. \A i, j \in 1..n : i <= j => events[i] <= events[j]
    <3>a. Rising(events) /\ n = Len(events) BY <1>8
    <3> HIDE DEF n, t1
    <3> SUFFICES ASSUME NEW i \in 1..n, NEW j \in 1..n, i <= j PROVE events[i] <= events[j] OBVIOUS
    <3>1. CASE i = j BY <2>2, <3>1
    <3>2. CASE i < j
      <4>1. events[i] < events[j] BY <3>a, <3>2 DEF Rising
      <4> QED BY <2>2, <4>1
    <3> QED BY <3>1, <3>2
  <2>4. \A a, b \in 0..LastOf : a <= b => PurgeEnd(a) <= PurgeEnd(b)
    BY <1>8, <2>1 DEF PurgeEnd, Clip, Larger, Smaller
  <2>5. \A i, j \in 1..n : i <= j => t1[i] <= t1[j] BY <1>9, <1>12, <2>3, <2>4
  <2> QED BY <2>2, <2>3, <2>5 DEF Spans
<1> HIDE DEF t1, groups, test
<1>14. ASSUME folds' = fs PROVE FoldsApart'
  <2>1. \A f \in DOMAIN fs :
          /\ fs[f].train \in SUBSET (1..n) /\ fs[f].test \in SUBSET (1..n)
          /\ FoldApart(fs[f], events, t1, Embargo)
    <3> TAKE f \in DOMAIN fs
    <3>1. f \in DOMAIN GroupChoices(groups, test) BY <1>11
    <3> QED BY <1>9, <1>10, <1>13, <3>1, SplitKeepsApart
  <2> HIDE DEF fs
  <2>2. \A f \in DOMAIN fs : \A e \in fs[f].train, x \in fs[f].test :
           \/ PurgeEnd(events[e]) <= events[x]
           \/ events[e] >= PurgeEnd(events[x]) + Embargo
    <3> SUFFICES ASSUME NEW f \in DOMAIN fs, NEW e \in fs[f].train, NEW x \in fs[f].test
                 PROVE  \/ PurgeEnd(events[e]) <= events[x]
                        \/ events[e] >= PurgeEnd(events[x]) + Embargo
      OBVIOUS
    <3>1. FoldApart(fs[f], events, t1, Embargo) /\ e \in 1..n /\ x \in 1..n BY <2>1
    <3> QED BY <1>12, <3>1 DEF FoldApart
  <2>3. \A a : PurgeEnd(a)' = PurgeEnd(a') BY <1>1 DEF PurgeEnd, LastOf
  <2> QED BY <1>1, <1>14, <2>1, <2>2 DEF FoldsApart, PurgeEnd, LastOf
<1>15. FoldsApart'
  <2>1. CASE folds' = folds BY <1>1, <2>1, FoldsFrame DEF ResearchInv
  <2> QED BY <1>7, <1>14, <2>1
<1> QED BY <1>3, <1>4, <1>5, <1>6, <1>15 DEF ResearchInv

LEMMA FitFoldOk == ASSUME ResearchInv, FitFold PROVE ResearchInv'
<1>1. /\ stage = "fold" /\ stage' = "simulate" /\ at \in DOMAIN folds
      /\ UNCHANGED <<part, bars, events, labels, folds, at, records>>
  BY DEF FitFold
<1>2. Phases' BY <1>1 DEF ResearchInv, Phases
<1> QED BY <1>1, <1>2, SeriesFrame, FoldsFrame, CalibrationFrame, RecordsFrame DEF ResearchInv

LEMMA BuildOk == ASSUME ResearchInv, BuildTables PROVE ResearchInv'
<1>1. /\ stage = "simulated" /\ stage' \in {"tables", "raised"}
      /\ UNCHANGED <<part, bars, events, labels, folds, at, records>>
  BY DEF BuildTables
<1>2. Phases' BY <1>1 DEF ResearchInv, Phases
<1> QED BY <1>1, <1>2, SeriesFrame, FoldsFrame, CalibrationFrame, RecordsFrame DEF ResearchInv

LEMMA StutterOk == ASSUME ResearchInv, UNCHANGED vars PROVE ResearchInv'
<1>1. UNCHANGED <<part, stage, bars, events, labels, folds, at, records>> BY DEF vars
<1>2. Phases' BY <1>1 DEF ResearchInv, Phases
<1> QED BY <1>1, <1>2, SeriesFrame, FoldsFrame, CalibrationFrame, RecordsFrame DEF ResearchInv

(* The trades of a fold join the records.                                  *)
LEMMA JoinIsSeq ==
  ASSUME NEW s, s \in Seq(Range(s)), NEW m \in Nat, NEW g, g = [i \in 1..m |-> g[i]]
  PROVE  /\ (s \o g) \in Seq(Range(s \o g)) /\ Len(s \o g) = Len(s) + m
         /\ \A k \in 1..Len(s) : (s \o g)[k] = s[k]
         /\ \A k \in 1..(Len(s) + m) : k > Len(s) =>
              k - Len(s) \in 1..m /\ (s \o g)[k] = g[k - Len(s)]
<1> DEFINE R == Range(s) \cup Range(g)
           u == s \o g
<1>1. g \in Seq(Range(g)) /\ Len(g) = m BY ListIsSeq
<1>2. s \in Seq(R) /\ g \in Seq(R) BY <1>1
<1> HIDE DEF R
<1>3. u \in Seq(R) /\ Len(u) = Len(s) + m BY <1>1, <1>2
<1>4. Len(s) \in Nat OBVIOUS
<1>5. \A k \in 1..(Len(s) + m) : u[k] = IF k <= Len(s) THEN s[k] ELSE g[k - Len(s)]
  BY <1>1, <1>2
<1> HIDE DEF u
<1>6. u = [k \in 1..(Len(s) + m) |-> u[k]] BY <1>3, <1>4
<1>7. u \in Seq(Range(u)) BY <1>3, <1>4, <1>6, ListIsSeq
<1>8. \A k \in 1..Len(s) : u[k] = s[k]
  <2> TAKE k \in 1..Len(s)
  <2>1. k \in 1..(Len(s) + m) /\ k <= Len(s) BY <1>4
  <2> QED BY <1>5, <2>1
<1>9. \A k \in 1..(Len(s) + m) : k > Len(s) => k - Len(s) \in 1..m /\ u[k] = g[k - Len(s)]
  <2> TAKE k \in 1..(Len(s) + m)
  <2> HAVE k > Len(s)
  <2>1. ~(k <= Len(s)) /\ k - Len(s) \in 1..m BY <1>4
  <2> QED BY <1>5, <2>1
<1> QED BY <1>3, <1>7, <1>8, <1>9 DEF u

LEMMA SimulateOk == ASSUME ResearchInv, Simulate PROVE ResearchInv'
<1>1. /\ stage = "simulate" /\ stage' \in {"raised", "simulated", "fold"}
      /\ UNCHANGED <<part, bars, events, labels, folds>>
  BY DEF Simulate
<1>2. part = "cpcv" /\ at \in DOMAIN folds BY <1>1 DEF ResearchInv, Phases
<1>3. Phases' BY <1>1, <1>2 DEF Phases
<1>4. SeriesOk' /\ FoldsApart' /\ CalibrationApart'
  BY <1>1, SeriesFrame, FoldsFrame, CalibrationFrame DEF ResearchInv
<1> DEFINE open   == IF forest = NoForest THEN <<>> ELSE Candidates(at)
           traded == Only(open, {t \in Range(open) : TermsAt(t).result # "none"})
           new    == [i \in DOMAIN traded |-> TradeAt(at, traded[i])]
<1>5. \/ records' = records
      \/ /\ records' = records \o new
         /\ ~ \E i \in DOMAIN traded : TermsAt(traded[i]).result = "raise"
  BY DEF Simulate
<1>6. /\ bars \in Series /\ LastOf \in Nat /\ events \in Seq(0..LastOf)
      /\ folds[at].test \in SUBSET (1..Len(events)) /\ RecordsOk
  BY <1>2, LastIsNat DEF ResearchInv, SeriesOk, UpTo, FoldsApart
<1> DEFINE tests == {events[e] : e \in folds[at].test}
<1>7. open \in Seq(0..LastOf) /\ \A x \in Range(open) : x \in tests /\ x \in 0..LastOf
  <2>1. CASE forest = NoForest
    <3>1. open = <<>> /\ Range(<<>>) = {} BY <2>1 DEF Range
    <3> HIDE DEF open
    <3> QED BY <3>1, EmptyIsSeq
  <2>2. CASE forest # NoForest
    <3> DEFINE S == tests \cap 0..(LastOf - 2)
    <3>1. open = Only(events, S) BY <2>2 DEF Candidates
    <3> HIDE DEF open, S
    <3>2. open \in Seq(0..LastOf) /\ \A x \in Range(open) : x \in S /\ x \in Range(events)
      BY <1>6, <3>1, OnlyIsPart
    <3>3. \A x \in Range(events) : x \in 0..LastOf BY <1>6, MembersInRange
    <3> QED BY <3>2, <3>3 DEF S
  <2> QED BY <2>1, <2>2
<1> HIDE DEF open, tests
<1>8. /\ traded \in Seq(0..LastOf)
      /\ \A x \in Range(traded) : TermsAt(x).result # "none" /\ x \in Range(open)
  BY <1>7, OnlyIsPart
<1> HIDE DEF traded
<1> DEFINE m == Len(traded)
<1>9. m \in Nat /\ DOMAIN traded = 1..m BY <1>8
<1>10. \A i \in 1..m : /\ traded[i] \in tests /\ traded[i] \in 0..LastOf
                       /\ TermsAt(traded[i]).result # "none"
  <2>1. \A i \in 1..m : traded[i] \in Range(traded) BY <1>8, MembersInRange
  <2> QED BY <1>7, <1>8, <2>1
<1> HIDE DEF m
<1>11. ASSUME ~ \E i \in DOMAIN traded : TermsAt(traded[i]).result = "raise", NEW i \in 1..m
       PROVE  RecordOk(new[i])
  <2> DEFINE t == traded[i]
  <2>1. TermsAt(t).result = "trade"
    <3>1. TermsAt(t).result # "none" /\ TermsAt(t).result # "raise" BY <1>9, <1>10, <1>11
    <3>2. TermsAt(t).result \in {"none", "raise", "trade"} BY TermsOfTrade DEF TermsAt
    <3> QED BY <3>1, <3>2
  <2>2. PICK x \in folds[at].test : t = events[x] BY <1>10 DEF tests
  <2> DEFINE ends == {PurgeEnd(events[e]) : e \in folds[at].test}
  <2>3. Max(ends) \in Int
    <3>1. purge_horizon \in Int
      BY ResearchAssumption DEF ResearchAssumption, purge_horizon, Larger
    <3>2. \A e \in folds[at].test : PurgeEnd(events[e]) \in 0..LastOf
      BY <1>6, <3>1 DEF PurgeEnd, Clip, Larger, Smaller
    <3>3. ends \in SUBSET (0..LastOf) BY <3>2
    <3>4. PurgeEnd(events[x]) \in ends OBVIOUS
    <3> HIDE DEF ends
    <3>5. ends # {} /\ 0 \in Int /\ LastOf \in Int BY <1>6, <3>4
    <3>6. Max(ends) \in ends BY <3>3, <3>5, MaxFacts
    <3>7. \A y \in ends : y \in Int BY <3>3
    <3> QED BY <3>6, <3>7
  <2>4. t \in 0..LastOf BY <1>10
  <2>5. new[i] = TradeAt(at, t) BY <1>9
  <2> HIDE DEF t, new
  <2>6. /\ TradeAt(at, t).fold = at /\ TradeAt(at, t).t0 = t
        /\ TradeAt(at, t).exit \in 0..PurgeEnd(t)
    BY <1>6, <2>1, <2>3, <2>4, TradeEndsInTime
  <2> QED BY <1>2, <2>2, <2>4, <2>5, <2>6 DEF RecordOk
<1>12. ASSUME records' = records \o new,
              ~ \E i \in DOMAIN traded : TermsAt(traded[i]).result = "raise"
       PROVE  RecordsOk'
  <2>1. records \in Seq(Range(records)) /\ \A k \in 1..Len(records) : RecordOk(records[k])
    BY <1>6 DEF RecordsOk
  <2>2. new = [i \in 1..m |-> new[i]] BY <1>9
  <2>3. \A i \in 1..m : RecordOk(new[i]) BY <1>11, <1>12
  <2> DEFINE u == records \o new
  <2> HIDE DEF new
  <2>4. m \in Nat BY <1>9 DEF m
  <2>5. /\ u \in Seq(Range(u)) /\ Len(u) = Len(records) + m
        /\ \A k \in 1..Len(records) : u[k] = records[k]
        /\ \A k \in 1..(Len(records) + m) : k > Len(records) =>
             k - Len(records) \in 1..m /\ u[k] = new[k - Len(records)]
    BY <2>1, <2>2, <2>4, JoinIsSeq
  <2> HIDE DEF u
  <2>6. Len(records) \in Nat BY <2>1
  <2>7. \A k \in 1..Len(u) : RecordOk(u[k])
    <3> TAKE k \in 1..Len(u)
    <3>1. CASE k <= Len(records) BY <2>1, <2>4, <2>5, <2>6, <3>1
    <3>2. CASE k > Len(records) BY <2>3, <2>4, <2>5, <2>6, <3>2
    <3> QED BY <2>4, <2>5, <2>6, <3>1, <3>2
  <2>8. records' = u BY <1>12 DEF u
  <2> QED BY <1>1, <2>5, <2>7, <2>8 DEF RecordsOk, RecordOk, PurgeEnd, LastOf
<1>13. RecordsOk'
  <2>1. CASE records' = records BY <1>1, <2>1, RecordsFrame DEF ResearchInv
  <2> HIDE DEF new
  <2> QED BY <1>5, <1>12, <2>1
<1> QED BY <1>3, <1>4, <1>13 DEF ResearchInv

LEMMA ResearchStep == ASSUME ResearchInv, [Next]_vars PROVE ResearchInv'
<1>1. CASE Detect BY <1>1, DetectOk
<1>2. CASE Label BY <1>2, LabelOk
<1>3. CASE Weigh BY <1>3, WeighOk
<1>4. CASE FitModel BY <1>4, FitModelOk
<1>5. CASE StartCPCV BY <1>5, StartOk
<1>6. CASE Split BY <1>6, SplitOk
<1>7. CASE FitFold BY <1>7, FitFoldOk
<1>8. CASE Simulate BY <1>8, SimulateOk
<1>9. CASE BuildTables BY <1>9, BuildOk
<1>10. CASE UNCHANGED vars BY <1>10, StutterOk
<1>11. CASE Done BY <1>11, StutterOk DEF Done
<1> QED BY <1>1, <1>2, <1>3, <1>4, <1>5, <1>6, <1>7, <1>8, <1>9, <1>10, <1>11 DEF Next

(* Through both pipelines the events stay in order, the labels within      *)
(* their windows, the folds apart, and every record belongs to a test      *)
(* event of its fold and ends within the longest holding time.             *)
THEOREM PipelineInOrder == Spec => []ResearchInv
<1>1. Init => ResearchInv BY InitOk
<1>2. ResearchInv /\ [Next]_vars => ResearchInv' BY ResearchStep
<1> QED BY <1>1, <1>2, PTL DEF Spec

LEMMA ApartFromTrades ==
  ASSUME ResearchInv, TWindow <= purge_horizon PROVE NoLeak
<1>1. ASSUME part = "cpcv", NEW k \in DOMAIN records, NEW i \in TrainLabels(records[k].fold)
      PROVE  Apart(labels[i], records[k].t0, records[k].exit)
  <2> DEFINE r == records[k]
             l == labels[i]
             H == purge_horizon
  <2>1. RecordOk(r)
    <3>1. records \in Seq(Range(records)) /\ \A j \in 1..Len(records) : RecordOk(records[j])
      BY DEF ResearchInv, RecordsOk
    <3> QED BY <1>1, <3>1
  <2>2. PICK x \in folds[r.fold].test : r.t0 = events[x] BY <2>1 DEF RecordOk
  <2>3. i \in DOMAIN labels BY <1>1 DEF TrainLabels
  <2>a. PICK e \in folds[r.fold].train : events[e] = l.t0 BY <1>1 DEF TrainLabels
  <2>4. \/ PurgeEnd(events[e]) <= events[x]
        \/ events[e] >= PurgeEnd(events[x]) + Embargo
    BY <1>1, <2>1, <2>2, <2>a DEF ResearchInv, FoldsApart, RecordOk
  <2>5. \/ PurgeEnd(l.t0) <= r.t0
        \/ l.t0 >= PurgeEnd(r.t0) + Embargo
    BY <2>2, <2>a, <2>4
  <2>6. LastOf \in Nat BY LastIsNat DEF ResearchInv, SeriesOk
  <2>7. TWindow \in Nat /\ H \in Nat \ {0} /\ Embargo \in Nat
    BY LabellingAssumption, ResearchAssumption
    DEF LabellingAssumption, ResearchAssumption, purge_horizon, Larger
  <2>8. r.t0 \in 0..LastOf /\ r.exit \in 0..PurgeEnd(r.t0) BY <2>1 DEF RecordOk
  <2>9. /\ l.t0 \in 0..(LastOf - 1) /\ l.t1 \in (l.t0 + 1)..LastOf /\ l.t1 <= l.t0 + Longest
    <3>1. LabelBounds(labels, LastOf) BY DEF ResearchInv, SeriesOk
    <3>2. labels \in Seq(Range(labels)) BY <3>1 DEF LabelBounds
    <3>3. i \in 1..Len(labels) BY <2>3, <3>2
    <3> QED BY <3>1, <3>3 DEF LabelBounds
  <2> DEFINE a == l.t0
             b == l.t1
             c == r.t0
             d == r.exit
  <2> HIDE DEF l, r, H
  <2>10. b <= a + H BY <2>6, <2>7, <2>9 DEF Longest, Larger, H
  <2>11. PurgeEnd(a) \in Int /\ b <= PurgeEnd(a)
    BY <2>6, <2>7, <2>9, <2>10 DEF PurgeEnd, Clip, Larger, Smaller, H
  <2>12. PurgeEnd(c) \in Int
    BY <2>6, <2>7, <2>8 DEF PurgeEnd, Clip, Larger, Smaller, H
  <2>13. a \in Int /\ b \in Int /\ c \in Int /\ d \in Int /\ d <= PurgeEnd(c)
    BY <2>6, <2>8, <2>9, <2>12
  <2>14. b <= c \/ a >= d + Embargo BY <2>5, <2>7, <2>11, <2>12, <2>13
  <2> QED BY <2>14 DEF Apart, l, r
<1>2. part = "research" => \A f \in DOMAIN folds : \A i \in folds[f].train, j \in folds[f].test :
        Apart(labels[i], labels[j].t0, labels[j].t1)
  BY DEF ResearchInv, CalibrationApart
<1> QED BY <1>1, <1>2 DEF NoLeak

(* When the labels look no further ahead than a trade may last, no model   *)
(* is tested on bars that decided one of the labels it was fitted on, nor  *)
(* on bars within the embargo of one: for all series, folds, windows and   *)
(* embargoes (CombinatorialPurgedKFold and PurgedKFold, split).            *)
THEOREM NoModelSeesItsTest ==
  ASSUME TWindow <= purge_horizon PROVE Spec => []NoLeak
<1>1. ResearchInv => NoLeak BY ApartFromTrades
<1> QED BY <1>1, PipelineInOrder, PTL

LEMMA FirstTouchesAre ==
  LabelIsFirstTouch <=> (stage = "labels" => FirstTouches(bars, labels, LastOf))
BY DEF LabelIsFirstTouch, FirstTouches, FirstTouch

(* With a window of at least one bar, every label is decided by the first  *)
(* bar that touches the target or the stop, the stop first within a bar,   *)
(* or by the gain at the horizon (apply_triple_barrier_single_event).      *)
THEOREM LabelsAreFirstTouches ==
  ASSUME TWindow >= 1 PROVE Spec => []LabelIsFirstTouch
<1>1. Init => LabelIsFirstTouch BY DEF Init, LabelIsFirstTouch
<1>2. ASSUME ResearchInv, LabelIsFirstTouch, [Next]_vars PROVE LabelIsFirstTouch'
  <2>1. CASE Label
    <3>1. FirstTouches(bars, labels', LastOf) /\ bars' = bars BY <2>1, <1>2, LabelOk DEF Label
    <3>2. FirstTouches(bars, labels, LastOf)' BY <3>1 DEF LastOf
    <3> QED BY <3>2 DEF LabelIsFirstTouch, FirstTouches, FirstTouch
  <2>2. CASE UNCHANGED <<stage, bars, labels>>
    <3>1. stage = "labels" => FirstTouches(bars, labels, LastOf) BY <1>2, FirstTouchesAre
    <3>2. (stage = "labels" => FirstTouches(bars, labels, LastOf))' BY <2>2, <3>1 DEF LastOf
    <3> QED BY <3>2 DEF LabelIsFirstTouch, FirstTouches, FirstTouch
  <2>3. CASE stage' # "labels" BY <2>3 DEF LabelIsFirstTouch
  <2>4. Label \/ stage' # "labels" \/ UNCHANGED <<stage, bars, labels>>
    BY <1>2 DEF Next, vars, Done, Detect, Weigh, FitModel, StartCPCV, Split, FitFold,
                Simulate, BuildTables
  <2> QED BY <2>1, <2>2, <2>3, <2>4
<1> QED BY <1>1, <1>2, PipelineInOrder, PTL DEF Spec

LEMMA TablesOfRecords ==
  ASSUME NEW rs, rs \in Seq(Range(rs)), NEW mode, NEW i \in Bins, NEW j \in Bins
  PROVE  LET clean == Only(rs, Untruncated(rs))
             in    == trade_records_to_kelly_table_inputs(Only(clean, OfMode(clean, mode)))
             mine  == Only(rs, Mine(rs, mode))
         IN  in.cells[i][j] = Column(Only(mine, InCell(mine, in, <<i, j>>)), "ret")
<1> DEFINE clean == Only(rs, Untruncated(rs))
           all   == Only(clean, OfMode(clean, mode))
           in    == trade_records_to_kelly_table_inputs(all)
           mine  == Only(rs, Mine(rs, mode))
<1>1. all = mine /\ Only(mine, Untruncated(mine)) = mine BY MineOnce
<1>2. mine \in Seq(Range(rs)) BY OnlyIsPart
<1> HIDE DEF mine, all
<1>3. in.cells[i][j] = Returns(Only(mine, InCell(mine, in, <<i, j>>)))
  BY <1>1, <1>2, CellsAreFound
<1> HIDE DEF in
<1>4. in.cells[i][j] = Column(Only(mine, InCell(mine, in, <<i, j>>)), "ret") BY <1>3 DEF Returns
<1> QED BY <1>4 DEF in, all, mine

TablesLive(rs, ts) ==
  \A mode \in DOMAIN ts : \A i, j \in Bins :
    LET mine == Only(rs, Mine(rs, mode))
    IN  ts[mode].inputs.cells[i][j]
          = Column(Only(mine, InCell(mine, ts[mode].inputs, <<i, j>>)), "ret")

(* Every cell of the tables holds, in order, the returns of exactly the    *)
(* records whose probabilities the live engine's lookup finds in it, for   *)
(* all records, edges and table sizes (CellFor;                            *)
(* trade_records_to_kelly_table_inputs).                                   *)
THEOREM TablesAreFoundLive == Spec => []TrainCellIsLiveCell
<1>1. Init => TrainCellIsLiveCell BY DEF Init, TrainCellIsLiveCell
<1>2. ASSUME ResearchInv, TrainCellIsLiveCell, [Next]_vars PROVE TrainCellIsLiveCell'
  <2>1. CASE BuildTables /\ stage' = "tables"
    <3>1. records' = records /\ records \in Seq(Range(records))
      BY <1>2, <2>1 DEF BuildTables, ResearchInv, RecordsOk
    <3> DEFINE clean == Only(records, Untruncated(records))
               In(mode) == trade_records_to_kelly_table_inputs(Only(clean, OfMode(clean, mode)))
               mine(mode) == Only(records, Mine(records, mode))
    <3>2. tables' = [mode \in {"follow", "fade"} |->
                       [inputs |-> In(mode), grid |-> build_empirical_kelly_table_v2(In(mode), Draws)]]
      BY <2>1 DEF BuildTables, filter_boundary_truncated_for_kelly_table, Untruncated, OfMode
    <3>3. \A mode \in DOMAIN tables' : tables'[mode].inputs = In(mode) BY <3>2
    <3>4. \A mode : \A i, j \in Bins :
            In(mode).cells[i][j] = Column(Only(mine(mode), InCell(mine(mode), In(mode), <<i, j>>)), "ret")
      BY <3>1, TablesOfRecords
    <3> HIDE DEF In
    <3>5. \A mode \in DOMAIN tables' : \A i, j \in Bins :
            tables'[mode].inputs.cells[i][j]
              = Column(Only(mine(mode), InCell(mine(mode), tables'[mode].inputs, <<i, j>>)), "ret")
      <4> TAKE mode \in DOMAIN tables'
      <4> TAKE i, j \in Bins
      <4> DEFINE in == tables'[mode].inputs
      <4>1. in = In(mode) BY <3>3
      <4> HIDE DEF in, mine
      <4>2. in.cells[i][j] = Column(Only(mine(mode), InCell(mine(mode), in, <<i, j>>)), "ret")
        BY <3>4, <4>1
      <4> QED BY <4>2 DEF in
    <3>6. TablesLive(records, tables') BY <3>5 DEF TablesLive
    <3> QED BY <3>1, <3>6 DEF TrainCellIsLiveCell, TablesLive, InCell, Mine
  <2>2. CASE UNCHANGED <<stage, tables, records>> BY <1>2, <2>2 DEF TrainCellIsLiveCell
  <2>3. CASE stage' # "tables" BY <2>3 DEF TrainCellIsLiveCell
  <2>4. BuildTables \/ stage' # "tables" \/ UNCHANGED <<stage, tables, records>>
    BY <1>2 DEF Next, vars, Done, Detect, Label, Weigh, FitModel, StartCPCV, Split, FitFold,
                Simulate
  <2> QED BY <2>1, <2>2, <2>3, <2>4
<1> QED BY <1>1, <1>2, PipelineInOrder, PTL DEF Spec
-----------------------------------------------------------------------------
(* Counting twice: what each of the intervals has, summed up, is what each *)
(* point has as often as it is in an interval.                             *)
Over(I, A, t) == {i \in A : t \in I[i]}

LEMMA OverWithout ==
  ASSUME NEW I, NEW A, IsFiniteSet(A), NEW a \in A, NEW t
  PROVE  /\ Cardinality(Over(I, A, t)) \in Nat /\ Cardinality(Over(I, A \ {a}, t)) \in Nat
         /\ Cardinality(Over(I, A, t)) = Cardinality(Over(I, A \ {a}, t)) + IF t \in I[a] THEN 1 ELSE 0
<1> DEFINE R == Over(I, A \ {a}, t)
           T == Over(I, A, t)
<1>1. IsFiniteSet(R) /\ IsFiniteSet(T) /\ Cardinality(R) \in Nat /\ Cardinality(T) \in Nat
  <2>1. R \in SUBSET A /\ T \in SUBSET A BY DEF Over
  <2> QED BY <2>1, FS_Subset, FS_CardinalityType
<1>2. CASE t \in I[a]
  <2>1. T = R \cup {a} /\ a \notin R BY <1>2 DEF Over
  <2> HIDE DEF T, R
  <2>2. Cardinality(T) = Cardinality(R) + 1 BY <1>1, <2>1, FS_AddElement
  <2> QED BY <1>1, <1>2, <2>2 DEF T, R
<1>3. CASE t \notin I[a]
  <2>1. T = R BY <1>3 DEF Over
  <2> QED BY <1>1, <1>3, <2>1
<1> QED BY <1>2, <1>3

Counted(I, w, A, T) == [t \in T |-> Cardinality(Over(I, A, t)) * w[t]]

LEMMA CountedTwice ==
  ASSUME NEW I, NEW A, IsFiniteSet(A), NEW T, IsFiniteSet(T), NEW w, \A t \in T : w[t] \in Int,
         \A i \in A : I[i] \in SUBSET T,
         NEW p, \A i \in A : p[i] = SumFunctionOnSet(w, I[i])
  PROVE  SumFunctionOnSet(p, A) = SumFunctionOnSet(Counted(I, w, A, T), T)
<1> DEFINE Twice(B) == SumFunctionOnSet(Counted(I, w, B, T), T)
           Bad == {B \in SUBSET A : SumFunctionOnSet(p, B) # Twice(B)}
<1> SUFFICES ASSUME Bad # {} PROVE FALSE OBVIOUS
<1>0. \A B \in SUBSET A : IsFiniteSet(B) BY FS_Subset
<1>1. PICK B \in Bad : \A V \in Bad : Cardinality(B) <= Cardinality(V)
  <2>1. \A B \in Bad : IsFiniteSet(B) BY <1>0
  <2> HIDE DEF Bad
  <2> QED BY <2>1, SmallestExists
<1>2. IsFiniteSet(B) /\ B # {} /\ B \in SUBSET A
  <2>1. IsFiniteSet(B) BY <1>0
  <2>2. SumFunctionOnSet(p, {}) = 0 BY SumUnfolds, FS_EmptySet
  <2>3. Twice({}) = 0
    <3> DEFINE z == Counted(I, w, {}, T)
    <3>1. \A t \in T : z[t] = 0
      <4>1. \A t \in T : Over(I, {}, t) = {} /\ Cardinality({}) = 0 BY FS_EmptySet DEF Over
      <4>2. \A t \in T : 0 * w[t] = 0 OBVIOUS
      <4>3. \A t \in T : z[t] = Cardinality(Over(I, {}, t)) * w[t] BY DEF Counted
      <4> HIDE DEF z
      <4> QED BY <4>1, <4>2, <4>3
    <3>2. 0 \in Int /\ 0 * Cardinality(T) = 0 BY FS_CardinalityType
    <3> HIDE DEF z
    <3>3. SumFunctionOnSet(z, T) = 0 * Cardinality(T) BY <3>1, <3>2, SumOfSame
    <3> QED BY <3>2, <3>3 DEF z
  <2> QED BY <1>1, <2>1, <2>2, <2>3
<1> DEFINE a == Drawn(B)
           R == B \ {a}
           f == Counted(I, w, R, T)
           h == Counted(I, w, B, T)
           g == [t \in T |-> IF t \in I[a] THEN w[t] ELSE 0]
<1>3. a \in B /\ R \in SUBSET A /\ ~ (Cardinality(B) <= Cardinality(R)) /\ IsFiniteSet(R)
  BY <1>2, DrawnFacts, FS_RemoveElement
<1>4. SumFunctionOnSet(p, R) = SumFunctionOnSet(f, T) BY <1>1, <1>3
<1>5. SumFunctionOnSet(p, B) = p[a] + SumFunctionOnSet(p, R) BY <1>2, SumUnfolds
<1>6. \A t \in T : f[t] \in Int /\ g[t] \in Int /\ h[t] = f[t] + g[t]
  <2> TAKE t \in T
  <2> DEFINE n == Cardinality(Over(I, R, t))
             m == Cardinality(Over(I, B, t))
  <2>1. n \in Nat /\ m \in Nat /\ m = n + IF t \in I[a] THEN 1 ELSE 0
    <3> HIDE DEF a, n, m
    <3>1. IsFiniteSet(B) /\ a \in B BY <1>2, <1>3
    <3>2. /\ Cardinality(Over(I, B, t)) \in Nat /\ Cardinality(Over(I, B \ {a}, t)) \in Nat
          /\ Cardinality(Over(I, B, t)) = Cardinality(Over(I, B \ {a}, t)) + IF t \in I[a] THEN 1 ELSE 0
      BY <3>1, OverWithout
    <3> QED BY <3>2 DEF n, m
  <2>2. w[t] \in Int OBVIOUS
  <2>3. f[t] = n * w[t] /\ h[t] = m * w[t] /\ g[t] = IF t \in I[a] THEN w[t] ELSE 0 BY DEF Counted
  <2> HIDE DEF n, m, f, g, h
  <2>4. CASE t \in I[a]
    <3>1. m = n + 1 /\ g[t] = w[t] BY <2>1, <2>3, <2>4
    <3>2. (n + 1) * w[t] = n * w[t] + w[t] BY <2>1, <2>2
    <3> QED BY <2>1, <2>2, <2>3, <3>1, <3>2
  <2>5. CASE t \notin I[a] BY <2>1, <2>2, <2>3, <2>5
  <2> QED BY <2>4, <2>5
<1>7. SumFunctionOnSet(g, T) = p[a]
  <2>1. a \in A /\ I[a] \in SUBSET T BY <1>2, <1>3
  <2>2. IsFiniteSet(I[a]) BY <2>1, FS_Subset
  <2>3. \A t \in T : g[t] \in Int BY <1>6
  <2>4. \A t \in T \ I[a] : g[t] = 0 OBVIOUS
  <2>5. \A t \in I[a] : g[t] = w[t] BY <2>1
  <2>6. p[a] = SumFunctionOnSet(w, I[a]) BY <2>1
  <2> HIDE DEF g, a
  <2>7. SumFunctionOnSet(g, T) = SumFunctionOnSet(g, I[a]) BY <2>1, <2>3, <2>4, SumSkipsZeros
  <2>8. SumFunctionOnSet(g, I[a]) = SumFunctionOnSet(w, I[a]) BY <2>2, <2>5, SumAgrees
  <2> QED BY <2>6, <2>7, <2>8
<1>8. SumFunctionOnSet(f, T) \in Int /\ p[a] \in Int
  <2> HIDE DEF f, g
  <2>1. SumFunctionOnSet(f, T) \in Int /\ SumFunctionOnSet(g, T) \in Int BY <1>6, SumIsInt
  <2> QED BY <1>7, <2>1
<1> HIDE DEF f, g, h, R, a
<1>9. SumFunctionOnSet(h, T) = SumFunctionOnSet(f, T) + SumFunctionOnSet(g, T) BY <1>6, SumAdds
<1> QED BY <1>1, <1>4, <1>5, <1>7, <1>8, <1>9 DEF h
-----------------------------------------------------------------------------
(* How many labels are alive in a bar.                                     *)
Spanned(ls) == [i \in DOMAIN ls |-> ls[i].t0..ls[i].t1]
Living(ls, t) == Cardinality(Over(Spanned(ls), DOMAIN ls, t))
Born(ls, t) == {i \in DOMAIN ls : ls[i].t0 = t}
Gone(ls, t) == {i \in DOMAIN ls : EndOf(ls[i]) = t}
Change(ls, t) == Cardinality(Born(ls, t)) - Cardinality(Gone(ls, t))

Lives(f, ls, last) == f = [t \in 0..last |-> IF t = 0 THEN Change(ls, 0) ELSE f[t - 1] + Change(ls, t)]

LEMMA LivingFacts ==
  ASSUME NEW ls, NEW last \in Nat, LabelBounds(ls, last), NEW t \in 0..last
  PROVE  /\ Living(ls, t) \in Nat
         /\ t = 0 => Living(ls, t) = Change(ls, t)
         /\ t # 0 => Living(ls, t) = Living(ls, t - 1) + Change(ls, t)
<1> DEFINE D == DOMAIN ls
           O == Over(Spanned(ls), D, t)
           P == Over(Spanned(ls), D, t - 1)
           B == Born(ls, t)
           G == Gone(ls, t)
<1>1. /\ D = 1..Len(ls) /\ IsFiniteSet(D)
      /\ \A i \in D : ls[i].t0 \in Nat /\ ls[i].t1 \in Nat /\ ls[i].t0 < ls[i].t1
  <2>1. ls \in Seq(Range(ls)) BY DEF LabelBounds
  <2>2. D = 1..Len(ls) /\ Len(ls) \in Nat BY <2>1
  <2>3. IsFiniteSet(D)
    <3>1. 1 \in Int /\ Len(ls) \in Int BY <2>2
    <3> HIDE DEF D
    <3> QED BY <2>2, <3>1, FS_Interval
  <2>4. \A i \in 1..Len(ls) : ls[i].t0 \in 0..(last - 1) /\ ls[i].t1 \in (ls[i].t0 + 1)..last
    BY DEF LabelBounds
  <2>5. \A i \in 1..Len(ls) : ls[i].t0 \in Nat /\ ls[i].t1 \in Nat /\ ls[i].t0 < ls[i].t1 BY <2>4
  <2> QED BY <2>2, <2>3, <2>5
<1>2. \A u \in Int : Over(Spanned(ls), D, u) = {i \in D : ls[i].t0 <= u /\ u <= ls[i].t1}
  <2> TAKE u \in Int
  <2>1. \A i \in D : Spanned(ls)[i] = ls[i].t0..ls[i].t1 BY DEF Spanned
  <2>2. \A i \in D : u \in Spanned(ls)[i] <=> ls[i].t0 <= u /\ u <= ls[i].t1 BY <1>1, <2>1
  <2> HIDE DEF D
  <2> QED BY <2>2 DEF Over
<1>3. /\ O = {i \in D : ls[i].t0 <= t /\ t <= ls[i].t1}
      /\ P = {i \in D : ls[i].t0 <= t - 1 /\ t - 1 <= ls[i].t1}
      /\ B = {i \in D : ls[i].t0 = t} /\ G = {i \in D : ls[i].t1 + 1 = t}
  <2>1. t \in Int /\ t - 1 \in Int OBVIOUS
  <2> HIDE DEF D
  <2>2. B = {i \in D : ls[i].t0 = t} /\ G = {i \in D : ls[i].t1 + 1 = t} BY DEF Born, Gone, EndOf, D
  <2> QED BY <1>2, <2>1, <2>2
<1> HIDE DEF D, O, P, B, G
<1>4. O \in SUBSET D /\ P \in SUBSET D /\ B \in SUBSET D /\ G \in SUBSET D BY <1>3
<1>5. \A S \in SUBSET D : IsFiniteSet(S) /\ Cardinality(S) \in Nat BY <1>1, FS_Subset, FS_CardinalityType
<1>6. Living(ls, t) = Cardinality(O) /\ Living(ls, t - 1) = Cardinality(P)
      /\ Change(ls, t) = Cardinality(B) - Cardinality(G)
  BY DEF Living, O, P, D, Change, B, G
<1>7. Living(ls, t) \in Nat BY <1>4, <1>5, <1>6
<1>8. ASSUME t = 0 PROVE Living(ls, t) = Change(ls, t)
  <2>1. O = B /\ G = {} BY <1>1, <1>3, <1>8
  <2>2. Cardinality(G) = 0 BY <2>1, FS_EmptySet
  <2> QED BY <1>4, <1>5, <1>6, <2>1, <2>2
<1>9. ASSUME t # 0 PROVE Living(ls, t) = Living(ls, t - 1) + Change(ls, t)
  <2>1. O \cup G = P \cup B BY <1>1, <1>3
  <2>2. O \cap G = {} /\ P \cap B = {} BY <1>1, <1>3
  <2>3. Cardinality({}) = 0 BY FS_EmptySet
  <2>4. IsFiniteSet(O) /\ IsFiniteSet(G) /\ IsFiniteSet(P) /\ IsFiniteSet(B) BY <1>4, <1>5
  <2>5. Cardinality(O \cup G) = Cardinality(O) + Cardinality(G) - Cardinality(O \cap G)
    BY <2>4, FS_Union
  <2>6. Cardinality(P \cup B) = Cardinality(P) + Cardinality(B) - Cardinality(P \cap B)
    BY <2>4, FS_Union
  <2>7. /\ Cardinality(O) \in Nat /\ Cardinality(G) \in Nat /\ Cardinality(P) \in Nat
        /\ Cardinality(B) \in Nat
    BY <1>4, <1>5
  <2>8. Cardinality(O) + Cardinality(G) = Cardinality(P) + Cardinality(B)
    <3>1. Cardinality(O \cap G) = 0 /\ Cardinality(P \cap B) = 0 BY <2>2, <2>3
    <3>2. Cardinality(O \cup G) = Cardinality(O) + Cardinality(G) BY <2>5, <2>7, <3>1
    <3>3. Cardinality(P \cup B) = Cardinality(P) + Cardinality(B) BY <2>6, <2>7, <3>1
    <3> QED BY <2>1, <3>2, <3>3
  <2> QED BY <1>6, <2>7, <2>8
<1> QED BY <1>7, <1>8, <1>9

LEMMA ConcurrentIsLiving ==
  ASSUME NEW ls, NEW last \in Nat, LabelBounds(ls, last)
  PROVE  \A t \in 0..last : compute_num_concurrent_events(ls, last)[t] = Living(ls, t)
<1> DEFINE c == [t \in 0..last |-> Living(ls, t)]
           f == CHOOSE g : Lives(g, ls, last)
<1>1. compute_num_concurrent_events(ls, last) = [t \in 0..last |-> f[t]]
  BY DEF compute_num_concurrent_events, Lives, Change, Born, Gone
<1>2. Lives(c, ls, last)
  <2>1. \A t \in 0..last : c[t] = IF t = 0 THEN Change(ls, 0) ELSE c[t - 1] + Change(ls, t)
    <3> TAKE t \in 0..last
    <3>1. c[t] = Living(ls, t) /\ (t # 0 => t - 1 \in 0..last /\ c[t - 1] = Living(ls, t - 1)) OBVIOUS
    <3> HIDE DEF c
    <3> QED BY <3>1, LivingFacts
  <2>2. c = [t \in 0..last |-> c[t]] OBVIOUS
  <2> HIDE DEF c
  <2>3. c = [t \in 0..last |-> IF t = 0 THEN Change(ls, 0) ELSE c[t - 1] + Change(ls, t)]
    BY <2>1, <2>2
  <2> QED BY <2>3 DEF Lives
<1>3. Lives(f, ls, last) BY <1>2
<1> HIDE DEF f, c
<1>4. \A t \in 0..last : f[t] = IF t = 0 THEN Change(ls, 0) ELSE f[t - 1] + Change(ls, t)
  BY <1>3, Zenon DEF Lives
<1>5. \A t \in 0..last : f[t] = Living(ls, t)
  <2> DEFINE Bad == {t \in Nat : t <= last /\ f[t] # Living(ls, t)}
  <2>1. SUFFICES ASSUME Bad # {} PROVE FALSE OBVIOUS
  <2>2. PICK t \in Bad : \A u \in Bad : t <= u
    <3>1. Bad \in SUBSET Nat OBVIOUS
    <3> QED BY <2>1, <3>1, LeastExists
  <2>3. t \in 0..last BY <2>2
  <2>4. CASE t = 0
    <3>1. f[t] = Change(ls, t) BY <1>4, <2>3, <2>4
    <3>2. Living(ls, t) = Change(ls, t) BY <2>3, <2>4, LivingFacts
    <3> QED BY <2>2, <3>1, <3>2
  <2>5. CASE t # 0
    <3>1. t - 1 \in Nat /\ t - 1 <= last /\ t - 1 \notin Bad BY <2>2, <2>5
    <3>2. f[t - 1] = Living(ls, t - 1) BY <3>1
    <3>3. f[t] = f[t - 1] + Change(ls, t) BY <1>4, <2>3, <2>5
    <3>4. Living(ls, t) = Living(ls, t - 1) + Change(ls, t) BY <2>3, <2>5, LivingFacts
    <3> QED BY <2>2, <3>2, <3>3, <3>4
  <2> QED BY <2>4, <2>5
<1> QED BY <1>1, <1>5

(* No more labels live in a bar than events fit in the longest label.      *)
LEMMA FewLive ==
  ASSUME NEW ls, NEW last \in Nat, LabelBounds(ls, last), NEW t \in 0..last
  PROVE  Living(ls, t) <= Longest + 1
<1> DEFINE D == DOMAIN ls
           O == Over(Spanned(ls), D, t)
           T == (t - Longest)..t
           f == [i \in O |-> ls[i].t0]
<1>1. Longest \in Nat
  BY LabellingAssumption DEF LabellingAssumption, Longest, Larger
<1>2. D = 1..Len(ls)
  <2>1. ls \in Seq(Range(ls)) BY DEF LabelBounds
  <2> QED BY <2>1
<1>3. \A i \in O : i \in 1..Len(ls) /\ ls[i].t0 <= t /\ t <= ls[i].t1
  <2>1. \A i \in O : i \in D /\ t \in Spanned(ls)[i] /\ Spanned(ls)[i] = ls[i].t0..ls[i].t1
    BY DEF Over, Spanned
  <2> HIDE DEF O, D
  <2>2. \A i \in O : t \in ls[i].t0..ls[i].t1 BY <2>1
  <2>3. \A i \in 1..Len(ls) : ls[i].t0 \in Int /\ ls[i].t1 \in Int
    <3>1. \A i \in 1..Len(ls) : ls[i].t0 \in 0..(last - 1) /\ ls[i].t1 \in (ls[i].t0 + 1)..last
      BY DEF LabelBounds
    <3> QED BY <3>1
  <2> QED BY <1>2, <2>1, <2>2, <2>3
<1> HIDE DEF O
<1>4. \A i \in O : ls[i].t0 \in T
  <2>1. \A i \in 1..Len(ls) : ls[i].t0 \in 0..(last - 1) /\ ls[i].t1 \in (ls[i].t0 + 1)..last
                              /\ ls[i].t1 <= ls[i].t0 + Longest
    BY DEF LabelBounds
  <2> HIDE DEF D
  <2>2. \A i \in O : ls[i].t0 \in Nat /\ ls[i].t1 \in Nat /\ ls[i].t1 <= ls[i].t0 + Longest
    BY <1>3, <2>1
  <2> QED BY <1>1, <1>3, <2>2
<1>5. \A i, j \in O : i # j => ls[i].t0 # ls[j].t0
  <2>1. \A i, j \in 1..Len(ls) : i < j => ls[i].t0 < ls[j].t0 BY DEF LabelBounds
  <2>2. \A i \in O : ls[i].t0 \in Int BY <1>4
  <2>3. \A i, j \in O : i \in Int /\ j \in Int /\ (i # j => i < j \/ j < i) BY <1>3
  <2> QED BY <1>3, <2>1, <2>2, <2>3
<1>6. f \in Injection(O, T) BY <1>4, <1>5 DEF Injection, IsInjective
<1> HIDE DEF f
<1>7. IsFiniteSet(T) /\ Cardinality(T) = Longest + 1
  <2>1. t - Longest \in Int /\ t \in Int /\ ~(t - Longest > t) /\ t - (t - Longest) + 1 = Longest + 1 BY <1>1
  <2> QED BY <2>1, FS_Interval
<1> HIDE DEF T
<1>8. Cardinality(O) <= Cardinality(T) BY <1>6, <1>7, FS_Injection
<1> QED BY <1>7, <1>8 DEF Living, O, D

Covered(ls) == UNION {ls[i].t0..ls[i].t1 : i \in DOMAIN ls}

LEMMA SharesAddUp ==
  ASSUME \A n \in 1..(Longest + 1) : Shares % n = 0,
         NEW ls, NEW last \in Nat, LabelBounds(ls, last)
  PROVE  LET c == compute_num_concurrent_events(ls, last)
         IN  /\ \A t \in Covered(ls) : c[t] > 0
             /\ SumFunction([i \in DOMAIN ls |-> PartsOf(ls[i], c)]) = Shares * Cardinality(Covered(ls))
<1> DEFINE c == compute_num_concurrent_events(ls, last)
           D == DOMAIN ls
           I == Spanned(ls)
           T == Covered(ls)
           w == [t \in T |-> Shares \div c[t]]
           p == [i \in D |-> PartsOf(ls[i], c)]
           q == Counted(I, w, D, T)
<1>1. D = 1..Len(ls) /\ IsFiniteSet(D)
  <2>1. ls \in Seq(Range(ls)) BY DEF LabelBounds
  <2>2. D = 1..Len(ls) /\ Len(ls) \in Nat BY <2>1
  <2>3. 1 \in Int /\ Len(ls) \in Int BY <2>2
  <2> HIDE DEF D
  <2> QED BY <2>2, <2>3, FS_Interval
<1>2. \A i \in D : I[i] = ls[i].t0..ls[i].t1 /\ I[i] \in SUBSET T BY DEF Spanned, Covered
<1>3. T \in SUBSET (0..last)
  <2>1. \A i \in 1..Len(ls) : ls[i].t0 \in 0..(last - 1) /\ ls[i].t1 \in (ls[i].t0 + 1)..last
    BY DEF LabelBounds
  <2>2. \A i \in D : ls[i].t0..ls[i].t1 \in SUBSET (0..last) BY <1>1, <2>1
  <2> QED BY <2>2 DEF Covered
<1>4. IsFiniteSet(T)
  <2>1. 0 \in Int /\ last \in Int OBVIOUS
  <2>2. IsFiniteSet(0..last) BY <2>1, FS_Interval
  <2> HIDE DEF T
  <2> QED BY <1>3, <2>2, FS_Subset
<1>5. \A t \in T : c[t] = Living(ls, t) /\ c[t] \in 1..(Longest + 1)
  <2> TAKE t \in T
  <2>1. t \in 0..last BY <1>3
  <2>2. c[t] = Living(ls, t) BY <2>1, ConcurrentIsLiving
  <2>3. Living(ls, t) \in Nat BY <2>1, LivingFacts
  <2>4. Living(ls, t) <= Longest + 1 BY <2>1, FewLive
  <2>5. Living(ls, t) # 0
    <3>1. PICK i \in D : t \in I[i] BY <1>2 DEF Covered
    <3>2. i \in Over(I, D, t) /\ Over(I, D, t) \in SUBSET D BY <3>1 DEF Over
    <3>3. IsFiniteSet(Over(I, D, t)) BY <1>1, <3>2, FS_Subset
    <3>4. Cardinality(Over(I, D, t)) # 0 BY <3>2, <3>3, FS_EmptySet
    <3> QED BY <3>4 DEF Living
  <2>6. Longest \in Nat BY LabellingAssumption DEF LabellingAssumption, Longest, Larger
  <2> HIDE DEF c
  <2> QED BY <2>2, <2>3, <2>4, <2>5, <2>6
<1> HIDE DEF c, T
<1>6. \A t \in T : w[t] \in Int /\ c[t] * w[t] = Shares
  <2> TAKE t \in T
  <2>1. c[t] \in Nat \ {0} /\ Shares % c[t] = 0
    <3>1. Longest \in Nat BY LabellingAssumption DEF LabellingAssumption, Longest, Larger
    <3>2. c[t] \in 1..(Longest + 1) BY <1>5
    <3> QED BY <3>1, <3>2
  <2>2. Shares \in Nat BY LabellingAssumption DEF LabellingAssumption
  <2>3. \A a \in Nat, b \in Nat \ {0} : a % b = 0 => a \div b \in Int /\ b * (a \div b) = a OBVIOUS
  <2>4. w[t] = Shares \div c[t] OBVIOUS
  <2> HIDE DEF w
  <2> QED BY <2>1, <2>2, <2>3, <2>4
<1>7. \A i \in D : p[i] = SumFunctionOnSet(w, I[i])
  <2> TAKE i \in D
  <2> DEFINE v == [t \in ls[i].t0..ls[i].t1 |-> Shares \div c[t]]
  <2>1. p[i] = SumFunctionOnSet(v, I[i])
    <3>1. p[i] = SumFunction(v) BY DEF PartsOf
    <3>2. DOMAIN v = I[i] BY <1>2
    <3> HIDE DEF v, I, p
    <3> QED BY <3>1, <3>2 DEF SumFunction
  <2>2. IsFiniteSet(I[i]) BY <1>2, <1>4, FS_Subset
  <2>3. \A t \in I[i] : v[t] = w[t] BY <1>2
  <2> HIDE DEF v, w, I, p
  <2> QED BY <2>1, <2>2, <2>3, SumAgrees
<1>8. SumFunction(p) = SumFunctionOnSet(p, D)
  <2>1. DOMAIN p = D OBVIOUS
  <2> HIDE DEF p
  <2> QED BY <2>1 DEF SumFunction
<1>9. \A t \in T : q[t] = Shares
  <2> TAKE t \in T
  <2>1. q[t] = Living(ls, t) * w[t] BY DEF Counted, Living
  <2> HIDE DEF q, w
  <2> QED BY <1>5, <1>6, <2>1
<1> HIDE DEF p, q, w, I, D
<1>10. SumFunctionOnSet(p, D) = SumFunctionOnSet(q, T)
  <2>1. \A t \in T : w[t] \in Int BY <1>6
  <2>2. \A i \in D : I[i] \in SUBSET T BY <1>2
  <2> QED BY <1>1, <1>4, <1>7, <2>1, <2>2, CountedTwice DEF q
<1>11. Shares \in Int BY LabellingAssumption DEF LabellingAssumption
<1>12. SumFunctionOnSet(q, T) = Shares * Cardinality(T) BY <1>4, <1>9, <1>11, SumOfSame
<1>13. \A t \in T : c[t] > 0
  <2>1. Longest \in Nat BY LabellingAssumption DEF LabellingAssumption, Longest, Larger
  <2> QED BY <1>5, <2>1
<1> QED BY <1>8, <1>10, <1>12, <1>13 DEF p, D, c, T

(* Every bar that a label covers is handed out exactly once among the      *)
(* labels it lies under: compute_num_concurrent_events counts the labels   *)
(* that are alive in it, and compute_average_uniqueness gives each of them *)
(* one part in as many (sample_weights.py).  The shares of the model       *)
(* divide evenly because no more than Longest + 1 labels live in one bar.  *)
THEOREM EachBarIsSharedOnce ==
  ASSUME \A n \in 1..(Longest + 1) : Shares % n = 0
  PROVE  Spec => []BarsAreSharedOnce
<1>1. ResearchInv => BarsAreSharedOnce
  <2> SUFFICES ASSUME ResearchInv PROVE BarsAreSharedOnce OBVIOUS
  <2>1. LabelBounds(labels, LastOf) /\ LastOf \in Nat BY LastIsNat DEF ResearchInv, SeriesOk
  <2> QED BY <2>1, SharesAddUp DEF BarsAreSharedOnce, Covered
<1> QED BY <1>1, PipelineInOrder, PTL
=============================================================================
