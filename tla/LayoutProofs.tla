---------------------------- MODULE LayoutProofs ----------------------------
(***************************************************************************)
(* The frames fit every display of 200 pixels or more whose width is at    *)
(* least 1.3 times its height: linear arithmetic, with each division by a  *)
(* constant replaced by its quotient and remainder.  Before that, what the *)
(* proofs about the display need of induction and of running sums.         *)
(***************************************************************************)
EXTENDS Layout, FiniteSetTheorems, TLAPS

-----------------------------------------------------------------------------
(* Induction.  A set takes the place of the predicate.                      *)

\* A set of numbers that is not empty has a least one.
LEMMA LeastNumber ==
  ASSUME NEW T \in SUBSET Nat, NEW m \in T
  PROVE  \E n \in T : \A i \in 0..n - 1 : i \notin T
<1> DEFINE S == {i \in 0..m : \A j \in 0..i : j \notin T}
           c == Cardinality(S)
<1>1. m \in Nat /\ S \subseteq 0..m - 1
  OBVIOUS
<1>2. \A i \in S : i \in Nat /\ \A j \in 0..i : j \in S
  OBVIOUS
<1>3. \A i \in 0..m : (\A j \in 0..i : j \notin T) => i \in S
  OBVIOUS
<1>4. \A i \in S : i \notin T
  OBVIOUS
<1> HIDE DEF S
<1>5. /\ IsFiniteSet(S) /\ c \in Nat /\ c \leq m
      /\ \A n \in Nat : S \subseteq 0..n - 1 => c \leq n
  <2>1. \A n \in Nat : IsFiniteSet(0..n - 1) /\ Cardinality(0..n - 1) = n
    BY FS_Interval
  <2>2. ASSUME NEW n \in Nat, S \subseteq 0..n - 1 PROVE IsFiniteSet(S) /\ c \leq n
    <3>1. IsFiniteSet(0..n - 1) /\ Cardinality(0..n - 1) = n /\ S \in SUBSET (0..n - 1)
      BY <2>1, <2>2
    <3>2. IsFiniteSet(S) /\ Cardinality(S) \leq Cardinality(0..n - 1)
      BY <3>1, FS_Subset
    <3> QED BY <3>1, <3>2
  <2>3. IsFiniteSet(S)
    BY <1>1, <2>2
  <2> QED BY <1>1, <2>2, <2>3, FS_CardinalityType
<1>6. c \notin S
  <2>1. SUFFICES ASSUME c \in S PROVE FALSE
    OBVIOUS
  <2>2. 0..c \in SUBSET S
    BY <1>2, <2>1
  <2>3. Cardinality(0..c) = c + 1
    BY <1>5, FS_Interval
  <2>4. Cardinality(0..c) \leq c
    BY <1>5, <2>2, FS_Subset
  <2> HIDE DEF c
  <2> QED BY <1>5, <2>3, <2>4
<1> HIDE DEF c
<1>7. ASSUME NEW i \in 0..c - 1 PROVE i \in S
  <2>1. SUFFICES ASSUME i \notin S PROVE FALSE
    OBVIOUS
  <2>2. S \subseteq 0..i - 1
    <3>1. SUFFICES ASSUME NEW k \in S PROVE k \in 0..i - 1
      OBVIOUS
    <3>2. k \in Nat /\ ~(i \in 0..k)
      BY <1>2, <2>1, <3>1
    <3> QED BY <1>5, <3>2
  <2>3. i \in Nat /\ i < c
    BY <1>5
  <2> QED BY <1>5, <2>2, <2>3
<1>8. c \in 0..m
  BY <1>1, <1>5
<1>9. PICK j \in 0..c : j \in T
  BY <1>3, <1>6, <1>8
<1>10. j = c
  <2>1. j \in 0..c - 1 => j \notin T
    BY <1>4, <1>7
  <2> QED BY <1>5, <1>9, <2>1
<1> QED BY <1>4, <1>7, <1>9, <1>10

\* What holds at 0 and is handed on to the next number holds up to m.
LEMMA Induction ==
  ASSUME NEW m \in Nat, NEW S, 0 \in S, \A n \in 1..m : n - 1 \in S => n \in S
  PROVE  0..m \subseteq S
<1> DEFINE T == (0..m) \ S
<1>1. SUFFICES ASSUME T # {} PROVE FALSE
  OBVIOUS
<1>2. T \in SUBSET Nat
  OBVIOUS
<1>3. PICK n \in T : \A i \in 0..n - 1 : i \notin T
  <2> HIDE DEF T
  <2> QED BY <1>1, <1>2, LeastNumber
<1>4. n \in 1..m /\ n - 1 \in 0..n - 1 /\ n - 1 \in 0..m
  BY <1>3
<1>5. n - 1 \in S
  BY <1>3, <1>4
<1> QED BY <1>3, <1>4, <1>5

\* f[n] is the sum of the first n of the m values of v.
Sums(f, v, m) == f[0] = 0 /\ \A i \in 1..m : f[i] = f[i - 1] + v[i]

\* A set that is closed under sums, and values from it.
Adds(D) == 0 \in D /\ \A a, b \in D : a + b \in D
Values(v, m, D) == \A i \in 1..m : v[i] \in D

LEMMA RunningSums ==
  ASSUME NEW D, Adds(D), NEW m \in Nat, NEW v, Values(v, m, D)
  PROVE  \E f \in [0..m -> D] : Sums(f, v, m)
<1>0. 0 \in D /\ \A a, b \in D : a + b \in D
  BY DEF Adds
<1> DEFINE Upto(n, f) == f[0] = 0 /\ \A i \in 1..n : f[i] = f[i - 1] + v[i]
           S == {n \in 0..m : \E f \in [0..n -> D] : Upto(n, f)}
<1>1. m \in Nat /\ \A i \in 1..m : v[i] \in D
  BY DEF Values
<1>2. 0 \in S
  <2>1. [i \in 0..0 |-> 0] \in [0..0 -> D] /\ Upto(0, [i \in 0..0 |-> 0])
    BY <1>0
  <2>2. \E f \in [0..0 -> D] : Upto(0, f)
    BY <2>1
  <2> HIDE DEF Upto
  <2> QED BY <1>1, <2>2
<1>3. ASSUME NEW n \in 1..m, n - 1 \in S PROVE n \in S
  <2>1. PICK f \in [0..n - 1 -> D] : Upto(n - 1, f)
    BY <1>3
  <2> DEFINE g == [i \in 0..n |-> IF i = n THEN f[n - 1] + v[n] ELSE f[i]]
  <2>2. n \in Nat /\ n - 1 \in 0..n - 1 /\ f[n - 1] \in D
    BY <2>1
  <2>3. g \in [0..n -> D]
    BY <1>0, <1>1, <2>1, <2>2
  <2>4. g[n] = f[n - 1] + v[n] /\ \A i \in 0..n - 1 : g[i] = f[i]
    <3>1. \A i \in 0..n - 1 : i \in 0..n /\ i # n
      BY <2>2
    <3> QED BY <2>2, <3>1
  <2> HIDE DEF g
  <2>5. ASSUME NEW i \in 1..n PROVE g[i] = g[i - 1] + v[i]
    <3>1. i - 1 \in 0..n - 1 /\ (i = n \/ (i \in 1..n - 1 /\ i \in 0..n - 1))
      <4> HIDE DEF S
      <4>1. n \in Int /\ i \in Int /\ 1 \leq i /\ i \leq n
        BY <1>1
      <4> QED BY <4>1
    <3>2. CASE i = n
      BY <2>4, <3>1, <3>2
    <3>3. CASE i # n
      BY <2>1, <2>4, <3>1, <3>3
    <3> QED BY <3>2, <3>3
  <2>6. Upto(n, g)
    <3>1. 0 \in 0..n - 1
      BY <2>2
    <3> QED BY <2>1, <2>4, <2>5, <3>1
  <2> HIDE DEF Upto
  <2>7. \E h \in [0..n -> D] : Upto(n, h)
    BY <2>3, <2>6
  <2>8. n \in 0..m
    BY <1>1
  <2> QED BY <2>7, <2>8
<1>4. m \in S
  <2> HIDE DEF S
  <2>1. 0..m \subseteq S
    BY <1>1, <1>2, <1>3, Induction
  <2> QED BY <1>1, <2>1
<1>5. PICK f \in [0..m -> D] : Upto(m, f)
  BY <1>4
<1> QED BY <1>5 DEF Sums

\* There are no others.
LEMMA SameSums ==
  ASSUME NEW m \in Nat, NEW v, NEW f, NEW g, Sums(f, v, m), Sums(g, v, m)
  PROVE  \A n \in 0..m : f[n] = g[n]
<1> DEFINE S == {n \in 0..m : f[n] = g[n]}
<1>1. 0 \in S
  BY DEF Sums
<1>2. ASSUME NEW n \in 1..m, n - 1 \in S PROVE n \in S
  BY <1>2 DEF Sums
<1>3. 0..m \subseteq S
  <2> HIDE DEF S
  <2> QED BY <1>1, <1>2, Induction
<1> QED BY <1>3

-----------------------------------------------------------------------------
(* The frames.                                                              *)

\* The sizes for which the theorems hold: those of a panel that lies on its side.
Wide(w, h) == w \in Nat /\ h \in Nat /\ h \geq 200 /\ 10 * w \geq 13 * h

\* The story's five regions are on the panel, large enough for FBInk, and follow each other
\* downwards (newStoryLayout).
THEOREM StoryOnPanel ==
  ASSUME NEW w, NEW h, Wide(w, h)
  PROVE  StoryFits(w, h)
  BY DEF Wide, StoryFits, StoryGenre, StoryRule, StoryTitle, StoryDescription, StorySource,
         StoryBand, StoryLeft, StoryWidth, Line, Percent, PerMille, AtLeast, AtMost,
         Drawable, Within, Above, Region, Bottom, Right

\* The label of a genre and the title of an alert, whose sizes do not follow the panel
\* (ShowGenreScreen, ShowTitle).
THEOREM LabelsOnPanel ==
  ASSUME NEW w, NEW h, Wide(w, h)
  PROVE  LabelsFit(w, h)
  BY DEF Wide, LabelsFit, GenreBox, GenreFont, AlertFont, Percent, AtLeast,
         Drawable, Within, Region, Bottom, Right

\* The bands of the dashboard.
LEMMA Bands ==
  ASSUME NEW w, NEW h, Wide(w, h)
  PROVE  /\ \A r \in {Clock(w, h), ClockRule(w, h), Date(w, h), Divider(w, h), Climate(w, h)} :
              Drawable(r, w, h)
         /\ Above(Clock(w, h), ClockRule(w, h)) /\ Above(ClockRule(w, h), Date(w, h))
         /\ Above(Date(w, h), Divider(w, h)) /\ Above(Divider(w, h), Climate(w, h))
  BY DEF Wide, Clock, ClockRule, Date, Divider, Climate, Band, MarginX, ContentW, Line,
         Percent, PerMille, AtLeast, Drawable, Within, Above, Region, Bottom, Right

\* What the columns need of the widths: four of them and three gutters fit the content.
LEMMA Columns ==
  ASSUME NEW w, NEW h, Wide(w, h)
  PROVE  /\ MarginX(w) \in Nat /\ ColW(w) \in Nat /\ Gutter(w) \in Nat /\ DivW(w) \in Nat
         /\ ColW(w) \geq 20 /\ DivW(w) \geq 2 /\ Gutter(w) \geq DivW(w) + 4
         /\ MarginX(w) + 4 * ColW(w) + 3 * Gutter(w) \leq w
  BY DEF Wide, ColW, Gutter, DivW, ContentW, MarginX, Percent, PerMille, AtLeast

\* What the parts of a column need of the heights.
LEMMA Heights ==
  ASSUME NEW w, NEW h, Wide(w, h)
  PROVE  /\ MetricsH(h) \in Nat /\ Line(h) \in Nat /\ Percent(h, 76) \in Nat
         /\ Line(h) \geq 2 /\ MetricsH(h) \geq 46
         /\ Line(h) + Percent(MetricsH(h), 19) \leq Percent(MetricsH(h), 25)
         /\ Percent(h, 67) + Percent(h, 8) \leq Percent(h, 76)
         /\ Percent(h, 76) + MetricsH(h) \leq h
  BY DEF Wide, MetricsH, Line, Percent, PerMille, AtLeast

\* Column i lies between the margins, and each is a gutter away from the next.
LEMMA Lefts ==
  ASSUME NEW w, NEW h, Wide(w, h), NEW i \in 0..3
  PROVE  /\ ColLeft(w, i) \in Nat
         /\ ColLeft(w, i) + ColW(w) \leq w
         /\ i < 3 => /\ ColLeft(w, i + 1) = ColLeft(w, i) + ColW(w) + Gutter(w)
                     /\ ColLeft(w, i) + ColW(w) + Gutter(w) \leq w
<1> DEFINE m == MarginX(w)
           c == ColW(w)
           g == Gutter(w)
<1>1. m \in Nat /\ c \in Nat /\ g \in Nat /\ m + 4 * c + 3 * g \leq w /\ w \in Nat
  BY Columns DEF Wide
<1>2. \A k \in Int : ColLeft(w, k) = m + k * (c + g)
  BY DEF ColLeft
<1> HIDE DEF m, c, g
<1>3. \A k \in 0..3 : k = 0 \/ k = 1 \/ k = 2 \/ k = 3
  OBVIOUS
<1>4. /\ ColLeft(w, 0) = m /\ ColLeft(w, 1) = m + c + g
      /\ ColLeft(w, 2) = m + 2 * c + 2 * g /\ ColLeft(w, 3) = m + 3 * c + 3 * g
  BY <1>1, <1>2
<1>5. /\ ColLeft(w, i) \in Nat
      /\ ColLeft(w, i) + c \leq w
      /\ i < 3 => ColLeft(w, i + 1) = ColLeft(w, i) + c + g /\ ColLeft(w, i) + c + g \leq w
  BY <1>1, <1>3, <1>4
<1> QED
  BY <1>5 DEF c, g

\* A part of column i that is no wider than it, between top and bottom of the strip.
LEMMA PartInside ==
  ASSUME NEW w, NEW h, Wide(w, h), NEW i \in 0..3,
         NEW top \in Nat, NEW height \in Nat, height \geq 2,
         top + height \leq MetricsH(h)
  PROVE  LET r == Region(Percent(h, 76) + top, ColLeft(w, i), ColW(w), height)
         IN  Drawable(r, w, h) /\ Within(r, Metric(w, h, i))
<1>1. /\ ColLeft(w, i) \in Nat /\ ColW(w) \in Nat /\ ColW(w) \geq 20
      /\ ColLeft(w, i) + ColW(w) \leq w
  BY Columns, Lefts
<1>2. /\ Percent(h, 76) \in Nat /\ MetricsH(h) \in Nat
      /\ Percent(h, 76) + MetricsH(h) \leq h
  BY Heights
<1>3. Percent(MetricsH(h), 0) = 0 /\ Percent(MetricsH(h), 100) = MetricsH(h)
  BY <1>2 DEF Percent
<1> QED
  BY <1>1, <1>2, <1>3 DEF Wide, Metric, Cell, Drawable, Within, Region, Bottom, Right

\* Each part of a column is one.
LEMMA Parts ==
  ASSUME NEW w, NEW h, Wide(w, h), NEW i \in 0..3
  PROVE  \A r \in {MetricLabel(w, h, i), MetricRule(w, h, i), MetricNumber(w, h, i),
                   MetricUnit(w, h, i)} : Drawable(r, w, h) /\ Within(r, Metric(w, h, i))
<1> DEFINE H == MetricsH(h)
<1>1. H \in Nat /\ H \geq 46 /\ Line(h) \in Nat /\ Line(h) \geq 2
      /\ Line(h) + Percent(H, 19) \leq Percent(H, 25)
  BY Heights
<1>2. \A p \in {0, 16, 18, 19, 25, 46, 76} : Percent(H, p) \in Nat
  BY <1>1 DEF Percent
<1>3. /\ Percent(H, 0) + Percent(H, 16) \leq H /\ Percent(H, 25) + Percent(H, 46) \leq H
      /\ Percent(H, 76) + Percent(H, 18) \leq H /\ Percent(H, 19) + Line(h) \leq H
      /\ Percent(H, 16) \geq 2 /\ Percent(H, 46) \geq 2 /\ Percent(H, 18) \geq 2
  BY <1>1 DEF Percent
<1> HIDE DEF H
<1>4. \A r \in {MetricLabel(w, h, i), MetricNumber(w, h, i), MetricUnit(w, h, i)} :
        Drawable(r, w, h) /\ Within(r, Metric(w, h, i))
  BY <1>2, <1>3, PartInside DEF MetricLabel, MetricNumber, MetricUnit, Cell, H
<1>5. Drawable(MetricRule(w, h, i), w, h) /\ Within(MetricRule(w, h, i), Metric(w, h, i))
  <2> DEFINE strip == Region(Percent(h, 76) + Percent(H, 19), ColLeft(w, i), ColW(w), Line(h))
             rule == MetricRule(w, h, i)
  <2>1. Drawable(strip, w, h) /\ Within(strip, Metric(w, h, i))
    BY <1>1, <1>2, <1>3, PartInside DEF H
  <2>2. /\ ColW(w) \in Nat /\ ColW(w) \geq 20 /\ ColLeft(w, i) \in Nat
        /\ Percent(h, 76) \in Nat /\ H \in Nat
    BY <1>1, Columns, Lefts, Heights
  <2>3. /\ rule.top = strip.top /\ rule.height = strip.height
        /\ rule.left \in Nat /\ rule.width \in Nat
        /\ rule.left \geq strip.left /\ rule.width \geq 2
        /\ rule.left + rule.width \leq strip.left + strip.width
    BY <2>2 DEF MetricRule, Region, Percent, AtLeast, H
  <2>4. strip.top \in Nat /\ strip.height \in Nat /\ strip.left \in Nat /\ strip.width \in Nat
    BY <1>1, <1>2, <2>2 DEF Region
  <2>5. /\ w \in Nat /\ h \in Nat
        /\ Metric(w, h, i).top \in Nat /\ Metric(w, h, i).left \in Nat
        /\ Metric(w, h, i).width \in Nat /\ Metric(w, h, i).height \in Nat
    BY <1>1, <2>2 DEF Wide, Metric, Cell, Region, Percent, H
  <2> HIDE DEF strip, rule
  <2>6. Drawable(rule, w, h) /\ Within(rule, Metric(w, h, i))
    BY <2>1, <2>3, <2>4, <2>5 DEF Drawable, Within, Bottom, Right, Region
  <2> QED
    BY <2>6 DEF rule
<1> QED
  BY <1>4, <1>5

\* They follow each other downwards, below the climate.
LEMMA PartsInOrder ==
  ASSUME NEW w, NEW h, Wide(w, h), NEW i \in 0..3
  PROVE  /\ Above(Climate(w, h), Metric(w, h, i))
         /\ Above(MetricLabel(w, h, i), MetricRule(w, h, i))
         /\ Above(MetricRule(w, h, i), MetricNumber(w, h, i))
         /\ Above(MetricNumber(w, h, i), MetricUnit(w, h, i))
<1>1. /\ MetricsH(h) \in Nat /\ Line(h) \in Nat /\ Percent(h, 76) \in Nat
      /\ Line(h) + Percent(MetricsH(h), 19) \leq Percent(MetricsH(h), 25)
      /\ Percent(h, 67) + Percent(h, 8) \leq Percent(h, 76)
  BY Heights
<1>2. Above(Climate(w, h), Metric(w, h, i))
  BY <1>1 DEF Climate, Band, Metric, Cell, Above, Region, Bottom, Percent, Wide
<1>3. /\ Above(MetricLabel(w, h, i), MetricRule(w, h, i))
      /\ Above(MetricRule(w, h, i), MetricNumber(w, h, i))
      /\ Above(MetricNumber(w, h, i), MetricUnit(w, h, i))
  <2> DEFINE H == MetricsH(h)
             t == Percent(h, 76)
             l == Line(h)
  <2>1. H \in Nat /\ t \in Nat /\ l \in Nat /\ l + Percent(H, 19) \leq Percent(H, 25)
    BY <1>1
  <2>2. /\ MetricLabel(w, h, i).top = t + Percent(H, 0)
        /\ MetricLabel(w, h, i).height = Percent(H, 16)
        /\ MetricRule(w, h, i).top = t + Percent(H, 19) /\ MetricRule(w, h, i).height = l
        /\ MetricNumber(w, h, i).top = t + Percent(H, 25)
        /\ MetricNumber(w, h, i).height = Percent(H, 46)
        /\ MetricUnit(w, h, i).top = t + Percent(H, 76)
    BY DEF MetricLabel, MetricRule, MetricNumber, MetricUnit, Cell, Region
  <2> HIDE DEF H, t, l
  <2> QED
    BY <2>1, <2>2 DEF Above, Bottom, Percent
<1> QED
  BY <1>2, <1>3

\* A divider stands in the gutter between two columns.
LEMMA Dividers ==
  ASSUME NEW w, NEW h, Wide(w, h), NEW i \in 0..2
  PROVE  /\ Drawable(MetricDivider(w, h, i), w, h)
         /\ LeftOf(Metric(w, h, i), MetricDivider(w, h, i))
         /\ LeftOf(MetricDivider(w, h, i), Metric(w, h, i + 1))
<1> DEFINE H == MetricsH(h)
           t == Percent(h, 76)
           g == Gutter(w)
           v == DivW(w)
           c == ColW(w)
           x == ColLeft(w, i)
           d == MetricDivider(w, h, i)
<1>1. /\ w \in Nat /\ h \in Nat /\ H \in Nat /\ H \geq 46 /\ t \in Nat /\ t + H \leq h
      /\ g \in Nat /\ v \in Nat /\ c \in Nat /\ v \geq 2 /\ g \geq v + 4
      /\ x \in Nat /\ x + c + g \leq w /\ ColLeft(w, i + 1) = x + c + g
  <2>1. i \in 0..3 /\ i < 3
    OBVIOUS
  <2>2. /\ x \in Nat /\ x + c + g \leq w /\ ColLeft(w, i + 1) = x + c + g
    BY <2>1, Lefts
  <2>3. w \in Nat /\ h \in Nat
    BY DEF Wide
  <2> QED
    BY <2>2, <2>3, Columns, Heights
<1>2. /\ d.left = x + c + (g - v) \div 2 /\ d.width = v
      /\ d.top = t + Percent(H, 16) /\ d.height = AtLeast(2, Percent(H, 68))
  BY DEF MetricDivider, Region
<1>3. /\ Metric(w, h, i).left = x /\ Metric(w, h, i).width = c
      /\ Metric(w, h, i + 1).left = x + c + g
  BY <1>1 DEF Metric, Cell, Region
<1> HIDE DEF H, t, g, v, c, x, d
<1>4. /\ Drawable(d, w, h)
      /\ LeftOf(Metric(w, h, i), d) /\ LeftOf(d, Metric(w, h, i + 1))
  BY <1>1, <1>2, <1>3 DEF Percent, AtLeast, Drawable, Within, LeftOf, Region, Bottom, Right
<1> QED
  BY <1>4 DEF d

\* The dashboard: no region is off the panel or a pixel thin, and none overlaps the next
\* (newDashboardLayout, drawStaticChrome).
THEOREM DashboardOnPanel ==
  ASSUME NEW w, NEW h, Wide(w, h)
  PROVE  DashboardFits(w, h)
  BY Bands, Parts, PartsInOrder, Dividers DEF DashboardFits

\* The clock's box, of which drawClock knows no more.
LEMMA ClockBox ==
  ASSUME NEW w, NEW h, Wide(w, h)
  PROVE  LET b == Clock(w, h)
         IN  /\ b \in [top : Nat, left : Nat, width : Nat, height : Nat]
             /\ b.height \geq 110 /\ 10 * b.width \geq 23 * b.height - 20
             /\ Within(b, Region(0, 0, w, h))
  BY DEF Wide, Clock, Percent, Within, Region, Bottom, Right

\* There is room for the period: half of the width is never taken from the time.
LEMMA Rooms ==
  ASSUME NEW b \in [top : Nat, left : Nat, width : Nat, height : Nat],
         b.height \geq 110, 10 * b.width \geq 23 * b.height - 20
  PROVE  /\ PeriodSize(b) \in Nat /\ PeriodSize(b) \geq 2 /\ 10 * PeriodSize(b) \leq b.height
         /\ Gap(b) \in Nat
         /\ PeriodWidth(b) = 2 * PeriodSize(b)
         /\ TimeAvailW(b) = b.width - Gap(b) - 2 * PeriodSize(b)
         /\ TimeAvailW(b) \in Nat /\ TimeAvailW(b) \geq 50
<1>1. b.height \in Nat /\ b.width \in Nat
  OBVIOUS
<1>2. PeriodSize(b) \in Nat /\ PeriodSize(b) \geq 2 /\ 10 * PeriodSize(b) \leq b.height
  BY <1>1 DEF PeriodSize, Percent, AtLeast
<1>3. Gap(b) \in Nat /\ Gap(b) \geq 6 /\ (Gap(b) = 6 \/ 1000 * Gap(b) \leq 6 * b.width)
  BY <1>1 DEF Gap, PerMille, AtLeast
<1>4. (PeriodSize(b) * 20) \div 10 = 2 * PeriodSize(b)
  BY <1>2
<1>5. ~Squeezed(b) /\ b.width - Gap(b) - 2 * PeriodSize(b) \geq 50
  BY <1>1, <1>2, <1>3, <1>4 DEF Squeezed
<1>6. /\ TimeAvailW(b) = b.width - Gap(b) - 2 * PeriodSize(b)
      /\ PeriodWidth(b) = 2 * PeriodSize(b)
  BY <1>4, <1>5 DEF TimeAvailW, PeriodWidth
<1> QED
  BY <1>1, <1>2, <1>3, <1>5, <1>6

\* The time is no wider than what is available, nor than its glyphs in the largest face.
LEMMA TimeWidth ==
  ASSUME NEW b \in [top : Nat, left : Nat, width : Nat, height : Nat],
         b.height \geq 110, 10 * b.width \geq 23 * b.height - 20,
         NEW glyphs \in {4, 5}
  PROVE  LET t == TimeBox(b, glyphs)
         IN  /\ t.top = b.top /\ t.height = b.height
             /\ t.width \in Nat /\ t.width \geq 2 /\ t.width \leq TimeAvailW(b)
             /\ t.left = b.left + (b.width - t.width) \div 2
             /\ glyphs = 4 => 1000 * t.width \leq 1843 * b.height
<1> DEFINE H == b.height
           A == TimeAvailW(b)
           F == TimeFont(b, glyphs)
           T == TimeBox(b, glyphs)
<1>1. H \in Nat /\ H \geq 110 /\ b.width \in Nat /\ A \in Nat /\ A \geq 50
  BY Rooms
<1>2. CASE glyphs = 4
  <2>1. F = AtLeast(1, AtMost((A * 100) \div 184, Percent(H, 98)))
    BY <1>2 DEF TimeFont
  <2>2. /\ T.width = AtMost(A, Percent(F, 176) + Percent(F, 12))
        /\ T.left = b.left + (b.width - T.width) \div 2
        /\ T.top = b.top /\ T.height = b.height
    BY <1>2 DEF TimeBox, Region
  <2> HIDE DEF H, A, F, T
  <2>3. F \in Nat /\ F \geq 20 /\ 100 * F \leq 98 * H
    BY <1>1, <2>1 DEF Percent, AtLeast, AtMost
  <2>4. T.width \in Nat /\ T.width \geq 2 /\ T.width \leq A /\ 1000 * T.width \leq 1843 * H
    BY <1>1, <2>2, <2>3 DEF Percent, AtMost
  <2> QED
    BY <2>2, <2>4 DEF H, A, T
<1>3. CASE glyphs = 5
  <2>1. F = AtLeast(1, AtMost((A * 100) \div 228, Percent(H, 98)))
    BY <1>3 DEF TimeFont
  <2>2. /\ T.width = AtMost(A, Percent(F, 220) + Percent(F, 12))
        /\ T.left = b.left + (b.width - T.width) \div 2
        /\ T.top = b.top /\ T.height = b.height
    BY <1>3 DEF TimeBox, Region
  <2> HIDE DEF H, A, F, T
  <2>3. F \in Nat /\ F \geq 20
    BY <1>1, <2>1 DEF Percent, AtLeast, AtMost
  <2>4. T.width \in Nat /\ T.width \geq 2 /\ T.width \leq A
    BY <1>1, <2>2, <2>3 DEF Percent, AtMost
  <2> QED
    BY <1>3, <2>2, <2>4 DEF H, A, T
<1> QED
  BY <1>2, <1>3

\* Time and period stay in the clock's box; the period of a one-digit hour is beside its time
\* (drawClock).
THEOREM ClockOnPanel ==
  ASSUME NEW w, NEW h, Wide(w, h)
  PROVE  ClockFits(w, h)
<1> DEFINE b == Clock(w, h)
<1>1. /\ b \in [top : Nat, left : Nat, width : Nat, height : Nat]
      /\ b.height \geq 110 /\ 10 * b.width \geq 23 * b.height - 20
      /\ Within(b, Region(0, 0, w, h)) /\ w \in Nat /\ h \in Nat
  BY ClockBox DEF Wide
<1> HIDE DEF b
<1>2. SUFFICES ASSUME NEW glyphs \in {4, 5}
               PROVE  LET t == TimeBox(b, glyphs)
                          p == PeriodBox(b, glyphs)
                      IN  /\ Within(t, b) /\ Within(p, b)
                          /\ Drawable(t, w, h) /\ Drawable(p, w, h)
                          /\ PeriodSize(b) \leq p.height
                          /\ glyphs = 4 => LeftOf(t, p)
  BY DEF ClockFits, b
<1> DEFINE t == TimeBox(b, glyphs)
           p == PeriodBox(b, glyphs)
           P == PeriodSize(b)
           G == Gap(b)
<1>3. /\ P \in Nat /\ P \geq 2 /\ 10 * P \leq b.height /\ G \in Nat
      /\ PeriodWidth(b) = 2 * P
      /\ t.top = b.top /\ t.height = b.height
      /\ t.width \in Nat /\ t.width \geq 2 /\ t.width \leq b.width - G - 2 * P
      /\ t.left = b.left + (b.width - t.width) \div 2
      /\ glyphs = 4 => 1000 * t.width \leq 1843 * b.height
  BY <1>1, Rooms, TimeWidth
<1>4. /\ p.top = b.top + Percent(b.height, 22) /\ p.height = Percent(b.height, 42)
      /\ p.width = 2 * P
      /\ p.left = AtMost(b.left + b.width - 2 * P, t.left + t.width + G)
  <2>1. /\ p.top = b.top + Percent(b.height, 22) /\ p.height = Percent(b.height, 42)
        /\ p.width = PeriodWidth(b)
        /\ p.left = AtMost(Right(b) - PeriodWidth(b), Right(t) + G)
    BY DEF PeriodBox, Region
  <2> HIDE DEF t, p, P, G
  <2> QED
    BY <1>1, <1>3, <2>1 DEF Right, AtMost
<1> HIDE DEF t, p, P, G
<1>5. Within(t, b) /\ Within(p, b) /\ p.height \in Nat /\ p.height \geq 2 /\ P \leq p.height
  BY <1>1, <1>3, <1>4 DEF Within, Bottom, Right, Percent, AtMost
<1>6. Drawable(t, w, h) /\ Drawable(p, w, h)
  BY <1>1, <1>3, <1>4, <1>5 DEF Drawable, Within, Region, Bottom, Right, Percent, AtMost
<1>7. glyphs = 4 => LeftOf(t, p)
  BY <1>1, <1>3, <1>4 DEF LeftOf, Right, AtMost
<1> QED
  BY <1>5, <1>6, <1>7 DEF t, p, P

=============================================================================
