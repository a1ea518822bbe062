---------------------------- MODULE PictureProofs -----------------------------
(***************************************************************************)
(* A prepared picture stays readable and true to its photograph, for       *)
(* sources and displays of every size, whatever the scaler makes of the    *)
(* photograph and for every curve that rises between floor and ceiling.    *)
(* First what single operators give: regions and tones, crop, integral     *)
(* image, percentiles.  Then the preparation, step by step.                *)
(***************************************************************************)
EXTENDS Picture, LayoutProofs, TLAPS

-----------------------------------------------------------------------------
(* The rows of a region, in percent of the height.                          *)

LEMMA Cancel ==
  ASSUME NEW p \in Int, NEW q \in Int, NEW h \in Nat, h > 0, p * h < q * h
  PROVE  p < q
<1>1. SUFFICES ASSUME p \geq q PROVE FALSE
  OBVIOUS
<1>2. (p - q) * h \geq 0
  BY <1>1, SMT
<1>. QED BY <1>2, SMT

\* Go's division of what is not negative.
LEMMA Floor ==
  ASSUME NEW n \in Nat, NEW h \in Nat, h > 0
  PROVE  n \div h \in Nat /\ (n \div h) * h \leq n /\ n < (n \div h) * h + h
OBVIOUS

LEMMA FromRow ==
  ASSUME NEW h \in Nat, h \geq 100, NEW a \in Nat, NEW y \in Nat, y \geq Percent(h, a)
  PROVE  (y * 100) \div h \in Nat /\ (y * 100) \div h \geq a - 1
<1>. DEFINE p == (y * 100) \div h
<1>1. p \in Nat /\ y * 100 < p * h + h
  BY Floor
<1>2. h * a \in Nat
  OBVIOUS
<1>3. y * 100 > h * a - 100
  BY <1>2, SMT DEF Percent
<1>4. (a - 1) * h = h * a - h /\ (p + 1) * h = p * h + h
  BY <1>1, SMT
<1>5. (a - 1) * h < (p + 1) * h + 1
  BY <1>1, <1>2, <1>3, <1>4, SMT
<1>6. (a - 1) * h < (p + 1) * h
  BY <1>1, <1>2, <1>3, <1>4, SMT
<1>7. a - 1 < p + 1
  BY <1>1, <1>6, Cancel, SMT
<1>. QED BY <1>1, <1>7, SMT

LEMMA ToRow ==
  ASSUME NEW h \in Nat, h \geq 100, NEW a \in Nat, NEW b \in Nat, NEW y \in Nat,
         y < Percent(h, a) + Percent(h, b)
  PROVE  (y * 100) \div h < a + b
<1>. DEFINE p == (y * 100) \div h
<1>1. p \in Nat /\ p * h \leq y * 100
  BY Floor
<1>2. h * a \in Nat /\ h * b \in Nat
  OBVIOUS
<1>3. y * 100 < h * a + h * b
  BY <1>2, SMT DEF Percent
<1>4. p * h < (a + b) * h
  BY <1>1, <1>2, <1>3, SMT
<1>. QED BY <1>1, <1>4, Cancel, SMT

-----------------------------------------------------------------------------
(* The tones.                                                               *)

LEMMA ToneInRange ==
  ASSUME NEW luma \in 0..255, NEW low \in 0..255, NEW high \in 0..255
  PROVE  Tone(luma, low, high) \in storyShadowFloor..storyHighlightCeiling
<1>1. CASE luma \leq low \/ luma \geq high
  BY <1>1 DEF Tone, storyShadowFloor, storyHighlightCeiling
<1>2. CASE low < luma /\ luma < high
  <2>1. high - low \in 1..255 /\ luma - low \in 1..(high - low) - 1
    BY <1>2, SMT
  <2>2. Curve(luma - low, high - low) \in 0..116
    BY <2>1, PictureAssumption
  <2>. QED BY <1>2, <2>2, SMT DEF Tone, storyShadowFloor, storyHighlightCeiling
<1>. QED BY <1>1, <1>2, SMT

LEMMA ScrimInRange ==
  ASSUME NEW p \in 0..99
  PROVE  /\ Scrim(p) \in 0..25
         /\ p \in 8..81 => Scrim(p) = 25
         /\ p \in 5..85 => Scrim(p) \geq 15
         /\ p \in 82..93 => Scrim(p) \geq 9
BY SMT DEF Scrim, storyScrimPeakPercent

\* A luma that is darkened by s percent.
LEMMA Darkened ==
  ASSUME NEW luma \in 16..132, NEW s \in 0..25
  PROVE  /\ Percent(luma, 100 - s) \in 12..132
         /\ s = 25 => Percent(luma, 100 - s) \leq 99
         /\ s \geq 15 => Percent(luma, 100 - s) \leq 112
         /\ s \geq 9 => Percent(luma, 100 - s) \leq 120
<1>. DEFINE k == 100 - s
<1>1. k \in 75..100
  BY SMT
<1>2. luma * k \leq 132 * k
  BY <1>1, SMT
<1>3. luma * k \geq luma * 75
  BY <1>1, SMT
<1>4. luma * k \in Nat
  BY <1>1, SMT
<1>. HIDE DEF k
<1>5. luma * k \geq 1200 /\ luma * k \leq 13200
  BY <1>1, <1>2, <1>3, SMT
<1>6. /\ k = 75 => luma * k \leq 9900
      /\ k \leq 85 => luma * k \leq 11220
      /\ k \leq 91 => luma * k \leq 12012
  BY <1>1, <1>2, SMT
<1>7. Percent(luma, k) = (luma * k) \div 100
  BY DEF Percent
<1>8. /\ Percent(luma, k) \in 12..132
      /\ k = 75 => Percent(luma, k) \leq 99
      /\ k \leq 85 => Percent(luma, k) \leq 112
      /\ k \leq 91 => Percent(luma, k) \leq 120
  BY <1>4, <1>5, <1>6, <1>7, SMT
<1>. QED BY <1>8, SMT DEF k

\* Whatever luma a pixel has and whatever range the photograph, on every display of a hundred
\* lines or more it is as dim as white type on it needs (einkTone, storyScrimPercent and the
\* regions of newStoryLayout and ShowGenreScreenContext together).
THEOREM CopyStaysReadable ==
  ASSUME NEW w \in Nat, NEW h \in Nat, h \geq 100, NEW y \in 0..h - 1,
         NEW luma \in 0..255, NEW low \in 0..255, NEW high \in 0..255
  PROVE  Dim(Veiled(Tone(luma, low, high), y, h), y, w, h)
<1>. DEFINE p == (y * 100) \div h
            tone == Tone(luma, low, high)
            dimmed == Percent(tone, 100 - Scrim(p))
<1>1. tone \in 16..132
  BY ToneInRange DEF storyShadowFloor, storyHighlightCeiling
<1>2. p \in 0..99
  <2>1. p \in Nat /\ p * h \leq y * 100
    BY Floor
  <2>2. p * h < 100 * h
    BY <2>1, SMT
  <2>. QED BY <2>1, <2>2, Cancel, SMT
<1>3. /\ dimmed \in 12..132
      /\ p \in 8..81 => dimmed \leq 99
      /\ p \in 5..85 => dimmed \leq 112
      /\ p \in 82..93 => dimmed \leq 120
  <2>1. /\ Scrim(p) \in 0..25
        /\ p \in 8..81 => Scrim(p) = 25
        /\ p \in 5..85 => Scrim(p) \geq 15
        /\ p \in 82..93 => Scrim(p) \geq 9
    BY <1>2, ScrimInRange
  <2>. HIDE DEF p, tone
  <2>2. /\ dimmed \in 12..132
        /\ Scrim(p) = 25 => dimmed \leq 99
        /\ Scrim(p) \geq 15 => dimmed \leq 112
        /\ Scrim(p) \geq 9 => dimmed \leq 120
    BY <1>1, <2>1, Darkened
  <2>. QED BY <2>1, <2>2
<1>4. y \in Rows(StoryTitle(w, h)) => p \in 17..59
  <2>. SUFFICES ASSUME y \geq Percent(h, 18), y < Percent(h, 18) + Percent(h, 42)
                PROVE  p \in 17..59
    BY SMT DEF Rows, StoryTitle, StoryBand, Region, Bottom, Percent
  <2>. QED BY FromRow, ToRow, SMT
<1>5. y \in Rows(GenreBox(w, h)) => p \in 34..64
  <2>. SUFFICES ASSUME y \geq Percent(h, 35), y < Percent(h, 35) + Percent(h, 30)
                PROVE  p \in 34..64
    BY SMT DEF Rows, GenreBox, Region, Bottom, Percent
  <2>. QED BY FromRow, ToRow, SMT
<1>6. y \in Rows(StoryGenre(w, h)) => p \in 5..13
  <2>. SUFFICES ASSUME y \geq Percent(h, 6), y < Percent(h, 6) + Percent(h, 8)
                PROVE  p \in 5..13
    BY SMT DEF Rows, StoryGenre, StoryBand, Region, Bottom, Percent
  <2>. QED BY FromRow, ToRow, SMT
<1>7. y \in Rows(StoryDescription(w, h)) => p \in 61..85
  <2>. SUFFICES ASSUME y \geq Percent(h, 62), y < Percent(h, 62) + Percent(h, 24)
                PROVE  p \in 61..85
    BY SMT DEF Rows, StoryDescription, StoryBand, Region, Bottom, Percent
  <2>. QED BY FromRow, ToRow, SMT
<1>8. y \in Rows(StorySource(w, h)) => p \in 87..93
  <2>. SUFFICES ASSUME y \geq Percent(h, 88), y < Percent(h, 88) + Percent(h, 6)
                PROVE  p \in 87..93
    BY SMT DEF Rows, StorySource, StoryBand, Region, Bottom, Percent
  <2>. QED BY FromRow, ToRow, SMT
<1>9. Veiled(tone, y, h) = dimmed
  BY DEF Veiled
<1>. HIDE DEF p, tone, dimmed
<1>10. Dim(dimmed, y, w, h)
  BY <1>3, <1>4, <1>5, <1>6, <1>7, <1>8, SMT DEF Dim, storyHighlightCeiling
<1>. QED BY <1>9, <1>10 DEF tone

-----------------------------------------------------------------------------
(* The crop.                                                                *)

\* A source that is wider than the display, or taller: the part is in it, and keeps the
\* proportions of the display but for the fraction of a pixel.
LEMMA Slice ==
  ASSUME NEW long \in Nat, NEW short \in Nat, NEW a \in Nat, NEW b \in Nat, b > 0,
         long * b \geq a * short
  PROVE  /\ (short * a) \div b \in 0..long
         /\ ((short * a) \div b) * b - short * a \in -b + 1..0
<1>. DEFINE n == (short * a) \div b
<1>1. n \in Nat /\ n * b \leq short * a /\ short * a < n * b + b
  <2>1. short * a \in Nat
    OBVIOUS
  <2>. QED BY <2>1, Floor
<1>2. n * b < (long + 1) * b
  BY <1>1, SMT
<1>3. n < long + 1
  BY <1>1, <1>2, Cancel, SMT
<1>. QED BY <1>1, <1>3, SMT

\* The middle of it.
LEMMA Middle ==
  ASSUME NEW long \in Nat, NEW part \in 0..long
  PROVE  /\ (long - part) \div 2 \in 0..long - part
         /\ (long - part) \div 2 - (long - ((long - part) \div 2 + part)) \in {-1, 0}
BY SMT

\* The cover crop of prepareStoryBackground is inside the source, in its middle, reaches two
\* opposite edges and has the proportions of the display, for sizes of every kind.
THEOREM CropCovers ==
  ASSUME NEW s \in [w : Nat, h : Nat], NEW d \in [w : Nat \ {0}, h : Nat \ {0}]
  PROVE  Covers(s, d, Cropped(s, d))
<1>. DEFINE w == (s.h * d.w) \div d.h
            h == (s.w * d.h) \div d.w
<1>0. s.w \in Nat /\ s.h \in Nat /\ d.w \in Nat /\ d.h \in Nat /\ d.w > 0 /\ d.h > 0
  OBVIOUS
<1>1. CASE s.w * d.h > d.w * s.h
  <2>1. Cropped(s, d) = Region(0, (s.w - w) \div 2, w, s.h)
    BY <1>1 DEF Cropped
  <2>2. w \in 0..s.w /\ w * d.h - s.h * d.w \in -d.h + 1..0
    BY <1>0, <1>1, Slice
  <2>. HIDE DEF w
  <2>3. /\ (s.w - w) \div 2 \in 0..s.w - w
        /\ (s.w - w) \div 2 - (s.w - ((s.w - w) \div 2 + w)) \in {-1, 0}
    BY <1>0, <2>2, Middle
  <2>4. w * d.h - s.h * d.w \in -d.h + 1..d.w - 1
    BY <1>0, <2>2, SMT
  <2>. QED BY <1>0, <2>1, <2>2, <2>3, <2>4, SMT DEF Covers, Within, Region, Right, Bottom
<1>2. CASE ~(s.w * d.h > d.w * s.h)
  <2>1. Cropped(s, d) = Region((s.h - h) \div 2, 0, s.w, h)
    BY <1>2 DEF Cropped
  <2>2. s.h * d.w \geq d.h * s.w
    BY <1>0, <1>2, SMT
  <2>3. h \in 0..s.h /\ h * d.w - s.w * d.h \in -d.w + 1..0
    BY <1>0, <2>2, Slice
  <2>. HIDE DEF h
  <2>4. /\ (s.h - h) \div 2 \in 0..s.h - h
        /\ (s.h - h) \div 2 - (s.h - ((s.h - h) \div 2 + h)) \in {-1, 0}
    BY <1>0, <2>3, Middle
  <2>5. s.w * d.h - h * d.w \in -d.h + 1..d.w - 1
    BY <1>0, <2>3, SMT
  <2>. QED BY <1>0, <2>1, <2>3, <2>4, <2>5, SMT DEF Covers, Within, Region, Right, Bottom
<1>. QED BY <1>1, <1>2

-----------------------------------------------------------------------------
(* The integral image.                                                      *)

\* What the loop over a row computes.
LEMMA RowSums ==
  ASSUME NEW p, NEW w \in Nat, NEW y, \A i \in 0..w - 1 : p[<<i, y>>] \in Int
  PROVE  /\ \A x \in 0..w : RowSum(p, x, y) \in Int
         /\ RowSum(p, 0, y) = 0
         /\ \A x \in 1..w : RowSum(p, x, y) = RowSum(p, x - 1, y) + p[<<x - 1, y>>]
<1> DEFINE v == [i \in 1..w |-> p[<<i - 1, y>>]]
<1>1. Values(v, w, Int) /\ Adds(Int)
  BY DEF Values, Adds
<1>2. \A i \in 1..w : v[i] = p[<<i - 1, y>>]
  OBVIOUS
<1> HIDE DEF v
<1>3. PICK f \in [0..w -> Int] : Sums(f, v, w)
  BY <1>1, RunningSums
<1>4. ASSUME NEW x \in 0..w PROVE RowSum(p, x, y) = f[x]
  <2> DEFINE F(g) == [i \in 0..x |-> IF i = 0 THEN 0 ELSE g[i - 1] + p[<<i - 1, y>>]]
             T == CHOOSE g : g = F(g)
             g0 == [i \in 0..x |-> f[i]]
  <2>1. RowSum(p, x, y) = T[x]
    BY DEF RowSum
  <2>2. x \in Nat /\ \A i \in 1..x : i \in 1..w /\ i - 1 \in 0..x /\ i \in 0..x
    OBVIOUS
  <2>3. g0 = F(g0)
    <3>1. ASSUME NEW i \in 0..x PROVE g0[i] = IF i = 0 THEN 0 ELSE g0[i - 1] + p[<<i - 1, y>>]
      <4>1. CASE i = 0
        BY <1>3, <4>1 DEF Sums
      <4>2. CASE i # 0
        <5>1. i \in 1..x /\ i \in 1..w /\ i - 1 \in 0..x
          BY <2>2, <4>2
        <5>2. f[i] = f[i - 1] + v[i] /\ v[i] = p[<<i - 1, y>>]
          BY <1>2, <1>3, <5>1 DEF Sums
        <5>3. g0[i] = f[i] /\ g0[i - 1] = f[i - 1]
          BY <5>1
        <5> HIDE DEF g0
        <5> QED BY <4>2, <5>2, <5>3
      <4> QED BY <4>1, <4>2
    <3>2. g0 = [i \in 0..x |-> g0[i]]
      OBVIOUS
    <3> HIDE DEF g0
    <3> QED BY <3>1, <3>2
  <2>4. T = F(T)
    <3> HIDE DEF F, g0
    <3> QED BY <2>3, Zenon
  <2> HIDE DEF T
  <2>5. Sums(T, v, x)
    <3> DEFINE U == T
    <3>1. U = F(U)
      BY <2>4
    <3> HIDE DEF U
    <3>2. \A i \in 0..x : U[i] = IF i = 0 THEN 0 ELSE U[i - 1] + p[<<i - 1, y>>]
      BY <3>1
    <3>3. ASSUME NEW i \in 1..x PROVE U[i] = U[i - 1] + v[i]
      <4>1. i \in 0..x /\ i # 0 /\ i \in 1..w
        BY <2>2
      <4>2. U[i] = U[i - 1] + p[<<i - 1, y>>]
        BY <3>2, <4>1
      <4> QED BY <1>2, <4>1, <4>2
    <3>4. U[0] = 0
      <4>1. 0 \in 0..x
        BY <2>2
      <4> QED BY <3>2, <4>1
    <3> QED BY <3>3, <3>4 DEF U, Sums
  <2>6. Sums(f, v, x)
    BY <1>3, <2>2 DEF Sums
  <2>7. \A n \in 0..x : T[n] = f[n]
    BY <2>2, <2>5, <2>6, SameSums
  <2> QED BY <2>1, <2>2, <2>7
<1>5. f[0] = 0 /\ \A x \in 1..w : f[x] = f[x - 1] + p[<<x - 1, y>>]
  BY <1>2, <1>3 DEF Sums
<1>6. 0 \in 0..w /\ \A x \in 1..w : x \in 0..w /\ x - 1 \in 0..w
  OBVIOUS
<1>7. \A x \in 1..w : RowSum(p, x, y) = RowSum(p, x - 1, y) + p[<<x - 1, y>>]
  BY <1>4, <1>5, <1>6
<1>8. \A x \in 0..w : RowSum(p, x, y) \in Int
  BY <1>3, <1>4
<1> QED BY <1>4, <1>5, <1>6, <1>7, <1>8

\* p is a picture on the display d.
Picturing(p, d) == d.w \in Nat /\ d.h \in Nat /\ p \in [Pixels(d) -> 0..255]

LEMMA Luma ==
  ASSUME NEW p, NEW d, Picturing(p, d), NEW x \in 0..d.w - 1, NEW y \in 0..d.h - 1
  PROVE  <<x, y>> \in Pixels(d) /\ p[<<x, y>>] \in 0..255
BY DEF Picturing, Pixels

\* What the loop over the rows computes.
LEMMA Integrals ==
  ASSUME NEW p, NEW d, Picturing(p, d)
  PROVE  LET I == Integral(p, d)
         IN  /\ \A y \in 0..d.h : \A x \in 0..d.w : I[y][x] \in Int
             /\ \A x \in 0..d.w : I[0][x] = 0
             /\ \A y \in 1..d.h : \A x \in 0..d.w : I[y][x] = I[y - 1][x] + RowSum(p, x, y - 1)
<1> DEFINE w == d.w
           h == d.h
           F(g) == [y \in 0..h |->
                      [x \in 0..w |-> IF y = 0 THEN 0 ELSE g[y - 1][x] + RowSum(p, x, y - 1)]]
           T == CHOOSE g : g = F(g)
<1>1. Integral(p, d) = T
  BY DEF Integral
<1>2. w \in Nat /\ h \in Nat
  BY DEF Picturing
<1>3. ASSUME NEW y \in 1..h, NEW x \in 0..w PROVE RowSum(p, x, y - 1) \in Int
  <2>1. y - 1 \in 0..h - 1
    BY <1>2
  <2>2. \A i \in 0..w - 1 : p[<<i, y - 1>>] \in Int
    BY <2>1, Luma
  <2> QED BY <1>2, <2>2, RowSums
<1> HIDE DEF w, h
<1> DEFINE v(x) == [i \in 1..h |-> RowSum(p, x, i - 1)]
           C == [x \in 0..w |-> CHOOSE f \in [0..h -> Int] : Sums(f, v(x), h)]
           H == [y \in 0..h |-> [x \in 0..w |-> C[x][y]]]
<1>4. ASSUME NEW x \in 0..w
      PROVE  C[x][0] = 0 /\ \A y \in 1..h : C[x][y] = C[x][y - 1] + RowSum(p, x, y - 1)
  <2>1. Values(v(x), h, Int) /\ Adds(Int)
    BY <1>3 DEF Values, Adds
  <2>2. \A i \in 1..h : v(x)[i] = RowSum(p, x, i - 1)
    OBVIOUS
  <2>3. C[x] = CHOOSE f \in [0..h -> Int] : Sums(f, v(x), h)
    OBVIOUS
  <2> HIDE DEF v, C
  <2>4. \E f \in [0..h -> Int] : Sums(f, v(x), h)
    BY <1>2, <2>1, RunningSums
  <2>5. Sums(C[x], v(x), h)
    BY <2>3, <2>4
  <2> QED BY <2>2, <2>5 DEF Sums
<1>5. H = F(H)
  <2>1. ASSUME NEW y \in 0..h, NEW x \in 0..w
        PROVE  H[y][x] = IF y = 0 THEN 0 ELSE H[y - 1][x] + RowSum(p, x, y - 1)
    <3>1. H[y][x] = C[x][y]
      OBVIOUS
    <3>2. CASE y = 0
      BY <1>4, <3>1, <3>2
    <3>3. CASE y # 0
      <4>1. y \in 1..h /\ y - 1 \in 0..h
        BY <1>2, <3>3
      <4>2. H[y - 1][x] = C[x][y - 1]
        BY <4>1
      <4> HIDE DEF H, C
      <4> QED BY <1>4, <3>1, <3>3, <4>1, <4>2
    <3> QED BY <3>2, <3>3
  <2>2. H = [y \in 0..h |-> [x \in 0..w |-> H[y][x]]]
    OBVIOUS
  <2> HIDE DEF H
  <2> QED BY <2>1, <2>2
<1>6. T = F(T)
  <2> HIDE DEF F, H
  <2> QED BY <1>5, Zenon
<1> HIDE DEF T, H, C
<1>7. \A y \in 0..h : \A x \in 0..w :
        T[y][x] = IF y = 0 THEN 0 ELSE T[y - 1][x] + RowSum(p, x, y - 1)
  <2> DEFINE U == T
  <2>1. U = F(U)
    BY <1>6
  <2> HIDE DEF U
  <2>2. \A y \in 0..h :
          U[y] = [x \in 0..w |-> IF y = 0 THEN 0 ELSE U[y - 1][x] + RowSum(p, x, y - 1)]
    BY <2>1
  <2> QED BY <2>2 DEF U
<1> HIDE DEF F
<1>8. \A x \in 0..w : T[0][x] = 0
  BY <1>2, <1>7
<1>9. \A y \in 1..h : \A x \in 0..w : T[y][x] = T[y - 1][x] + RowSum(p, x, y - 1)
  BY <1>2, <1>7
<1>10. \A y \in 0..h : \A x \in 0..w : T[y][x] \in Int
  <2> DEFINE S == {y \in 0..h : \A x \in 0..w : T[y][x] \in Int}
  <2>1. 0 \in S
    BY <1>2, <1>8
  <2>2. ASSUME NEW n \in 1..h, n - 1 \in S PROVE n \in S
    BY <1>3, <1>9, <2>2
  <2>3. 0..h \subseteq S
    <3> HIDE DEF S
    <3> QED BY <1>2, <2>1, <2>2, Induction
  <2> QED BY <2>3
<1> QED BY <1>1, <1>8, <1>9, <1>10 DEF w, h


-----------------------------------------------------------------------------
(* Sums over sets of pixels.                                                *)

Total(p, S) == MapThenSumSet(LAMBDA ij : p[ij], S)

\* t holds the sums of p over the parts of S.
Totals(t, p, S) ==
  /\ t \in [SUBSET S -> Int] /\ t[{}] = 0
  /\ \A s \in SUBSET S : \A x \in s : t[s] = p[x] + t[s \ {x}]

\* A set without one of its members.
LEMMA OneLess ==
  ASSUME NEW S, IsFiniteSet(S), NEW x \in S
  PROVE  /\ IsFiniteSet(S \ {x}) /\ Cardinality(S \ {x}) = Cardinality(S) - 1
         /\ Cardinality(S) \in Nat \ {0}
<1>1. IsFiniteSet(S \ {x}) /\ Cardinality(S \ {x}) = Cardinality(S) - 1
  BY FS_RemoveElement
<1>2. Cardinality(S) \in Nat /\ Cardinality(S \ {x}) \in Nat
  BY <1>1, FS_CardinalityType
<1> QED BY <1>1, <1>2

\* Such sums exist, by induction over the number of pixels.
LEMMA TotalsExist ==
  ASSUME NEW P, NEW p \in [P -> Int], NEW S \in SUBSET P, IsFiniteSet(S)
  PROVE  \E t : Totals(t, p, S)
<1> DEFINE N == {n \in Nat : \A A \in SUBSET P :
                   IsFiniteSet(A) /\ Cardinality(A) = n => \E t : Totals(t, p, A)}
           m == Cardinality(S)
<1>1. m \in Nat
  BY FS_CardinalityType
<1>2. 0 \in N
  <2>1. ASSUME NEW A \in SUBSET P, IsFiniteSet(A), Cardinality(A) = 0 PROVE \E t : Totals(t, p, A)
    <3>1. A = {}
      BY <2>1, FS_EmptySet
    <3>2. Totals([s \in SUBSET {} |-> 0], p, {})
      BY DEF Totals
    <3> QED BY <3>1, <3>2
  <2> QED BY <2>1
<1>3. ASSUME NEW n \in 1..m, n - 1 \in N PROVE n \in N
  <2>1. n \in Nat /\ n # 0
    BY <1>1
  <2>2. ASSUME NEW A \in SUBSET P, IsFiniteSet(A), Cardinality(A) = n PROVE \E t : Totals(t, p, A)
    <3>1. A # {}
      BY <2>1, <2>2, FS_EmptySet
    <3>2. PICK a \in A : TRUE
      BY <3>1
    <3> DEFINE B == A \ {a}
    <3>3. B \in SUBSET P /\ IsFiniteSet(B) /\ Cardinality(B) = n - 1
      BY <2>2, OneLess
    <3>4. PICK t : Totals(t, p, B)
      <4> HIDE DEF B
      <4> QED BY <1>3, <3>3
    <3> DEFINE u == [s \in SUBSET A |-> IF a \in s THEN p[a] + t[s \ {a}] ELSE t[s]]
    <3>5. \A s \in SUBSET A : s \ {a} \in SUBSET B /\ (a \notin s => s \in SUBSET B)
      OBVIOUS
    <3> HIDE DEF B
    <3>6. t \in [SUBSET B -> Int] /\ t[{}] = 0
      BY <3>4 DEF Totals
    <3>7. p[a] \in Int
      OBVIOUS
    <3>8. u \in [SUBSET A -> Int] /\ u[{}] = 0
      BY <3>5, <3>6, <3>7
    <3>9. ASSUME NEW s \in SUBSET A, NEW x \in s PROVE u[s] = p[x] + u[s \ {x}]
      <4>1. p[x] \in Int /\ s \ {x} \in SUBSET A
        OBVIOUS
      <4>2. CASE x = a
        BY <4>1, <4>2
      <4>3. CASE x # a /\ a \in s
        <5>1. u[s] = p[a] + t[s \ {a}] /\ u[s \ {x}] = p[a] + t[(s \ {x}) \ {a}]
          BY <4>1, <4>3
        <5>2. t[s \ {a}] = p[x] + t[(s \ {a}) \ {x}]
          BY <3>4, <3>5, <4>3 DEF Totals
        <5>3. (s \ {a}) \ {x} = (s \ {x}) \ {a}
          OBVIOUS
        <5>4. t[(s \ {x}) \ {a}] \in Int
          BY <3>5, <3>6, <4>1
        <5>5. u[s] = p[a] + (p[x] + t[(s \ {x}) \ {a}])
          BY <5>1, <5>2, <5>3
        <5> DEFINE c == t[(s \ {x}) \ {a}]
        <5> HIDE DEF u, c
        <5>6. p[a] + (p[x] + c) = p[x] + (p[a] + c)
          BY <3>7, <4>1, <5>4 DEF c
        <5> QED BY <5>1, <5>5, <5>6 DEF c
      <4>4. CASE x # a /\ a \notin s
        <5>1. u[s] = t[s] /\ u[s \ {x}] = t[s \ {x}]
          BY <4>1, <4>4
        <5>2. t[s] = p[x] + t[s \ {x}]
          BY <3>4, <3>5, <4>4 DEF Totals
        <5> HIDE DEF u
        <5> QED BY <5>1, <5>2
      <4> QED BY <4>2, <4>3, <4>4
    <3> HIDE DEF u
    <3> QED BY <3>8, <3>9 DEF Totals
  <2> QED BY <2>1, <2>2
<1>4. 0..m \subseteq N
  <2> HIDE DEF N, m
  <2> QED BY <1>1, <1>2, <1>3, Induction
<1>5. m \in N
  BY <1>1, <1>4
<1> QED BY <1>5

\* Whichever pixel the fold takes next, it computes them.
LEMMA TotalIs ==
  ASSUME NEW P, NEW p \in [P -> Int], NEW S \in SUBSET P, IsFiniteSet(S), NEW t, Totals(t, p, S)
  PROVE  Total(p, S) = t[S]
<1> DEFINE F(g) == [s \in SUBSET S |-> IF s = {} THEN 0
                      ELSE p[CHOOSE x \in s : TRUE] + g[s \ {CHOOSE x \in s : TRUE}]]
           T == CHOOSE g : g = F(g)
<1>1. Total(p, S) = T[S]
  BY DEF Total, MapThenSumSet, MapThenFoldSet
<1>2. t = F(t)
  <2>1. t \in [SUBSET S -> Int] /\ t[{}] = 0
    BY DEF Totals
  <2>2. ASSUME NEW s \in SUBSET S, s # {}
        PROVE  t[s] = p[CHOOSE x \in s : TRUE] + t[s \ {CHOOSE x \in s : TRUE}]
    <3>1. (CHOOSE x \in s : TRUE) \in s
      BY <2>2
    <3> QED BY <3>1 DEF Totals
  <2>3. t = [s \in SUBSET S |-> t[s]]
    BY <2>1
  <2>4. \A s \in SUBSET S : t[s] = IF s = {} THEN 0
                      ELSE p[CHOOSE x \in s : TRUE] + t[s \ {CHOOSE x \in s : TRUE}]
    BY <2>1, <2>2
  <2> QED BY <2>3, <2>4
<1>3. T = F(T)
  <2> HIDE DEF F
  <2> QED BY <1>2, Zenon
<1> HIDE DEF T
<1>4. \A s \in SUBSET S : T[s] = IF s = {} THEN 0
                      ELSE p[CHOOSE x \in s : TRUE] + T[s \ {CHOOSE x \in s : TRUE}]
  <2> DEFINE U == T
  <2>1. U = F(U)
    BY <1>3
  <2> HIDE DEF U
  <2>2. \A s \in SUBSET S : U[s] = IF s = {} THEN 0
                      ELSE p[CHOOSE x \in s : TRUE] + U[s \ {CHOOSE x \in s : TRUE}]
    BY <2>1
  <2> QED BY <2>2 DEF U
<1> HIDE DEF F
<1> DEFINE m == Cardinality(S)
           N == {n \in 0..m : \A s \in SUBSET S : Cardinality(s) = n => T[s] = t[s]}
<1>5. m \in Nat
  BY FS_CardinalityType
<1>6. \A s \in SUBSET S : IsFiniteSet(s)
  BY FS_Subset
<1>7. 0 \in N
  <2>1. ASSUME NEW s \in SUBSET S, Cardinality(s) = 0 PROVE T[s] = t[s]
    <3>1. s = {}
      BY <1>6, <2>1, FS_EmptySet
    <3> QED BY <1>4, <3>1 DEF Totals
  <2> QED BY <1>5, <2>1
<1>8. ASSUME NEW n \in 1..m, n - 1 \in N PROVE n \in N
  <2>1. ASSUME NEW s \in SUBSET S, Cardinality(s) = n PROVE T[s] = t[s]
    <3>1. s # {}
      BY <1>5, <1>6, <2>1, FS_EmptySet
    <3> DEFINE x == CHOOSE y \in s : TRUE
    <3>2. x \in s
      BY <3>1
    <3>3. T[s] = p[x] + T[s \ {x}]
      BY <1>4, <3>1
    <3> HIDE DEF x
    <3>4. Cardinality(s \ {x}) = n - 1 /\ s \ {x} \in SUBSET S
      BY <1>6, <2>1, <3>2, OneLess
    <3>5. T[s \ {x}] = t[s \ {x}]
      BY <1>8, <3>4
    <3>6. t[s] = p[x] + t[s \ {x}]
      BY <3>2 DEF Totals
    <3> QED BY <3>3, <3>5, <3>6
  <2>2. n \in 0..m
    BY <1>5
  <2> QED BY <2>1, <2>2
<1>9. 0..m \subseteq N
  <2> HIDE DEF N, m
  <2> QED BY <1>5, <1>7, <1>8, Induction
<1>10. m \in N /\ S \in SUBSET S /\ Cardinality(S) = m
  BY <1>5, <1>9
<1> QED BY <1>1, <1>10

\* The sum over no pixel, and with one more.
LEMMA TotalGrows ==
  ASSUME NEW P, NEW p \in [P -> Int], NEW S \in SUBSET P, IsFiniteSet(S)
  PROVE  /\ Total(p, S) \in Int
         /\ S = {} => Total(p, S) = 0
         /\ \A x \in P \ S : Total(p, S \cup {x}) = Total(p, S) + p[x]
<1>1. PICK t : Totals(t, p, S)
  BY TotalsExist
<1>2. Total(p, S) = t[S] /\ t[S] \in Int /\ t[{}] = 0
  <2>1. t \in [SUBSET S -> Int] /\ t[{}] = 0
    BY <1>1 DEF Totals
  <2>2. Total(p, S) = t[S]
    BY <1>1, TotalIs
  <2> QED BY <2>1, <2>2
<1>3. ASSUME NEW x \in P \ S PROVE Total(p, S \cup {x}) = Total(p, S) + p[x]
  <2> DEFINE A == S \cup {x}
  <2>1. IsFiniteSet(A) /\ A \in SUBSET P /\ A \ {x} = S /\ x \in A /\ S \in SUBSET A
    BY FS_AddElement
  <2> HIDE DEF A
  <2>2. PICK u : Totals(u, p, A)
    BY <2>1, TotalsExist
  <2>3. Total(p, A) = u[A]
    BY <2>1, <2>2, TotalIs
  <2>4. u[A] = p[x] + u[S]
    BY <2>1, <2>2 DEF Totals
  <2> DEFINE v == [s \in SUBSET S |-> u[s]]
  <2>5. Totals(v, p, S)
    <3>1. u \in [SUBSET A -> Int] /\ u[{}] = 0
      BY <2>2 DEF Totals
    <3>2. \A s \in SUBSET S : s \in SUBSET A
      BY <2>1
    <3>3. v \in [SUBSET S -> Int] /\ v[{}] = 0
      BY <3>1, <3>2
    <3>4. ASSUME NEW s \in SUBSET S, NEW y \in s PROVE v[s] = p[y] + v[s \ {y}]
      <4>1. u[s] = p[y] + u[s \ {y}]
        BY <2>2, <3>2 DEF Totals
      <4>2. s \ {y} \in SUBSET S
        OBVIOUS
      <4> QED BY <4>1, <4>2
    <3> HIDE DEF v
    <3> QED BY <3>3, <3>4 DEF Totals
  <2>6. v[S] = u[S]
    OBVIOUS
  <2>7. Total(p, S) = v[S]
    <3> HIDE DEF v
    <3> QED BY <2>5, TotalIs
  <2>8. u[S] \in Int /\ p[x] \in Int
    BY <1>2, <2>6, <2>7
  <2> QED BY <2>3, <2>4, <2>6, <2>7, <2>8 DEF A
<1> QED BY <1>2, <1>3


\* A stretch of a row is added to pixels that are in other rows.
LEMMA StretchOfRow ==
  ASSUME NEW p, NEW d, Picturing(p, d), NEW A \in SUBSET Pixels(d), IsFiniteSet(A),
         NEW a \in 0..d.w, NEW b \in a..d.w, NEW y \in 0..d.h - 1, \A ij \in A : ij[2] # y
  PROVE  LET B == A \cup ((a..b - 1) \X {y})
         IN  /\ B \in SUBSET Pixels(d) /\ IsFiniteSet(B)
             /\ Total(p, B) = Total(p, A) + (RowSum(p, b, y) - RowSum(p, a, y))
             /\ Total(p, A) \in Int /\ RowSum(p, b, y) \in Int /\ RowSum(p, a, y) \in Int
<1> DEFINE w == d.w
           m == b - a
           B(n) == A \cup ((a..(a + n) - 1) \X {y})
           Good(n) == /\ IsFiniteSet(B(n)) /\ B(n) \in SUBSET Pixels(d)
                      /\ Total(p, B(n)) = Total(p, A) + (RowSum(p, a + n, y) - RowSum(p, a, y))
           N == {n \in 0..m : Good(n)}
<1>1. w \in Nat /\ a \in Nat /\ b \in Nat /\ m \in Nat /\ a + m = b /\ b \leq w /\ a + 0 = a
  BY DEF Picturing
<1>2. p \in [Pixels(d) -> Int]
  BY DEF Picturing
<1>3. /\ \A x \in 0..w : RowSum(p, x, y) \in Int
      /\ \A x \in 1..w : RowSum(p, x, y) = RowSum(p, x - 1, y) + p[<<x - 1, y>>]
  <2>1. \A i \in 0..w - 1 : p[<<i, y>>] \in Int
    BY Luma
  <2> QED BY <1>1, <2>1, RowSums
<1>4. Total(p, A) \in Int /\ RowSum(p, b, y) \in Int /\ RowSum(p, a, y) \in Int
  <2>1. Total(p, A) \in Int
    BY <1>2, TotalGrows
  <2>2. b \in 0..w /\ a \in 0..w
    BY <1>1
  <2> QED BY <1>3, <2>1, <2>2
<1> HIDE DEF w
<1>5. 0 \in N
  <2>1. B(0) = A
    <3>1. a..(a + 0) - 1 = {}
      BY <1>1
    <3> QED BY <3>1
  <2>2. RowSum(p, a + 0, y) - RowSum(p, a, y) = 0
    BY <1>1, <1>4
  <2>3. Total(p, B(0)) = Total(p, A) + (RowSum(p, a + 0, y) - RowSum(p, a, y))
    <3> HIDE DEF B
    <3> QED BY <1>4, <2>1, <2>2
  <2>4. IsFiniteSet(B(0)) /\ B(0) \in SUBSET Pixels(d)
    <3> HIDE DEF B
    <3> QED BY <2>1
  <2> HIDE DEF B
  <2> QED BY <1>1, <2>3, <2>4
<1>6. ASSUME NEW n \in 1..m, n - 1 \in N PROVE n \in N
  <2>1. Good(n - 1)
    BY <1>6
  <2> DEFINE C == B(n - 1)
             x == a + (n - 1)
  <2>2. /\ x \in 0..w - 1 /\ x + 1 \in 1..w /\ x + 1 = a + n /\ (x + 1) - 1 = x
        /\ n \in 0..m /\ x \in Int
    BY <1>1
  <2>3. <<x, y>> \in Pixels(d) \ C
    <3>1. <<x, y>> \in Pixels(d)
      BY <2>2, Luma DEF w
    <3>2. <<x, y>> \notin A
      OBVIOUS
    <3>3. x \notin a..(a + (n - 1)) - 1
      BY <1>1
    <3> QED BY <3>1, <3>2, <3>3
  <2>4. B(n) = C \cup {<<x, y>>}
    <3>1. a..(a + n) - 1 = (a..(a + (n - 1)) - 1) \cup {x}
      BY <1>1
    <3> QED BY <3>1
  <2>5. /\ IsFiniteSet(C) /\ C \in SUBSET Pixels(d)
        /\ Total(p, C) = Total(p, A) + (RowSum(p, x, y) - RowSum(p, a, y))
    BY <2>1
  <2> HIDE DEF B, C, x
  <2>6. Total(p, B(n)) = Total(p, C) + p[<<x, y>>]
    BY <1>2, <2>3, <2>4, <2>5, TotalGrows
  <2>7. RowSum(p, x + 1, y) = RowSum(p, x, y) + p[<<x, y>>]
    BY <1>3, <2>2
  <2>8. RowSum(p, x, y) \in Int /\ p[<<x, y>>] \in Int
    <3>1. x \in 0..w
      BY <1>1, <2>2
    <3> QED BY <1>2, <1>3, <2>3, <3>1
  <2>9. Total(p, B(n)) = Total(p, A) + (RowSum(p, x + 1, y) - RowSum(p, a, y))
    BY <1>4, <2>5, <2>6, <2>7, <2>8
  <2>10. IsFiniteSet(B(n)) /\ B(n) \in SUBSET Pixels(d)
    <3>1. IsFiniteSet(C \cup {<<x, y>>})
      BY <2>5, FS_AddElement
    <3>2. C \cup {<<x, y>>} \in SUBSET Pixels(d)
      BY <2>3, <2>5
    <3> QED BY <2>4, <3>1, <3>2
  <2> QED BY <2>2, <2>9, <2>10
<1>7. m \in N
  <2>1. 0..m \subseteq N
    <3> HIDE DEF N, m
    <3> QED BY <1>1, <1>5, <1>6, Induction
  <2> HIDE DEF N
  <2> QED BY <1>1, <2>1
<1>8. Good(m) /\ B(m) = A \cup ((a..b - 1) \X {y})
  BY <1>1, <1>7
<1> HIDE DEF B
<1> QED BY <1>1, <1>4, <1>8

\* The luma of a box, from the four corners of the integral image.
LEMMA BoxSum ==
  ASSUME NEW p, NEW d, Picturing(p, d),
         NEW x0 \in 0..d.w, NEW x1 \in x0..d.w, NEW y0 \in 0..d.h, NEW y1 \in y0..d.h
  PROVE  LET I == Integral(p, d)
             B == (x0..x1 - 1) \X (y0..y1 - 1)
         IN  /\ Total(p, B) = I[y1][x1] - I[y0][x1] - I[y1][x0] + I[y0][x0]
             /\ Total(p, B) \in Int
<1> DEFINE w == d.w
           h == d.h
           I == Integral(p, d)
           m == y1 - y0
           B(n) == (x0..x1 - 1) \X (y0..(y0 + n) - 1)
           Good(n) == /\ IsFiniteSet(B(n)) /\ B(n) \in SUBSET Pixels(d)
                      /\ Total(p, B(n)) \in Int
                      /\ Total(p, B(n)) = I[y0 + n][x1] - I[y0][x1] - I[y0 + n][x0] + I[y0][x0]
           N == {n \in 0..m : Good(n)}
<1>1. /\ w \in Nat /\ h \in Nat /\ m \in Nat /\ y0 \in Nat /\ y0 + m = y1 /\ y0 + 0 = y0
      /\ x0 \in Nat /\ x1 \in Nat /\ x0 \in 0..w /\ x1 \in 0..w /\ y1 \leq h
  BY DEF Picturing
<1>2. p \in [Pixels(d) -> Int]
  BY DEF Picturing
<1>3. /\ \A y \in 0..h : \A x \in 0..w : I[y][x] \in Int
      /\ \A y \in 1..h : \A x \in 0..w : I[y][x] = I[y - 1][x] + RowSum(p, x, y - 1)
  BY Integrals
<1> HIDE DEF I, w, h
<1>4. 0 \in N
  <2>1. B(0) = {}
    <3>1. y0..(y0 + 0) - 1 = {}
      BY <1>1
    <3> QED BY <3>1
  <2>2. IsFiniteSet(B(0)) /\ B(0) \in SUBSET Pixels(d)
    <3> HIDE DEF B
    <3> QED BY <2>1, FS_EmptySet
  <2>3. Total(p, B(0)) = 0
    <3> HIDE DEF B
    <3> QED BY <1>2, <2>1, <2>2, TotalGrows
  <2>4. I[y0][x1] \in Int /\ I[y0][x0] \in Int
    <3>1. y0 \in 0..h
      BY <1>1
    <3> QED BY <1>1, <1>3, <3>1
  <2> DEFINE i1 == I[y0][x1]
             i0 == I[y0][x0]
  <2>5. I[y0 + 0][x1] = i1 /\ I[y0 + 0][x0] = i0
    BY <1>1
  <2> HIDE DEF i1, i0
  <2>6. I[y0 + 0][x1] - i1 - I[y0 + 0][x0] + i0 = 0
    BY <2>4, <2>5 DEF i1, i0
  <2> HIDE DEF B
  <2> QED BY <1>1, <2>2, <2>3, <2>6 DEF i1, i0
<1>5. ASSUME NEW n \in 1..m, n - 1 \in N PROVE n \in N
  <2> DEFINE C == B(n - 1)
             y == y0 + (n - 1)
  <2>1. /\ y \in 0..h - 1 /\ y + 1 \in 1..h /\ y \in 0..h /\ y + 1 \in 0..h
        /\ y + 1 = y0 + n /\ (y + 1) - 1 = y
        /\ n \in 0..m /\ y0 \in 0..h
    BY <1>1
  <2>2. /\ IsFiniteSet(C) /\ C \in SUBSET Pixels(d) /\ Total(p, C) \in Int
        /\ Total(p, C) = I[y][x1] - I[y0][x1] - I[y][x0] + I[y0][x0]
    BY <1>5
  <2>3. B(n) = C \cup ((x0..x1 - 1) \X {y})
    <3>1. y0..(y0 + n) - 1 = (y0..(y0 + (n - 1)) - 1) \cup {y}
      BY <1>1
    <3> QED BY <3>1
  <2>4. \A ij \in C : ij[2] # y
    <3>1. y \notin y0..(y0 + (n - 1)) - 1
      BY <1>1
    <3> QED BY <3>1
  <2> HIDE DEF B, C, y
  <2>5. /\ B(n) \in SUBSET Pixels(d) /\ IsFiniteSet(B(n))
        /\ Total(p, B(n)) = Total(p, C) + (RowSum(p, x1, y) - RowSum(p, x0, y))
        /\ RowSum(p, x1, y) \in Int /\ RowSum(p, x0, y) \in Int
    <3>1. y \in 0..d.h - 1
      BY <2>1 DEF h
    <3> QED BY <2>2, <2>3, <2>4, <3>1, StretchOfRow
  <2>6. /\ I[y + 1][x1] = I[y][x1] + RowSum(p, x1, y)
        /\ I[y + 1][x0] = I[y][x0] + RowSum(p, x0, y)
    BY <1>1, <1>3, <2>1
  <2>7. /\ I[y][x1] \in Int /\ I[y][x0] \in Int /\ I[y0][x1] \in Int /\ I[y0][x0] \in Int
    BY <1>1, <1>3, <2>1
  <2> DEFINE a == I[y][x1]
             b == I[y][x0]
             e == I[y0][x1]
             f == I[y0][x0]
             r1 == RowSum(p, x1, y)
             r0 == RowSum(p, x0, y)
  <2>8. /\ I[y + 1][x1] = a + r1 /\ I[y + 1][x0] = b + r0
        /\ Total(p, C) = a - e - b + f
        /\ Total(p, B(n)) = Total(p, C) + (r1 - r0)
        /\ a \in Int /\ b \in Int /\ e \in Int /\ f \in Int /\ r1 \in Int /\ r0 \in Int
    BY <2>2, <2>5, <2>6, <2>7
  <2> HIDE DEF a, b, e, f, r1, r0
  <2>9. Total(p, B(n)) = I[y + 1][x1] - e - I[y + 1][x0] + f /\ Total(p, B(n)) \in Int
    BY <2>8
  <2> QED BY <2>1, <2>5, <2>9 DEF e, f
<1>6. m \in N
  <2>1. 0..m \subseteq N
    <3> HIDE DEF N, m
    <3> QED BY <1>1, <1>4, <1>5, Induction
  <2> HIDE DEF N
  <2> QED BY <1>1, <2>1
<1>7. Good(m) /\ B(m) = (x0..x1 - 1) \X (y0..y1 - 1) /\ y0 + m = y1
  BY <1>1, <1>6
<1> HIDE DEF B, m
<1> QED BY <1>7 DEF I


\* The mean that the four corners give is that of the box, also at the edges.
LEMMA MeanOfBox ==
  ASSUME Picturing(resized, display), integral = Integral(resized, display),
         NEW x \in 0..display.w - 1, NEW y \in 0..display.h - 1
  PROVE  Mean(x, y) = BoxMean(resized, display, <<x, y>>) /\ Mean(x, y) \in Int
<1> DEFINE d == display
           w == d.w
           h == d.h
           r == Radius(d)
           x0 == AtLeast(0, x - r)
           x1 == AtMost(w, x + r + 1)
           y0 == AtLeast(0, y - r)
           y1 == AtMost(h, y + r + 1)
           B == (x0..x1 - 1) \X (y0..y1 - 1)
<1>1. w \in Nat /\ h \in Nat
  BY DEF Picturing
<1>2. r \in Nat /\ r \geq 2
  <2>1. AtMost(w, h) \in Nat
    BY <1>1 DEF AtMost
  <2> HIDE DEF w, h
  <2>2. AtMost(w, h) \div 80 \in Nat
    BY <2>1
  <2> QED BY <2>2 DEF Radius, AtLeast, w, h
<1> HIDE DEF r
<1>3. /\ x0 \in 0..w /\ x1 \in x0..w /\ y0 \in 0..h /\ y1 \in y0..h
      /\ x1 - x0 \in Nat \ {0} /\ y1 - y0 \in Nat \ {0}
      /\ x0 \in Int /\ x1 \in Int /\ y0 \in Int /\ y1 \in Int
  BY <1>1, <1>2 DEF AtLeast, AtMost
<1>4. Near(d, <<x, y>>) = B
  <2>1. \A i : i \in x - r..x + r /\ i \in 0..w - 1 <=> i \in x0..x1 - 1
    BY <1>1, <1>2 DEF AtLeast, AtMost
  <2>2. \A i : i \in y - r..y + r /\ i \in 0..h - 1 <=> i \in y0..y1 - 1
    BY <1>1, <1>2 DEF AtLeast, AtMost
  <2>3. Near(d, <<x, y>>) = ((x - r..x + r) \X (y - r..y + r)) \cap ((0..w - 1) \X (0..h - 1))
    BY DEF Near, Pixels, r
  <2> HIDE DEF x0, x1, y0, y1, w, h
  <2> QED BY <2>1, <2>2, <2>3
<1>5. Cardinality(B) = (x1 - x0) * (y1 - y0)
  <2> HIDE DEF x0, x1, y0, y1
  <2>1. /\ IsFiniteSet(x0..x1 - 1) /\ IsFiniteSet(y0..y1 - 1)
        /\ Cardinality(x0..x1 - 1) = x1 - x0 /\ Cardinality(y0..y1 - 1) = y1 - y0
    <3>1. x0 \in Int /\ x1 - 1 \in Int /\ y0 \in Int /\ y1 - 1 \in Int
      BY <1>3
    <3>2. /\ IsFiniteSet(x0..x1 - 1)
          /\ Cardinality(x0..x1 - 1) = IF x0 > x1 - 1 THEN 0 ELSE (x1 - 1) - x0 + 1
      BY <3>1, FS_Interval
    <3>3. /\ IsFiniteSet(y0..y1 - 1)
          /\ Cardinality(y0..y1 - 1) = IF y0 > y1 - 1 THEN 0 ELSE (y1 - 1) - y0 + 1
      BY <3>1, FS_Interval
    <3> QED BY <1>3, <3>2, <3>3
  <2> QED BY <2>1, FS_Product
<1> DEFINE I == Integral(resized, d)
           t == Total(resized, B)
<1>6. t = I[y1][x1] - I[y0][x1] - I[y1][x0] + I[y0][x0] /\ t \in Int
  <2> HIDE DEF x0, x1, y0, y1
  <2> QED BY <1>3, BoxSum
<1>7. Mean(x, y) = (I[y1][x1] - I[y0][x1] - I[y1][x0] + I[y0][x0]) \div ((x1 - x0) * (y1 - y0))
  BY DEF Mean, r
<1>8. BoxMean(resized, d, <<x, y>>) = t \div Cardinality(B)
  BY <1>4 DEF BoxMean, Total
<1> HIDE DEF t, I, x0, x1, y0, y1, B
<1>9. (x1 - x0) * (y1 - y0) \in Nat \ {0}
  BY <1>3
<1>10. t \div ((x1 - x0) * (y1 - y0)) \in Int
  BY <1>6, <1>9
<1> QED BY <1>5, <1>6, <1>7, <1>8, <1>10

\* Local contrast makes a luma of every luma.
LEMMA EnhancedLuma ==
  ASSUME NEW luma \in Int, NEW mean \in Int
  PROVE  Enhanced(luma, mean) \in 0..255
<1> DEFINE n == (luma - mean) * storyLocalContrastPercent
           q == Quotient(n, 100)
<1>1. n \in Int
  BY DEF storyLocalContrastPercent
<1> HIDE DEF n
<1>2. q \in Int
  <2>1. CASE n < 0
    <3>1. (-n) \div 100 \in Int
      BY <1>1
    <3>2. q = -((-n) \div 100)
      BY <2>1 DEF Quotient
    <3> QED BY <3>1, <3>2
  <2>2. CASE ~(n < 0)
    BY <1>1, <2>2 DEF Quotient
  <2> QED BY <2>1, <2>2
<1>3. Enhanced(luma, mean) = AtLeast(0, AtMost(255, luma + q))
  BY DEF Enhanced, n
<1> HIDE DEF q
<1> QED BY <1>2, <1>3 DEF AtLeast, AtMost


-----------------------------------------------------------------------------
(* The range of the photograph.                                             *)

LEMMA GreatestLuma ==
  ASSUME NEW S \in SUBSET (0..255), S # {}
  PROVE  \E m \in S : \A i \in S : i \leq m
<1> DEFINE T == {255 - i : i \in S}
<1>1. T \in SUBSET Nat /\ T # {}
  <2>1. \A i \in S : 255 - i \in Nat
    OBVIOUS
  <2>2. PICK i \in S : TRUE
    OBVIOUS
  <2>3. 255 - i \in T
    OBVIOUS
  <2> QED BY <2>1, <2>3
<1>2. PICK n \in T : \A i \in 0..n - 1 : i \notin T
  <2> HIDE DEF T
  <2> QED BY <1>1, LeastNumber
<1>3. PICK m \in S : n = 255 - m
  BY <1>2
<1>4. ASSUME NEW i \in S PROVE i \leq m
  <2>1. 255 - i \in T /\ i \in 0..255 /\ m \in 0..255
    OBVIOUS
  <2>2. 255 - i \notin 0..n - 1
    BY <1>2, <2>1
  <2> HIDE DEF T
  <2> QED BY <1>3, <2>1, <2>2
<1> QED BY <1>4

LEMMA PixelsOf ==
  ASSUME NEW d, d.w \in Nat \ {0}, d.h \in Nat \ {0}
  PROVE  IsFiniteSet(Pixels(d)) /\ Cardinality(Pixels(d)) \in Nat \ {0} /\ Pixels(d) # {}
<1>1. IsFiniteSet(0..d.w - 1) /\ IsFiniteSet(0..d.h - 1)
  BY FS_Interval
<1>2. IsFiniteSet(Pixels(d))
  BY <1>1, FS_Product DEF Pixels
<1>3. 0 \in 0..d.w - 1 /\ 0 \in 0..d.h - 1
  OBVIOUS
<1>4. Pixels(d) # {}
  <2>1. <<0, 0>> \in Pixels(d)
    BY <1>3 DEF Pixels
  <2> QED BY <2>1
<1>5. Cardinality(Pixels(d)) \in Nat /\ Cardinality(Pixels(d)) # 0
  BY <1>2, <1>4, FS_CardinalityType, FS_EmptySet
<1> QED BY <1>2, <1>4, <1>5

\* The pixels of p that are at most so bright.
UpTo(p, v) == {xy \in DOMAIN p : p[xy] \leq v}
Target(p, percent) == AtLeast(1, Percent(Cardinality(DOMAIN p), percent))

\* The histogram is counted up to its target, and not before.
LEMMA PercentileOf ==
  ASSUME NEW P, IsFiniteSet(P), P # {}, NEW p \in [P -> 0..255], NEW percent \in 0..100
  PROVE  LET v == Percentile(p, percent)
         IN  /\ v \in 0..255
             /\ Cardinality(UpTo(p, v)) \geq Target(p, percent)
             /\ \A u \in {p[xy] : xy \in P} :
                  u < v => Cardinality(UpTo(p, u)) < Target(p, percent)
<1> DEFINE L == {p[xy] : xy \in P}
           V == {v \in L : Cardinality(UpTo(p, v)) \geq Target(p, percent)}
           n == Cardinality(P)
<1>1. L \in SUBSET (0..255) /\ L # {} /\ DOMAIN p = P
  OBVIOUS
<1>2. n \in Nat /\ n \geq 1
  <2>1. n \in Nat /\ n # 0
    BY FS_CardinalityType, FS_EmptySet
  <2> QED BY <2>1
<1>3. Percentile(p, percent) = CHOOSE x \in V : \A y \in V : x =< y
  BY <1>1 DEF Percentile, Min, UpTo, Target
<1>4. Target(p, percent) \in Nat /\ Target(p, percent) \leq n
  <2>1. n * percent \in Nat /\ n * percent \leq n * 100
    BY <1>2
  <2> HIDE DEF n
  <2>2. (n * percent) \div 100 \in Nat /\ (n * percent) \div 100 \leq n
    BY <1>2, <2>1
  <2> QED BY <1>1, <1>2, <2>2 DEF Target, Percent, AtLeast, n
<1>5. PICK m \in L : \A i \in L : i \leq m
  <2> HIDE DEF L
  <2> QED BY <1>1, GreatestLuma
<1>6. m \in V
  <2>1. UpTo(p, m) = P
    BY <1>1, <1>5 DEF UpTo
  <2> QED BY <1>4, <1>5, <2>1
<1>7. V \in SUBSET Nat /\ V \in SUBSET (0..255)
  BY <1>1
<1>8. PICK v \in V : \A i \in 0..v - 1 : i \notin V
  <2> HIDE DEF V, L
  <2> QED BY <1>6, <1>7, LeastNumber
<1>9. \A y \in V : v =< y
  <2> HIDE DEF V, L
  <2> QED BY <1>7, <1>8
<1> DEFINE c == CHOOSE x \in V : \A y \in V : x =< y
<1>10. c \in V /\ \A y \in V : c =< y
  <2> HIDE DEF V, L
  <2> QED BY <1>8, <1>9
<1>11. Percentile(p, percent) = c
  BY <1>3
<1> HIDE DEF c
<1>12. \A u \in L : u < c => Cardinality(UpTo(p, u)) < Target(p, percent)
  <2>1. SUFFICES ASSUME NEW u \in L, u < c PROVE Cardinality(UpTo(p, u)) < Target(p, percent)
    OBVIOUS
  <2>2. u \notin V
    BY <1>1, <1>7, <1>10, <2>1
  <2>3. UpTo(p, u) \in SUBSET P
    BY <1>1 DEF UpTo
  <2>4. Cardinality(UpTo(p, u)) \in Nat
    BY <2>3, FS_Subset, FS_CardinalityType
  <2>5. ~(Cardinality(UpTo(p, u)) \geq Target(p, percent))
    BY <2>2
  <2> QED BY <1>4, <2>4, <2>5
<1> QED BY <1>7, <1>10, <1>11, <1>12

\* No more than two percent, rounded up, are below the low end or above the high one.
LEMMA FewBelow ==
  ASSUME NEW d, d.w \in Nat \ {0}, d.h \in Nat \ {0}, NEW p \in [Pixels(d) -> 0..255]
  PROVE  Few({xy \in Pixels(d) : p[xy] < Percentile(p, 2)}, d)
<1> DEFINE P == Pixels(d)
           n == Cardinality(P)
           v == Percentile(p, 2)
           L == {xy \in P : p[xy] < v}
           l == Cardinality(L)
<1>1. IsFiniteSet(P) /\ n \in Nat \ {0} /\ P # {} /\ DOMAIN p = P
  BY PixelsOf
<1>2. L \in SUBSET P /\ IsFiniteSet(L) /\ l \in Nat
  <2>1. L \in SUBSET P
    OBVIOUS
  <2> QED BY <1>1, <2>1, FS_Subset, FS_CardinalityType
<1>3. /\ v \in 0..255
      /\ \A u \in {p[xy] : xy \in P} : u < v => Cardinality(UpTo(p, u)) < Target(p, 2)
  <2> HIDE DEF P
  <2>1. 2 \in 0..100
    OBVIOUS
  <2> QED BY <1>1, <2>1, PercentileOf DEF P
<1> HIDE DEF v
<1>4. L # {} => l < Target(p, 2)
  <2>1. SUFFICES ASSUME L # {} PROVE l < Target(p, 2)
    OBVIOUS
  <2> DEFINE S == {p[xy] : xy \in L}
  <2>2. S \in SUBSET (0..255) /\ S # {}
    <3>1. \A xy \in L : p[xy] \in 0..255
      BY <1>2
    <3>2. PICK xy \in L : TRUE
      BY <2>1
    <3> HIDE DEF L, P
    <3>3. p[xy] \in S
      BY <3>2
    <3> QED BY <3>1, <3>3
  <2>3. PICK u \in S : \A i \in S : i \leq u
    <3> HIDE DEF S
    <3> QED BY <2>2, GreatestLuma
  <2>4. u \in {p[xy] : xy \in P} /\ u < v /\ u \in 0..255
    BY <2>2, <2>3
  <2>5. L = UpTo(p, u)
    <3>1. \A xy \in L : p[xy] \leq u
      BY <2>3
    <3>2. \A xy \in P : p[xy] \leq u => p[xy] < v
      BY <1>3, <2>4
    <3> QED BY <1>1, <3>1, <3>2 DEF UpTo
  <2> QED BY <1>3, <2>4, <2>5
<1>5. L = {} => l = 0
  BY FS_EmptySet
<1>6. Target(p, 2) = AtLeast(1, (n * 2) \div 100)
  BY <1>1 DEF Target, Percent
<1> HIDE DEF l, n, L, P
<1>7. l = 0 \/ l < AtLeast(1, (n * 2) \div 100)
  BY <1>4, <1>5, <1>6
<1>8. 50 * (l - 1) < n
  <2>1. (n * 2) \div 100 \in Nat /\ 100 * ((n * 2) \div 100) \leq n * 2
    BY <1>1
  <2> QED BY <1>1, <1>2, <1>7, <2>1 DEF AtLeast
<1> QED BY <1>8 DEF Few, l, n, L, P, v

LEMMA FewAbove ==
  ASSUME NEW d, d.w \in Nat \ {0}, d.h \in Nat \ {0}, NEW p \in [Pixels(d) -> 0..255]
  PROVE  Few({xy \in Pixels(d) : p[xy] > Percentile(p, 98)}, d)
<1> DEFINE P == Pixels(d)
           n == Cardinality(P)
           v == Percentile(p, 98)
           L == {xy \in P : p[xy] > v}
           U == UpTo(p, v)
           l == Cardinality(L)
           k == Cardinality(U)
<1>1. IsFiniteSet(P) /\ n \in Nat \ {0} /\ P # {} /\ DOMAIN p = P
  BY PixelsOf
<1>2. v \in 0..255 /\ k \geq Target(p, 98)
  <2> HIDE DEF P
  <2>1. 98 \in 0..100
    OBVIOUS
  <2> QED BY <1>1, <2>1, PercentileOf DEF P
<1> HIDE DEF v
<1>3. U \in SUBSET P /\ L = P \ U
  BY <1>1, <1>2 DEF UpTo
<1>4. l = n - k /\ k \in Nat /\ k \leq n
  <2> HIDE DEF P, U, L
  <2>1. /\ IsFiniteSet(U) /\ Cardinality(U) \leq Cardinality(P) /\ P \cap U = U
        /\ Cardinality(U) \in Nat
    BY <1>1, <1>3, FS_Subset, FS_CardinalityType
  <2>2. Cardinality(P \ U) = Cardinality(P) - Cardinality(P \cap U)
    BY <1>1, FS_Difference
  <2> QED BY <1>3, <2>1, <2>2
<1>5. Target(p, 98) = AtLeast(1, (n * 98) \div 100)
  BY <1>1 DEF Target, Percent
<1> HIDE DEF l, n, k, L, P, U
<1>6. 50 * (l - 1) < n
  <2>1. (n * 98) \div 100 \in Nat /\ n * 98 < 100 * ((n * 98) \div 100) + 100
    BY <1>1
  <2> QED BY <1>1, <1>2, <1>4, <1>5, <2>1 DEF AtLeast
<1> QED BY <1>6 DEF Few, l, n, L, P, v

-----------------------------------------------------------------------------
(* The tones keep their order.                                              *)

\* einkTone never makes the brighter of two pixels the darker one.
LEMMA TonesInOrder ==
  ASSUME NEW a \in 0..255, NEW b \in a..255, NEW low \in 0..255, NEW high \in 0..255, low < high
  PROVE  Tone(a, low, high) \leq Tone(b, low, high)
<1>1. /\ Tone(a, low, high) \in 16..132 /\ Tone(b, low, high) \in 16..132
  <2>1. b \in 0..255
    OBVIOUS
  <2> QED BY <2>1, ToneInRange DEF storyShadowFloor, storyHighlightCeiling
<1>2. CASE a \leq low
  BY <1>1, <1>2 DEF Tone, storyShadowFloor
<1>3. CASE b \geq high /\ ~(b \leq low)
  BY <1>1, <1>3 DEF Tone, storyHighlightCeiling
<1>4. CASE ~(a \leq low) /\ ~(b \geq high)
  <2>1. /\ high - low \in 1..255 /\ b - low \in 1..(high - low) - 1 /\ a - low \in 1..b - low
        /\ a - low \in 1..(high - low) - 1
        /\ ~(b \leq low) /\ ~(a \geq high)
    BY <1>4
  <2>2. /\ Curve(a - low, high - low) \leq Curve(b - low, high - low)
        /\ Curve(a - low, high - low) \in 0..116 /\ Curve(b - low, high - low) \in 0..116
    BY <2>1, PictureAssumption
  <2>3. /\ Tone(a, low, high) = 16 + Curve(a - low, high - low)
        /\ Tone(b, low, high) = 16 + Curve(b - low, high - low)
    BY <1>4, <2>1 DEF Tone, storyShadowFloor
  <2> QED BY <2>2, <2>3
<1> QED BY <1>2, <1>3, <1>4

\* Nor does the veil, which is the same for a row.
LEMMA VeiledInOrder ==
  ASSUME NEW a \in 0..255, NEW b \in a..255, NEW h \in Nat \ {0}, NEW y \in 0..h - 1
  PROVE  Veiled(a, y, h) \leq Veiled(b, y, h)
<1> DEFINE q == (y * 100) \div h
           k == 100 - Scrim(q)
<1>1. q \in 0..99
  <2>1. q \in Nat /\ q * h \leq y * 100
    BY Floor
  <2>2. q * h < 100 * h
    BY <2>1
  <2>. QED BY <2>1, <2>2, Cancel
<1> HIDE DEF q
<1>2. Scrim(q) \in 0..25
  BY <1>1, ScrimInRange
<1>3. k \in 75..100
  BY <1>2
<1>4. Veiled(a, y, h) = (a * k) \div 100 /\ Veiled(b, y, h) = (b * k) \div 100
  BY DEF Veiled, Percent, q
<1> HIDE DEF k
<1>5. a * k \in Nat /\ b * k \in Nat /\ a * k \leq b * k
  BY <1>3
<1>6. (a * k) \div 100 \leq (b * k) \div 100
  BY <1>5
<1> QED BY <1>4, <1>6


-----------------------------------------------------------------------------
(* The preparation, step by step.                                           *)

Steps == {"decode", "refused", "scale", "sum", "enhance", "stretch", "tone", "done"}

\* Local contrast moves every pixel away from the mean of its box.
Contrasted ==
  \A xy \in Pixels(display) :
    detail[xy] = Enhanced(resized[xy], BoxMean(resized, display, xy))

\* The range that is stretched, and what it leaves out.
Ranged ==
  /\ range \in [low : 0..255, high : 0..255] /\ range.low < range.high
  /\ Few({xy \in Pixels(display) : detail[xy] < range.low}, display)
  /\ Few({xy \in Pixels(display) : detail[xy] > range.high}, display)

Toned ==
  [xy \in Pixels(display) |->
     Veiled(Tone(detail[xy], range.low, range.high), xy[2], display.h)]

\* What each step hands to the next.
PictureInv ==
  /\ step \in Steps /\ source \in Sources /\ display \in Displays
  /\ step \notin {"decode", "refused"} => crop = Cropped(source, display)
  /\ step \notin {"decode", "refused", "scale"} => Picturing(resized, display)
  /\ step = "enhance" => integral = Integral(resized, display)
  /\ step \in {"stretch", "tone", "done"} => Picturing(detail, display)
  /\ step = "stretch" => Contrasted
  /\ step \in {"tone", "done"} => Ranged
  /\ step = "done" => background = Toned

LEMMA SizesOf ==
  ASSUME PictureInv
  PROVE  /\ source \in [w : Nat, h : Nat] /\ display \in [w : Nat \ {0}, h : Nat \ {0}]
         /\ display.w \in Nat \ {0} /\ display.h \in Nat \ {0}
<1>1. source \in [w : Nat, h : Nat] /\ display \in [w : Nat \ {0}, h : Nat \ {0}]
  BY PictureAssumption DEF PictureInv
<1> QED BY <1>1

LEMMA ScaleKeeps == PictureInv /\ Scale => PictureInv'
<1> SUFFICES ASSUME PictureInv, Scale PROVE PictureInv'
  OBVIOUS
<1>1. resized' \in [Pixels(display) -> 0..255]
  <2>1. Black(display) \in [Pixels(display) -> 0..255]
    BY DEF Black
  <2>2. Photos(display) \subseteq [Pixels(display) -> 0..255]
    BY PictureAssumption DEF PictureInv
  <2> QED BY <2>1, <2>2 DEF Scale
<1>2. Picturing(resized, display)'
  BY <1>1, SizesOf DEF Picturing, Scale
<1> QED BY <1>2 DEF Scale, PictureInv, Steps

LEMMA EnhanceKeeps == PictureInv /\ Enhance => PictureInv'
<1> SUFFICES ASSUME PictureInv, Enhance PROVE PictureInv'
  OBVIOUS
<1>1. /\ step = "enhance" /\ step' = "stretch" /\ resized' = resized /\ display' = display
      /\ source' = source /\ crop' = crop
      /\ detail' = [xy \in Pixels(display) |-> Enhanced(resized[xy], Mean(xy[1], xy[2]))]
  BY DEF Enhance
<1>2. Picturing(resized, display) /\ integral = Integral(resized, display)
  BY <1>1 DEF PictureInv
<1>3. ASSUME NEW xy \in Pixels(display)
      PROVE  /\ detail'[xy] = Enhanced(resized[xy], BoxMean(resized, display, xy))
             /\ detail'[xy] \in 0..255
  <2>1. xy[1] \in 0..display.w - 1 /\ xy[2] \in 0..display.h - 1 /\ xy = <<xy[1], xy[2]>>
    BY DEF Pixels
  <2>2. /\ Mean(xy[1], xy[2]) = BoxMean(resized, display, <<xy[1], xy[2]>>)
        /\ Mean(xy[1], xy[2]) \in Int
    BY <1>2, <2>1, MeanOfBox
  <2>3. resized[xy] \in Int
    BY <1>2 DEF Picturing
  <2>4. Enhanced(resized[xy], Mean(xy[1], xy[2])) \in 0..255
    BY <2>2, <2>3, EnhancedLuma
  <2> QED BY <1>1, <2>1, <2>2, <2>4
<1>4. Picturing(detail, display)'
  <2>1. detail' \in [Pixels(display) -> 0..255]
    BY <1>1, <1>3
  <2> QED BY <1>1, <1>2, <2>1 DEF Picturing
<1>5. Contrasted'
  BY <1>1, <1>3 DEF Contrasted
<1>6. Picturing(resized, display)'
  BY <1>1, <1>2
<1> QED BY <1>1, <1>4, <1>5, <1>6 DEF PictureInv, Steps

LEMMA StretchKeeps == PictureInv /\ Stretch => PictureInv'
<1> SUFFICES ASSUME PictureInv, Stretch PROVE PictureInv'
  OBVIOUS
<1> DEFINE low == Percentile(detail, 2)
           high == Percentile(detail, 98)
<1>1. /\ step = "stretch" /\ step' = "tone" /\ resized' = resized /\ display' = display
      /\ source' = source /\ crop' = crop /\ detail' = detail
      /\ range' = IF high - low < 32 THEN [low |-> 0, high |-> 255]
                  ELSE [low |-> low, high |-> high]
  BY DEF Stretch
<1>2. Picturing(detail, display) /\ display.w \in Nat \ {0} /\ display.h \in Nat \ {0}
  BY <1>1, SizesOf DEF PictureInv
<1>3. detail \in [Pixels(display) -> 0..255]
  BY <1>2 DEF Picturing
<1>4. low \in 0..255 /\ high \in 0..255
  <2>1. IsFiniteSet(Pixels(display)) /\ Pixels(display) # {}
    BY <1>2, PixelsOf
  <2>2. 2 \in 0..100 /\ 98 \in 0..100
    OBVIOUS
  <2> QED BY <1>3, <2>1, <2>2, PercentileOf
<1>5. /\ Few({xy \in Pixels(display) : detail[xy] < low}, display)
      /\ Few({xy \in Pixels(display) : detail[xy] > high}, display)
  BY <1>2, <1>3, FewBelow, FewAbove
<1> HIDE DEF low, high
<1>6. Ranged'
  <2>1. CASE high - low < 32
    <3>1. range' = [low |-> 0, high |-> 255]
      BY <1>1, <2>1
    <3>2. /\ {xy \in Pixels(display) : detail[xy] < 0} = {}
          /\ {xy \in Pixels(display) : detail[xy] > 255} = {}
      BY <1>3
    <3>3. \A S : S = {} => Few(S, display)
      <4>1. Cardinality(Pixels(display)) \in Nat
        BY <1>2, PixelsOf
      <4> QED BY <4>1, FS_EmptySet DEF Few
    <3>4. /\ range' \in [low : 0..255, high : 0..255] /\ range'.low < range'.high
          /\ range'.low = 0 /\ range'.high = 255
      BY <3>1
    <3>5. {xy \in Pixels(display) : detail[xy] < range'.low} = {}
      BY <3>2, <3>4
    <3>6. {xy \in Pixels(display) : detail[xy] > range'.high} = {}
      BY <3>2, <3>4
    <3>7. /\ Few({xy \in Pixels(display) : detail[xy] < range'.low}, display)
          /\ Few({xy \in Pixels(display) : detail[xy] > range'.high}, display)
      BY <3>3, <3>5, <3>6
    <3> QED BY <1>1, <3>4, <3>7 DEF Ranged
  <2>2. CASE ~(high - low < 32)
    <3>1. range' = [low |-> low, high |-> high]
      BY <1>1, <2>2
    <3>2. /\ range' \in [low : 0..255, high : 0..255] /\ range'.low = low /\ range'.high = high
          /\ low < high
      BY <1>4, <2>2, <3>1
    <3> QED BY <1>1, <1>5, <3>2 DEF Ranged
  <2> QED BY <2>1, <2>2
<1>7. Picturing(detail, display)' /\ Picturing(resized, display)'
  BY <1>1, <1>2 DEF PictureInv
<1> QED BY <1>1, <1>6, <1>7 DEF PictureInv, Steps

LEMMA PictureStep == PictureInv /\ [Next]_vars => PictureInv'
<1> SUFFICES ASSUME PictureInv, [Next]_vars PROVE PictureInv'
  OBVIOUS
<1>1. CASE Decode
  BY <1>1 DEF Decode, PictureInv, Steps
<1>2. CASE Scale
  BY <1>2, ScaleKeeps
<1>3. CASE Sum
  <2>1. Picturing(resized, display)'
    BY <1>3 DEF Sum, PictureInv
  <2> QED BY <1>3, <2>1 DEF Sum, PictureInv, Steps
<1>4. CASE Enhance
  BY <1>4, EnhanceKeeps
<1>5. CASE Stretch
  BY <1>5, StretchKeeps
<1>6. CASE Finish
  <2>1. Picturing(resized, display)' /\ Picturing(detail, display)' /\ Ranged'
    BY <1>6 DEF Finish, PictureInv, Ranged
  <2>2. background' = Toned'
    BY <1>6 DEF Finish, Toned
  <2> QED BY <1>6, <2>1, <2>2 DEF Finish, PictureInv, Steps
<1>7. CASE UNCHANGED vars
  BY <1>7 DEF vars, PictureInv, Contrasted, Ranged, Toned
<1> QED BY <1>1, <1>2, <1>3, <1>4, <1>5, <1>6, <1>7 DEF Next

LEMMA PictureBegins == Init => PictureInv
BY DEF Init, PictureInv, Steps

\* What is behind the copy of a prepared picture is dim enough for white type, whatever the
\* photograph (prepareStoryBackground with the regions of newStoryLayout and the genre screen).
THEOREM PicturesStayReadable == Spec => []Readable
<1>1. PictureInv => Readable
  <2>1. SUFFICES ASSUME PictureInv, step = "done", display.h \geq 100, NEW xy \in Pixels(display)
                 PROVE  Dim(background[xy], xy[2], display.w, display.h)
    BY DEF Readable
  <2>2. /\ background[xy] = Veiled(Tone(detail[xy], range.low, range.high), xy[2], display.h)
    BY <2>1 DEF PictureInv, Toned
  <2>3. detail[xy] \in 0..255 /\ range.low \in 0..255 /\ range.high \in 0..255
    BY <2>1 DEF PictureInv, Picturing, Ranged
  <2>4. display.w \in Nat /\ display.h \in Nat /\ xy[2] \in 0..display.h - 1
    BY <2>1, SizesOf DEF Pixels
  <2> DEFINE w == display.w
             h == display.h
             y == xy[2]
             luma == detail[xy]
             low == range.low
             high == range.high
  <2> HIDE DEF w, h, y, luma, low, high
  <2>5. /\ w \in Nat /\ h \in Nat /\ h \geq 100 /\ y \in 0..h - 1
        /\ luma \in 0..255 /\ low \in 0..255 /\ high \in 0..255
    BY <2>1, <2>3, <2>4 DEF w, h, y, luma, low, high
  <2>6. Dim(Veiled(Tone(luma, low, high), y, h), y, w, h)
    BY <2>5, CopyStaysReadable
  <2> QED BY <2>2, <2>6 DEF w, h, y, luma, low, high
<1> QED BY <1>1, PictureBegins, PictureStep, PTL DEF Spec

\* The crop covers the display, the integral image gives each pixel the mean of its own box,
\* few pixels are outside the range that is stretched, and the tones keep their order, for
\* every photograph on every display.
THEOREM PicturesStayTrue == Spec => []TrueToPhoto
<1>1. PictureInv => TrueToPhoto
  <2>1. SUFFICES ASSUME PictureInv PROVE TrueToPhoto
    OBVIOUS
  <2>2. step \notin {"decode", "refused"} => Covers(source, display, crop)
    BY <2>1, SizesOf, CropCovers DEF PictureInv
  <2>3. ASSUME step = "done", NEW y \in 0..display.h - 1,
               NEW x1 \in 0..display.w - 1, NEW x2 \in 0..display.w - 1,
               detail[<<x1, y>>] \leq detail[<<x2, y>>]
        PROVE  background[<<x1, y>>] \leq background[<<x2, y>>]
    <3> DEFINE a == detail[<<x1, y>>]
               b == detail[<<x2, y>>]
    <3>1. Picturing(detail, display) /\ Ranged /\ background = Toned
      BY <2>1, <2>3 DEF PictureInv
    <3>2. /\ <<x1, y>> \in Pixels(display) /\ <<x2, y>> \in Pixels(display)
          /\ a \in 0..255 /\ b \in 0..255
      BY <3>1, Luma
    <3>3. /\ background[<<x1, y>>] = Veiled(Tone(a, range.low, range.high), y, display.h)
          /\ background[<<x2, y>>] = Veiled(Tone(b, range.low, range.high), y, display.h)
      BY <3>1, <3>2 DEF Toned
    <3>4. /\ range.low \in 0..255 /\ range.high \in 0..255 /\ range.low < range.high
          /\ display.h \in Nat \ {0} /\ a \leq b
      BY <2>1, <2>3, <3>1, SizesOf DEF Ranged
    <3> DEFINE s == Tone(a, range.low, range.high)
               t == Tone(b, range.low, range.high)
    <3>5. s \leq t /\ s \in 16..132 /\ t \in 16..132
      <4>1. b \in a..255
        BY <3>2, <3>4
      <4>2. s \leq t
        BY <3>2, <3>4, <4>1, TonesInOrder
      <4> QED BY <3>2, <3>4, <4>2, ToneInRange DEF storyShadowFloor, storyHighlightCeiling
    <3> HIDE DEF a, b, s, t
    <3>6. t \in s..255 /\ s \in 0..255
      BY <3>5
    <3> QED BY <3>3, <3>4, <3>6, VeiledInOrder DEF s, t
  <2> QED BY <2>1, <2>2, <2>3 DEF TrueToPhoto, PictureInv, Contrasted, Ranged
<1> QED BY <1>1, PictureBegins, PictureStep, PTL DEF Spec

=============================================================================
