------------------------------- MODULE Picture --------------------------------
(***************************************************************************)
(* What prepareStoryBackground makes of a photograph (internal/kindle,     *)
(* story.go): crop, scaling, local contrast, tones and the veil under the  *)
(* copy, step by step.  A picture is a function from the pixels <<x, y>>   *)
(* of the display to their luma.  The decoder and the scaler are outside.  *)
(***************************************************************************)
EXTENDS Layout, FiniteSetsExt

CONSTANTS Sources,        \* the sizes a file may decode to
          Displays,
          Photos(_),      \* what the scaler may make of a photograph, on a display
          Curve(_, _)     \* 116 times the power 0.92 of a fraction, rounded

Pixels(d) == (0..d.w - 1) \X (0..d.h - 1)

ASSUME PictureAssumption ==
  /\ Sources \subseteq [w : Nat, h : Nat]
  /\ Displays \subseteq [w : Nat \ {0}, h : Nat \ {0}]
  /\ \A d \in Displays : Photos(d) \subseteq [Pixels(d) -> 0..255]
  /\ \A q \in 1..255 : \A p \in 1..q - 1 :
       Curve(p, q) \in 0..116 /\ \A o \in 1..p : Curve(o, q) \leq Curve(p, q)

VARIABLES
  step,        \* the next one: decode, scale, sum, enhance, stretch or tone; done or refused
  source, display,
  crop,        \* the part of the source that is used
  resized,
  integral,    \* the luma left of and above a corner
  detail,
  range,       \* the lumas that become the floor and the ceiling
  background

vars == <<step, source, display, crop, resized, integral, detail, range, background>>

storyScrimPeakPercent == 25
storyShadowFloor == 16
storyHighlightCeiling == 132
storyLocalContrastPercent == 40

Black(d) == [xy \in Pixels(d) |-> 0]
Blank == <<>>

Init ==
  /\ step = "decode" /\ source \in Sources /\ display \in Displays
  /\ crop = Region(0, 0, 0, 0)
  /\ resized = Blank /\ integral = Blank /\ detail = Blank /\ range = Blank
  /\ background = Blank

-----------------------------------------------------------------------------
Supported(s) == s.w \in 1..10000 /\ s.h \in 1..10000 /\ s.w * s.h \leq 40000000

\* The cover crop: the full height of a source that is wider than the display, or its full
\* width, and the middle of the other.
Cropped(s, d) ==
  LET w == (s.h * d.w) \div d.h
      h == (s.w * d.h) \div d.w
  IN  IF s.w * d.h > d.w * s.h THEN Region(0, (s.w - w) \div 2, w, s.h)
      ELSE Region((s.h - h) \div 2, 0, s.w, h)

Decode ==
  /\ step = "decode"
  /\ IF Supported(source) THEN step' = "scale" /\ crop' = Cropped(source, display)
     ELSE step' = "refused" /\ UNCHANGED crop
  /\ UNCHANGED <<source, display, resized, integral, detail, range, background>>

\* The scaler does nothing when there is nothing to scale.
Scale ==
  /\ step = "scale" /\ step' = "sum"
  /\ IF crop.width = 0 \/ crop.height = 0 THEN resized' = Black(display)
     ELSE resized' \in Photos(display)
  /\ UNCHANGED <<source, display, crop, integral, detail, range, background>>

-----------------------------------------------------------------------------
(* enhanceLocalContrast.                                                    *)

RowSum(p, x, y) ==
  LET sum[i \in 0..x] == IF i = 0 THEN 0 ELSE sum[i - 1] + p[<<i - 1, y>>]
  IN  sum[x]

Integral(p, d) ==
  LET sum[y \in 0..d.h] ==
        [x \in 0..d.w |-> IF y = 0 THEN 0 ELSE sum[y - 1][x] + RowSum(p, x, y - 1)]
  IN  sum

Sum ==
  /\ step = "sum" /\ step' = "enhance"
  /\ integral' = Integral(resized, display)
  /\ UNCHANGED <<source, display, crop, resized, detail, range, background>>

Radius(d) == AtLeast(2, AtMost(d.w, d.h) \div 80)

\* Luma of the box around a pixel, as far as it is in the picture, from its four corners.
Mean_Bug(x, y) ==
  LET r == Radius(display)
      x0 == AtLeast(0, x - r)  x1 == AtMost(display.w, x + r)
      y0 == AtLeast(0, y - r)  y1 == AtMost(display.h, y + r + 1)
  IN  (integral[y1][x1] - integral[y0][x1] - integral[y1][x0] + integral[y0][x0])
        \div ((x1 - x0) * (y1 - y0))
Mean(x, y) ==
  LET r == Radius(display)
      x0 == AtLeast(0, x - r)  x1 == AtMost(display.w, x + r + 1)
      y0 == AtLeast(0, y - r)  y1 == AtMost(display.h, y + r + 1)
  IN  (integral[y1][x1] - integral[y0][x1] - integral[y1][x0] + integral[y0][x0])
        \div ((x1 - x0) * (y1 - y0))

\* Go's division is towards zero.
Quotient(n, d) == IF n < 0 THEN -((-n) \div d) ELSE n \div d

Enhanced(luma, mean) ==
  AtLeast(0, AtMost(255, luma + Quotient((luma - mean) * storyLocalContrastPercent, 100)))

Enhance ==
  /\ step = "enhance" /\ step' = "stretch"
  /\ detail' = [xy \in Pixels(display) |-> Enhanced(resized[xy], Mean(xy[1], xy[2]))]
  /\ UNCHANGED <<source, display, crop, resized, integral, range, background>>

-----------------------------------------------------------------------------
(* The range of the photograph, and the range of the panel.                 *)

\* The first luma with which so many pixels have been seen.
Percentile(p, percent) ==
  LET target == AtLeast(1, Percent(Cardinality(DOMAIN p), percent))
      Seen(v) == Cardinality({xy \in DOMAIN p : p[xy] \leq v})
  IN  Min({v \in {p[xy] : xy \in DOMAIN p} : Seen(v) \geq target})

\* What is nearly flat is not stretched.
Stretch ==
  /\ step = "stretch" /\ step' = "tone"
  /\ \E low \in {Percentile(detail, 2)}, high \in {Percentile(detail, 98)} :
       range' = IF high - low < 32 THEN [low |-> 0, high |-> 255] ELSE [low |-> low, high |-> high]
  /\ UNCHANGED <<source, display, crop, resized, integral, detail, background>>

\* einkTone, without its ceiling and with it.
Tone_Bug(luma, low, high) ==
  IF luma \leq low THEN storyShadowFloor ELSE storyShadowFloor + Curve(luma - low, high - low)
Tone(luma, low, high) ==
  IF luma \leq low THEN storyShadowFloor
  ELSE IF luma \geq high THEN storyHighlightCeiling
  ELSE storyShadowFloor + Curve(luma - low, high - low)

\* storyScrimPercent: in from the top, steady over the copy, easing off to the bottom.
Scrim(yPct) ==
  IF yPct < 8 THEN (yPct * storyScrimPeakPercent) \div 8
  ELSE IF yPct < 82 THEN storyScrimPeakPercent
  ELSE IF yPct < 100 THEN (storyScrimPeakPercent * (100 - yPct)) \div 18
  ELSE 0

Veiled(luma, y, h) == Percent(luma, 100 - Scrim((y * 100) \div h))

Finish ==
  /\ step = "tone" /\ step' = "done"
  /\ background' = [xy \in Pixels(display) |->
                       Veiled(Tone(detail[xy], range.low, range.high), xy[2], display.h)]
  /\ UNCHANGED <<source, display, crop, resized, integral, detail, range>>

-----------------------------------------------------------------------------
Next == Decode \/ Scale \/ Sum \/ Enhance \/ Stretch \/ Finish

Spec == Init /\ [][Next]_vars

-----------------------------------------------------------------------------
\* The copy is white type without a ground of its own, in the regions Layout puts it: whatever
\* the photograph, what is behind it keeps a distance from white of more than half the range,
\* and no shadow is crushed to black.  The test of the scrim says 110 at its peak; at the top
\* of the genre and over the source it is not at its peak.  (On less than a hundred lines
\* rounding moves the regions out of the veil.)
Rows(r) == r.top..Bottom(r) - 1

Dim(luma, y, w, h) ==
  /\ luma \in 12..storyHighlightCeiling
  /\ y \in Rows(StoryTitle(w, h)) \cup Rows(GenreBox(w, h)) => luma \leq 99
  /\ y \in Rows(StoryGenre(w, h)) \cup Rows(StoryDescription(w, h)) => luma \leq 112
  /\ y \in Rows(StorySource(w, h)) => luma \leq 120

Readable ==
  step = "done" /\ display.h \geq 100 =>
    \A xy \in Pixels(display) : Dim(background[xy], xy[2], display.w, display.h)

\* The part that is used is in the middle of the source, reaches two of its opposite edges and
\* has the proportions of the display, but for the fraction of a pixel.
Covers(s, d, c) ==
  /\ Within(c, Region(0, 0, s.w, s.h))
  /\ c.width = s.w \/ c.height = s.h
  /\ c.left - (s.w - Right(c)) \in {-1, 0} /\ c.top - (s.h - Bottom(c)) \in {-1, 0}
  /\ c.width * d.h - c.height * d.w \in -d.h + 1..d.w - 1

\* The mean of what is in the picture of a box, pixel by pixel.
Near(d, xy) ==
  LET r == Radius(d)
  IN  ((xy[1] - r..xy[1] + r) \X (xy[2] - r..xy[2] + r)) \cap Pixels(d)
BoxMean(p, d, xy) ==
  MapThenSumSet(LAMBDA ij : p[ij], Near(d, xy)) \div Cardinality(Near(d, xy))

Few(S, d) == 50 * (Cardinality(S) - 1) < Cardinality(Pixels(d))

\* The picture stays true to the photograph.  The crop covers the display.  Local contrast
\* moves each pixel away from the mean around it, by two fifths of their distance.  At most
\* two percent, rounded up, are outside the range that is stretched, and in a row no pixel
\* becomes darker than one it was brighter than.
TrueToPhoto ==
  /\ step \notin {"decode", "refused"} => Covers(source, display, crop)
  /\ step = "stretch" =>
       \A xy \in Pixels(display) :
         detail[xy] = Enhanced(resized[xy], BoxMean(resized, display, xy))
  /\ step = "done" =>
       /\ Few({xy \in Pixels(display) : detail[xy] < range.low}, display)
       /\ Few({xy \in Pixels(display) : detail[xy] > range.high}, display)
       /\ \A y \in 0..display.h - 1 : \A x1, x2 \in 0..display.w - 1 :
            detail[<<x1, y>>] \leq detail[<<x2, y>>] =>
              background[<<x1, y>>] \leq background[<<x2, y>>]

=============================================================================
