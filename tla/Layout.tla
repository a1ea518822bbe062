------------------------------- MODULE Layout -------------------------------
(***************************************************************************)
(* Where the frames put their regions on a display of w by h pixels        *)
(* (internal/kindle: clock.go, story.go, genre.go): integer arithmetic     *)
(* whose divisions round down, as Go's do for what is not negative.  Texts *)
(* are left out but for the number of their glyphs.                        *)
(***************************************************************************)
EXTENDS Integers

Percent(n, p) == (n * p) \div 100
PerMille(n, p) == (n * p) \div 1000
AtLeast(least, n) == IF n < least THEN least ELSE n
AtMost(most, n) == IF n > most THEN most ELSE n

Region(t, l, w, h) == [top |-> t, left |-> l, width |-> w, height |-> h]

Right(r) == r.left + r.width
Bottom(r) == r.top + r.height

-----------------------------------------------------------------------------
(* The clock dashboard (newDashboardLayout, drawStaticChrome).              *)

Line_Bug(h) == PerMille(h, 2)
Line(h) == AtLeast(2, PerMille(h, 2))

MarginX(w) == Percent(w, 5)
ContentW(w) == w - 2 * MarginX(w)

Band(w, h, top, height) == Region(Percent(h, top), MarginX(w), ContentW(w), Percent(h, height))

Clock(w, h) == Region(0, Percent(w, 1), w - 2 * Percent(w, 1), Percent(h, 55))
ClockRule(w, h) ==
  Region(Percent(h, 55), (w - Percent(w, 38)) \div 2, Percent(w, 38), Line(h))
Date(w, h) == Band(w, h, 56, 9)
Divider(w, h) == [Band(w, h, 66, 0) EXCEPT !.height = Line(h)]
Climate(w, h) == Band(w, h, 67, 8)

DivW(w) == AtLeast(2, PerMille(w, 2))
Gutter(w) == AtLeast(DivW(w) + 4, PerMille(w, 6))
ColW(w) == (ContentW(w) - 3 * Gutter(w)) \div 4
ColLeft(w, i) == MarginX(w) + i * (ColW(w) + Gutter(w))
MetricsH(h) == Percent(h, 23)

\* A part of column i, in percent of the height of the strip.
Cell(w, h, i, top, height) ==
  Region(Percent(h, 76) + Percent(MetricsH(h), top), ColLeft(w, i), ColW(w),
         Percent(MetricsH(h), height))

Metric(w, h, i) == Cell(w, h, i, 0, 100)
MetricLabel(w, h, i) == Cell(w, h, i, 0, 16)
MetricNumber(w, h, i) == Cell(w, h, i, 25, 46)
MetricUnit(w, h, i) == Cell(w, h, i, 76, 18)

MetricRule(w, h, i) ==
  LET ruleW == AtLeast(2, Percent(ColW(w), 48))
  IN  Region(Percent(h, 76) + Percent(MetricsH(h), 19), ColLeft(w, i) + (ColW(w) - ruleW) \div 2,
             ruleW, Line(h))

MetricDivider(w, h, i) ==
  Region(Percent(h, 76) + Percent(MetricsH(h), 16),
         ColLeft(w, i) + ColW(w) + (Gutter(w) - DivW(w)) \div 2, DivW(w),
         AtLeast(2, Percent(MetricsH(h), 68)))

-----------------------------------------------------------------------------
(* The time and its period (drawClock), in the clock box b.                 *)

PeriodSize(b) == AtLeast(1, Percent(b.height, 10))
Gap(b) == AtLeast(6, PerMille(b.width, 6))
Squeezed(b) == b.width - Gap(b) - (PeriodSize(b) * 20) \div 10 < b.width \div 2
TimeAvailW(b) ==
  IF Squeezed(b) THEN b.width \div 2 ELSE b.width - Gap(b) - (PeriodSize(b) * 20) \div 10
PeriodWidth(b) ==
  IF Squeezed(b) THEN AtLeast(PeriodSize(b) * 2, b.width - Gap(b) - b.width \div 2)
  ELSE (PeriodSize(b) * 20) \div 10

\* The largest face that fits the height and the width (a smaller one may be asked for).
TimeFont(b, glyphs) ==
  AtLeast(1, AtMost((TimeAvailW(b) * 100) \div (44 * glyphs + 8), Percent(b.height, 98)))

\* The time is centred, not the time with its period.
TimeBox(b, glyphs) ==
  LET font == TimeFont(b, glyphs)
      width == AtMost(TimeAvailW(b), Percent(font, 44 * glyphs) + Percent(font, 12))
  IN  Region(b.top, b.left + (b.width - width) \div 2, width, b.height)

PeriodBox(b, glyphs) ==
  Region(b.top + Percent(b.height, 22),
         AtMost(Right(b) - PeriodWidth(b), Right(TimeBox(b, glyphs)) + Gap(b)),
         PeriodWidth(b), Percent(b.height, 42))

-----------------------------------------------------------------------------
(* The story (newStoryLayout), the genre label and the title of an alert.   *)

StoryLeft(w) == Percent(w, 7)
StoryWidth(w) == w - 2 * StoryLeft(w)
StoryBand(w, h, top, height) ==
  Region(Percent(h, top), StoryLeft(w), StoryWidth(w), Percent(h, height))

StoryGenre(w, h) == StoryBand(w, h, 6, 8)
StoryRule(w, h) ==
  Region(Percent(h, 15), StoryLeft(w), AtMost(StoryWidth(w), Percent(w, 13)), Line(h))
StoryTitle(w, h) == StoryBand(w, h, 18, 42)
StoryDescription(w, h) == StoryBand(w, h, 62, 24)
StorySource(w, h) == StoryBand(w, h, 88, 6)

GenreFont(h) == AtLeast(48, Percent(h, 12))
GenreBox(w, h) == Region(Percent(h, 35), 0, w, Percent(h, 30))

AlertFont == 200

-----------------------------------------------------------------------------
(* What must hold of them.                                                  *)

Above(r, s) == Bottom(r) \leq s.top
LeftOf(r, s) == Right(r) \leq s.left
Within(r, s) == r.top \geq s.top /\ r.left \geq s.left /\ Bottom(r) \leq Bottom(s) /\ Right(r) \leq Right(s)

\* A region FBInk takes: on the screen, and larger than the one pixel it refuses, for which a
\* text ends its frame with an error and a rule is left out.
Drawable(r, w, h) == Within(r, Region(0, 0, w, h)) /\ r.width \geq 2 /\ r.height \geq 2

\* The dashboard: its bands follow each other downwards, as do the parts of a column, and the
\* columns stand side by side with a divider in every gutter.
DashboardFits(w, h) ==
  /\ \A r \in {Clock(w, h), ClockRule(w, h), Date(w, h), Divider(w, h), Climate(w, h)} :
       Drawable(r, w, h)
  /\ Above(Clock(w, h), ClockRule(w, h)) /\ Above(ClockRule(w, h), Date(w, h))
  /\ Above(Date(w, h), Divider(w, h)) /\ Above(Divider(w, h), Climate(w, h))
  /\ \A i \in 0..3 :
       /\ Above(Climate(w, h), Metric(w, h, i))
       /\ \A r \in {MetricLabel(w, h, i), MetricRule(w, h, i), MetricNumber(w, h, i),
                    MetricUnit(w, h, i)} : Drawable(r, w, h) /\ Within(r, Metric(w, h, i))
       /\ Above(MetricLabel(w, h, i), MetricRule(w, h, i))
       /\ Above(MetricRule(w, h, i), MetricNumber(w, h, i))
       /\ Above(MetricNumber(w, h, i), MetricUnit(w, h, i))
  /\ \A i \in 0..2 :
       /\ Drawable(MetricDivider(w, h, i), w, h)
       /\ LeftOf(Metric(w, h, i), MetricDivider(w, h, i))
       /\ LeftOf(MetricDivider(w, h, i), Metric(w, h, i + 1))

\* Time and period stay in the clock's box; of one-digit hours the period is beside the time.
ClockFits(w, h) ==
  \A glyphs \in {4, 5} :
    LET b == Clock(w, h)
        t == TimeBox(b, glyphs)
        p == PeriodBox(b, glyphs)
    IN  /\ Within(t, b) /\ Within(p, b)
        /\ Drawable(t, w, h) /\ Drawable(p, w, h)
        /\ PeriodSize(b) \leq p.height
        /\ glyphs = 4 => LeftOf(t, p)

StoryFits(w, h) ==
  /\ \A r \in {StoryGenre(w, h), StoryRule(w, h), StoryTitle(w, h), StoryDescription(w, h),
               StorySource(w, h)} : Drawable(r, w, h)
  /\ Above(StoryGenre(w, h), StoryRule(w, h)) /\ Above(StoryRule(w, h), StoryTitle(w, h))
  /\ Above(StoryTitle(w, h), StoryDescription(w, h))
  /\ Above(StoryDescription(w, h), StorySource(w, h))

\* Sizes that do not follow the display must still fit it.
LabelsFit(w, h) ==
  /\ Drawable(GenreBox(w, h), w, h) /\ GenreFont(h) \leq GenreBox(w, h).height
  /\ AlertFont \leq h

=============================================================================
