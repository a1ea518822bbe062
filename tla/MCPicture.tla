------------------------------ MODULE MCPicture -------------------------------
(* Every picture of three lumas on displays of a few pixels, and stripes on one of 119   *)
(* lines, where the regions of the copy are rounded as on a panel.                          *)
EXTENDS Picture

MCSources == {[w |-> 1, h |-> 1], [w |-> 4, h |-> 3], [w |-> 8000, h |-> 4001],
              [w |-> 3001, h |-> 8000], [w |-> 10000, h |-> 5000]}
MCDisplays == {[w |-> 3, h |-> 2], [w |-> 6, h |-> 1], [w |-> 1, h |-> 5],
               [w |-> 2, h |-> 119]}

Stripes(d) ==
  {[xy \in Pixels(d) |-> IF xy[2] < k THEN a ELSE IF xy[1] = 0 THEN b ELSE c] :
     k \in {1, 9, 60, 110}, a \in {0, 255}, b \in {0, 255}, c \in {20, 120}}

MCPhotos(d) == IF d.h < 119 THEN [Pixels(d) -> {0, 100, 255}] ELSE Stripes(d)

\* Within two of the power: x + 0.14 x (1 - x).
MCCurve(p, q) == (116 * p * (114 * q - 14 * p) + 50 * q * q) \div (100 * q * q)
=============================================================================
