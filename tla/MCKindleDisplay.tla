-------------------------- MODULE MCKindleDisplay ---------------------------
(* Two genres, two stories (a picture that is not fetched is all that one without shows)  *)
(* and a cache of two images, of which a large one needs the room of both.            *)
EXTENDS KindleDisplay

CONSTANTS small, large, sports, misc, s1, s2, genre1, genre2

MCSize == [k \in {small, large, sports, misc} |-> IF k = large THEN 3 ELSE 1]
MCGenre == [s \in {s1, s2} |-> IF s = s2 THEN genre2 ELSE genre1]
MCImage == [s \in {s1, s2} |-> IF s = s1 THEN small ELSE large]
MCAsset == [g \in {genre1, genre2} |-> IF g = genre1 THEN sports ELSE misc]
MCDisplays == {[w |-> 800, h |-> 600]}
=============================================================================
