----------------------------- MODULE ImageCache -----------------------------
(***************************************************************************)
(* The prepared images of a kindle.Device (internal/kindle/story.go): a    *)
(* map, its keys in the order of their last use, and the bytes of its      *)
(* images.  Get and put hold the mutex of the device.  A key stands for    *)
(* its image.                                                              *)
(***************************************************************************)
EXTENDS Naturals, SequencesExt

CONSTANTS Images, Size,           \* the keys, and the bytes of their images
          maxPreparedImages,
          maxPreparedImageBytes

ASSUME CacheAssumption ==
  /\ Size \in [Images -> Nat]
  /\ maxPreparedImages \in Nat \ {0}
  /\ maxPreparedImageBytes \in Nat

VARIABLES preparedImages, preparedImageOrder, preparedImageBytes

cacheVars == <<preparedImages, preparedImageOrder, preparedImageBytes>>

CacheTyped ==
  /\ preparedImages \subseteq Images
  /\ preparedImageOrder \in Seq(Images) /\ IsInjective(preparedImageOrder)
  /\ preparedImageBytes \in Nat

CacheInit == preparedImages = {} /\ preparedImageOrder = <<>> /\ preparedImageBytes = 0

Bytes(s) ==
  LET total[n \in 0..Len(s)] == IF n = 0 THEN 0 ELSE total[n - 1] + Size[s[n]]
  IN  total[Len(s)]

\* A hit moves the key to the end, from the first place that is found to hold it.
Promoted_Bug(k) == Append(preparedImageOrder, k)
Promoted(k) ==
  LET p == CHOOSE i \in 1..Len(preparedImageOrder) :
             preparedImageOrder[i] = k /\ \A j \in 1..i - 1 : preparedImageOrder[j] # k
  IN  Append(RemoveAt(preparedImageOrder, p), k)

Promote(k) ==
  /\ preparedImageOrder' = Promoted(k)
  /\ UNCHANGED <<preparedImages, preparedImageBytes>>

\* There is room for k when the n oldest are gone.
Fits_Bug(n, k) ==
  LET left == Len(preparedImageOrder) - n
  IN  \/ left = 0
      \/ /\ left \leq maxPreparedImages
         /\ preparedImageBytes - Bytes(SubSeq(preparedImageOrder, 1, n)) + Size[k]
              \leq maxPreparedImageBytes
Fits(n, k) ==
  LET left == Len(preparedImageOrder) - n
  IN  \/ left = 0
      \/ /\ left < maxPreparedImages
         /\ preparedImageBytes - Bytes(SubSeq(preparedImageOrder, 1, n)) + Size[k]
              \leq maxPreparedImageBytes

\* The loop of put evicts until there is.
Evicted(k) ==
  LET n == CHOOSE i \in 0..Len(preparedImageOrder) : Fits(i, k) /\ \A j \in 0..i - 1 : ~Fits(j, k)
  IN  SubSeq(preparedImageOrder, 1, n)

Skipped(k) == k \in preparedImages \/ Size[k] > maxPreparedImageBytes

Insert(k) ==
  LET out == Evicted(k)
  IN  /\ preparedImages' = (preparedImages \ ToSet(out)) \cup {k}
      /\ preparedImageOrder' =
           Append(SubSeq(preparedImageOrder, Len(out) + 1, Len(preparedImageOrder)), k)
      /\ preparedImageBytes' = preparedImageBytes - Bytes(out) + Size[k]

Put(k) == IF Skipped(k) THEN UNCHANGED cacheVars ELSE Insert(k)

\* Map, order and bytes agree and keep their limits.
CacheBooks ==
  /\ ToSet(preparedImageOrder) = preparedImages
  /\ Cardinality(preparedImages) = Len(preparedImageOrder)
  /\ preparedImageBytes = Bytes(preparedImageOrder)
  /\ Len(preparedImageOrder) \leq maxPreparedImages
  /\ preparedImageBytes \leq maxPreparedImageBytes

=============================================================================
