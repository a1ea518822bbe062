----------------------------- MODULE MCNewsPass -----------------------------
(* Instances of NewsPass for TLC: genre h is stored as hh by an earlier version. *)
EXTENDS NewsPass

CONSTANTS g, h, hh, old, untitled, poison, s1

MCNorm == [n \in {g, h, hh} |-> IF n = hh THEN h ELSE n]

Stored(qg, qh, qhh) == [n \in {g, h, hh} |-> IF n = g THEN qg ELSE IF n = h THEN qh ELSE qhh]

\* A genre with nothing that decodes; another with a story pushed before the start, and more
\* under its other spelling than its list can take.  Or one with more than its list may hold
\* since the limit was lowered.
MCInitialQueues == {Stored(<<poison>>, <<s1, untitled>>, <<old, poison>>),
                    Stored(<<old, poison, untitled, s1>>, <<>>, <<>>)}
=============================================================================
