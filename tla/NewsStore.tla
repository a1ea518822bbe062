------------------------------ MODULE NewsStore ------------------------------
(***************************************************************************)
(* internal/news/store.go: the news queues in Redis.  One list per genre   *)
(* name, its tail the newest story; a set of known genre names; a          *)
(* deduplication key per story, which expires; a list of dead letters.     *)
(*                                                                         *)
(* Redis runs one command, script or transaction at a time, so each is one *)
(* action.  Pushes come from the handlers of AddNews, one for each client; *)
(* the other actions are the steps of a reader, composed in NewsPass.      *)
(***************************************************************************)
EXTENDS Integers, SequencesExt

CONSTANTS
  Genre,            \* normalized genre names
  Alias,            \* other spellings of them, as earlier versions stored them
  Norm,             \* normalizeGenre: the genre of each name
  Blank,            \* a stored name that normalizes to ""
  Story,            \* stories that can be shown
  Feed,             \* those that clients push
  Untitled, Poison, \* items that decode to no title, that do not decode
  MaxStories,       \* StoreOptions.MaxStories
  DeadLetters,      \* entries of the dead-letter list (100)
  InitialQueues,    \* what Redis may hold when the service starts
  MaxPushes,        \* bound: stories stored
  MaxExpiries       \* bound: deduplication keys that expire

Name == Genre \cup Alias
Item == Story \cup Untitled \cup Poison

ASSUME StoreAssumption ==
  /\ Genre \cap Alias = {}
  /\ Norm \in [Name -> Genre] /\ \A g \in Genre : Norm[g] = g
  /\ Blank \notin Name
  /\ Feed \subseteq Story
  /\ Story \cap Untitled = {} /\ (Story \cup Untitled) \cap Poison = {}
  /\ MaxStories \in Nat \ {0} /\ DeadLetters \in Nat \ {0}
  /\ InitialQueues \subseteq [Name -> Seq(Item)]
  /\ MaxPushes \in Nat /\ MaxExpiries \in Nat

VARIABLES
  queue,       \* news_collection_v2:<name>, for each name
  known,       \* genre: the names to visit
  dedupe,      \* news_dedupe:<fingerprint>, a fingerprint being genre and story
  deadLetter,  \* news_dead_letter, the newest first
  expired,     \* the fingerprints of stored stories whose key has expired, or was never set
  pushes

storeVars == <<queue, known, dedupe, deadLetter, expired, pushes>>

\* LTRIM key -n -1
LastOf(s, n) == SubSeq(s, IF Len(s) > n THEN Len(s) - n + 1 ELSE 1, Len(s))

StoreTypeOK ==
  /\ queue \in [Name -> Seq(Item)]
  /\ known \subseteq Name \cup {Blank}
  /\ dedupe \subseteq Genre \X Feed /\ expired \subseteq Genre \X Feed
  /\ deadLetter \in Seq(Item) /\ Len(deadLetter) \leq DeadLetters
  /\ pushes \in 0..MaxPushes

\* An item is stored for a genre, under some spelling of it.
StoredFor(g, item) == \E n \in Name : Norm[n] = g /\ Contains(queue[n], item)

Occurrences(s, item) == Cardinality({i \in DOMAIN s : s[i] = item})

\* Every list has its name in the set, written with it; the set may know more names.  A story
\* has its key since it was stored, unless the key is over: only then can the story have been
\* stored again.  An earlier version set no key for what it stored under another spelling.
StoreInit ==
  /\ queue \in InitialQueues
  /\ \E K \in SUBSET {Blank} : known = {n \in Name : queue[n] # <<>>} \cup K
  /\ LET stored == {key \in Genre \X Feed : StoredFor(key[1], key[2])} IN
     /\ expired \in SUBSET stored
     /\ dedupe \in SUBSET stored /\ stored \ expired \subseteq dedupe
  /\ \A key \in dedupe \ expired :
       /\ Occurrences(queue[key[1]], key[2]) = 1
       /\ \A a \in Alias : Norm[a] = key[1] => ~Contains(queue[a], key[2])
  /\ deadLetter = <<>> /\ pushes = 0

-----------------------------------------------------------------------------
(* Writers.                                                                 *)

NotYetStored_Bug(g, s) == <<g, s>> \in Genre \X Feed
NotYetStored(g, s) == <<g, s>> \notin dedupe

\* pushScript.  For a fingerprint that is still there the script changes nothing, and the
\* push succeeds.
Push(g, s) ==
  /\ pushes < MaxPushes
  /\ NotYetStored(g, s)
  /\ pushes' = pushes + 1
  /\ dedupe' = dedupe \cup {<<g, s>>}
  /\ queue' = [queue EXCEPT ![g] = LastOf(Append(@, s), MaxStories)]
  /\ known' = known \cup {g}
  /\ UNCHANGED <<deadLetter, expired>>

\* The time to live of a fingerprint is over.
Expire(key) ==
  /\ Cardinality(expired) < MaxExpiries
  /\ dedupe' = dedupe \ {key}
  /\ expired' = expired \cup {key}
  /\ UNCHANGED <<queue, known, deadLetter, pushes>>

-----------------------------------------------------------------------------
(* What a reader asks for.                                                  *)

Migrated_Bug(name) == queue[Norm[name]] \o queue[name]
Migrated(name) == LastOf(queue[Norm[name]] \o queue[name], MaxStories)

\* migrateGenreScript: the list of another spelling behind the list of its genre.
Migrate(name) ==
  LET both == Migrated(name) IN
  /\ queue' = [queue EXCEPT ![Norm[name]] = both, ![name] = <<>>]
  /\ known' = (known \ {name}) \cup (IF both = <<>> THEN {} ELSE {Norm[name]})
  /\ UNCHANGED <<dedupe, deadLetter, expired, pushes>>

\* SREM genre name
Forget(name) ==
  /\ known' = known \ {name}
  /\ UNCHANGED <<queue, dedupe, deadLetter, expired, pushes>>

Rotated_Bug(s) == s
Rotated(s) == <<Last(s)>> \o Front(s)

\* LMOVE key key RIGHT LEFT: the story shown next becomes the oldest.
Rotate(g) ==
  /\ queue' = [queue EXCEPT ![g] = Rotated(@)]
  /\ UNCHANGED <<known, dedupe, deadLetter, expired, pushes>>

WithoutPoison_Bug(s, item) == IF s = <<>> THEN s ELSE Tail(s)
\* LREM key 1 item: what is behind its first occurrence moves up.
WithoutPoison(s, item) ==
  IF Contains(s, item)
    THEN [i \in 1..Len(s) - 1 |-> IF Contains(SubSeq(s, 1, i), item) THEN s[i + 1] ELSE s[i]]
    ELSE s

Shelved_Bug(item) == deadLetter
Untrimmed_Bug(item) == <<item>> \o deadLetter
Shelved(item) == SubSeq(<<item>> \o deadLetter, 1, IF Len(deadLetter) < DeadLetters
                                                     THEN Len(deadLetter) + 1 ELSE DeadLetters)

\* The transaction LREM, LPUSH, LTRIM that quarantines an item.
Quarantine(g, item) ==
  /\ queue' = [queue EXCEPT ![g] = WithoutPoison(@, item)]
  /\ deadLetter' = Shelved(item)
  /\ UNCHANGED <<known, dedupe, expired, pushes>>

-----------------------------------------------------------------------------
(* Properties of the queues, whatever readers and writers do.               *)

\* What becomes of a list is within the limit, or took nothing in.
Within(old, new) ==
  \/ Len(new) \leq MaxStories
  \/ Len(new) \leq Len(old) /\ \A item \in Item : Contains(new, item) => Contains(old, item)

\* "Each genre queue retains 100 stories by default": a list that takes something in, pushed or
\* migrated, is within the limit then, and rotation and quarantine never lengthen one.  Only a
\* list stored under a higher limit, before -news-queue-limit was lowered, is longer, until the
\* first push.
QueueBound == [][\A g \in Genre : Within(queue[g], queue'[g])]_storeVars

\* A story whose deduplication key never expired is in its list at most once, however often
\* it was pushed and however the list was rotated.
NoDuplicates ==
  \A g \in Genre, s \in Feed : <<g, s>> \notin expired => Occurrences(queue[g], s) \leq 1

\* The list of a genre takes others in behind its own, and gives up the oldest to stay within
\* the limit.
TakesIn(g, new) ==
  /\ Len(queue[g] \o new) > MaxStories
  /\ queue'[g] = LastOf(queue[g] \o new, MaxStories)

\* "LMOVE rotates stories without deleting them": a story leaves the store only when its
\* genre's list takes in a pushed story, or the list of another spelling, and overflows; never
\* because the reader moved or quarantined something.
LostOnlyByTrim ==
  [][\A g \in Genre, s \in Story :
       StoredFor(g, s) /\ ~StoredFor(g, s)' =>
         \/ \E t \in Feed : TakesIn(g, <<t>>)
         \/ \E a \in Alias : Norm[a] = g /\ TakesIn(g, queue[a])]_storeVars

\* "invalid JSON is quarantined": a poison item leaves the store only for the dead letters,
\* unless a full list pushed it out.
PoisonIsShelved ==
  [][\A g \in Genre, p \in Poison :
       StoredFor(g, p) /\ ~StoredFor(g, p)' =>
         Contains(deadLetter', p) \/ Len(queue'[g]) = MaxStories]_storeVars

=============================================================================
