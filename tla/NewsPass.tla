------------------------------- MODULE NewsPass -------------------------------
(***************************************************************************)
(* One news pass (dashboard.go ShowNewsCycle and drainGenre, store.go      *)
(* Genres and Next) over the queues of NewsStore, while clients push.  The *)
(* worker runs one pass at a time; each call to Redis is a step, and a     *)
(* pass may end at any of them: cancelled, or by an error of Redis or of   *)
(* the Kindle.                                                             *)
(***************************************************************************)
EXTENDS NewsStore

CONSTANTS MaxPerGenre,  \* Options.MaxStoriesPerGenre (10)
          MaxFaults,    \* bound: passes cut short
          Nothing       \* no genre, no item

ASSUME PassAssumption ==
  /\ MaxPerGenre \in Nat \ {0} /\ MaxFaults \in Nat
  /\ Nothing \notin Name \cup {Blank} \cup Item

VARIABLES
  pc,        \* the call to Redis that is next
  names,     \* SMEMBERS: names that Genres has still to look at
  active,    \* the genres it returns, or those still to be shown
  genre,     \* the genre at hand
  left,      \* stories still to be shown of it
  attempts,  \* tries left to find one that decodes
  moved,     \* the item LMOVE returned
  shown,     \* the stories of this genre shown in this pass
  poisoned,  \* an item was quarantined meanwhile
  backdrop,  \* of each genre, as it was read once: the picture, an error, or not yet
  faults

passVars == <<pc, names, active, genre, left, attempts, moved, shown, poisoned,
              backdrop, faults>>
vars == <<storeVars, passVars>>

TypeOK ==
  /\ StoreTypeOK
  /\ pc \in {"idle", "genres", "length", "forget", "walk", "draw", "move", "show",
             "quarantine"}
  /\ names \subseteq Name \cup {Blank} /\ active \subseteq Genre
  /\ genre \in Genre \cup {Nothing}
  /\ left \in 0..MaxPerGenre /\ attempts \in Nat
  /\ moved \in Item \cup {Nothing}
  /\ shown \in Seq(Story)
  /\ backdrop \in [Genre -> {"unread", "read", "failed"}]
  /\ poisoned \in BOOLEAN /\ faults \in 0..MaxFaults

Init ==
  /\ StoreInit
  /\ pc = "idle" /\ names = {} /\ active = {} /\ genre = Nothing
  /\ left = 0 /\ attempts = 0 /\ moved = Nothing /\ shown = <<>> /\ poisoned = FALSE
  /\ backdrop = [g \in Genre |-> "unread"]
  /\ faults = 0

\* The pass is over, and with it everything it remembers.
Idle ==
  /\ pc' = "idle"
  /\ names' = {} /\ active' = {} /\ genre' = Nothing
  /\ left' = 0 /\ attempts' = 0 /\ moved' = Nothing /\ shown' = <<>> /\ poisoned' = FALSE

-----------------------------------------------------------------------------
(* Genres.                                                                  *)

BeginPass ==
  /\ pc = "idle"
  /\ pc' = "genres"
  /\ names' = known
  /\ UNCHANGED <<storeVars, active, genre, left, attempts, moved, shown, poisoned, backdrop,
                 faults>>

\* An error of SREM is ignored.
TryForget(name) ==
  \/ Forget(name) /\ UNCHANGED faults
  \/ faults < MaxFaults /\ faults' = faults + 1 /\ UNCHANGED storeVars

LookAtBlank ==
  /\ pc = "genres" /\ Blank \in names
  /\ names' = names \ {Blank}
  /\ TryForget(Blank)
  /\ UNCHANGED <<pc, active, genre, left, attempts, moved, shown, poisoned, backdrop>>

LookAtAlias ==
  /\ pc = "genres"
  /\ \E n \in names \cap Alias :
       /\ Migrate(n)
       /\ names' = names \ {n}
       /\ genre' = Norm[n]
  /\ pc' = "length"
  /\ UNCHANGED <<active, left, attempts, moved, shown, poisoned, faults, backdrop>>

LookAtGenre ==
  /\ pc = "genres"
  /\ \E g \in names \cap Genre : names' = names \ {g} /\ genre' = g
  /\ pc' = "length"
  /\ UNCHANGED <<storeVars, active, left, attempts, moved, shown, poisoned, faults, backdrop>>

\* LLEN: a genre without stories is about to be forgotten.
GenreLength ==
  /\ pc = "length"
  /\ IF queue[genre] = <<>>
       THEN pc' = "forget" /\ UNCHANGED <<active, genre>>
       ELSE pc' = "genres" /\ active' = active \cup {genre} /\ genre' = Nothing
  /\ UNCHANGED <<storeVars, names, left, attempts, moved, shown, poisoned, faults, backdrop>>

ForgetGenre ==
  /\ pc = "forget"
  /\ TryForget(genre)
  /\ pc' = "genres" /\ genre' = Nothing
  /\ UNCHANGED <<names, active, left, attempts, moved, shown, poisoned, backdrop>>

GenresReturns ==
  /\ pc = "genres" /\ names = {}
  /\ pc' = "walk"
  /\ UNCHANGED <<storeVars, names, active, genre, left, attempts, moved, shown, poisoned,
                 backdrop, faults>>

-----------------------------------------------------------------------------
(* ShowNewsCycle and drainGenre.                                            *)

PassLength_Bug(g) == MaxPerGenre
PassLength(g) == IF Len(queue[g]) < MaxPerGenre THEN Len(queue[g]) ELSE MaxPerGenre

\* The picture of the genre is read once, the genre screen was held, and LLEN decides how many
\* stories are shown.
OpenGenre ==
  /\ pc = "walk"
  /\ \E g \in active :
       /\ backdrop[g] # "failed"
       /\ backdrop' = [backdrop EXCEPT ![g] = "read"]
       /\ active' = active \ {g}
       /\ genre' = g
       /\ left' = PassLength(g)
  /\ shown' = <<>> /\ poisoned' = FALSE
  /\ pc' = "draw"
  /\ UNCHANGED <<storeVars, names, attempts, moved, faults>>

\* Without its picture the screen of a genre ends the pass, and the error is kept like a picture:
\* so does every later pass.
BackdropFails ==
  /\ pc = "walk"
  /\ \E g \in active :
       \/ backdrop[g] = "failed" /\ UNCHANGED <<backdrop, faults>>
       \/ /\ backdrop[g] = "unread" /\ faults < MaxFaults
          /\ backdrop' = [backdrop EXCEPT ![g] = "failed"] /\ faults' = faults + 1
  /\ Idle
  /\ UNCHANGED storeVars

PassReturns ==
  /\ pc = "walk" /\ active = {}
  /\ Idle
  /\ UNCHANGED <<storeVars, backdrop, faults>>

CloseGenre ==
  /\ \/ pc = "draw" /\ left = 0
     \/ pc = "move" /\ (attempts = 0 \/ queue[genre] = <<>>)
  /\ pc' = "walk"
  /\ genre' = Nothing /\ left' = 0 /\ attempts' = 0
  /\ shown' = <<>> /\ poisoned' = FALSE
  /\ UNCHANGED <<storeVars, names, active, moved, faults, backdrop>>

\* Next: LLEN bounds its attempts.
NextBegins ==
  /\ pc = "draw" /\ left > 0
  /\ attempts' = Len(queue[genre])
  /\ pc' = "move"
  /\ UNCHANGED <<storeVars, names, active, genre, left, moved, shown, poisoned, faults, backdrop>>

\* The item is decoded on top of what an item that did not decode has left of it: fields it lacks
\* may be those of the other.  What is told here is which item it is.
Move ==
  /\ pc = "move" /\ attempts > 0 /\ queue[genre] # <<>>
  /\ Rotate(genre)
  /\ moved' = Last(queue[genre])
  /\ attempts' = attempts - 1
  /\ pc' = IF moved' \in Poison THEN "quarantine" ELSE "show"
  /\ UNCHANGED <<names, active, genre, left, shown, poisoned, faults, backdrop>>

\* A story without a title is skipped, and counts.
ShowStory ==
  /\ pc = "show"
  /\ shown' = IF moved \in Untitled THEN shown ELSE Append(shown, moved)
  /\ left' = left - 1 /\ attempts' = 0 /\ moved' = Nothing
  /\ pc' = "draw"
  /\ UNCHANGED <<storeVars, names, active, genre, poisoned, faults, backdrop>>

QuarantineItem ==
  /\ pc = "quarantine"
  /\ Quarantine(genre, moved)
  /\ moved' = Nothing /\ poisoned' = TRUE
  /\ pc' = "move"
  /\ UNCHANGED <<names, active, genre, left, attempts, shown, faults, backdrop>>

\* An error of Redis or of the Kindle, or the end of the context: the pass is over.
PassFails ==
  /\ pc # "idle" /\ faults < MaxFaults
  /\ faults' = faults + 1
  /\ Idle
  /\ UNCHANGED <<storeVars, backdrop>>

-----------------------------------------------------------------------------
PassStep ==
  \/ LookAtBlank \/ LookAtAlias \/ LookAtGenre \/ GenreLength \/ ForgetGenre \/ GenresReturns
  \/ OpenGenre \/ BackdropFails \/ PassReturns \/ CloseGenre \/ NextBegins \/ Move \/ ShowStory
  \/ QuarantineItem

Clients == \/ \E g \in Genre, s \in Feed : Push(g, s) /\ UNCHANGED passVars
           \/ \E key \in dedupe : Expire(key) /\ UNCHANGED passVars

Next == BeginPass \/ PassStep \/ PassFails \/ Clients

Spec == Init /\ [][Next]_vars

\* Passes are signalled four times an hour for as long as the service runs, and the calls of
\* a pass return.
LiveSpec == Spec /\ WF_vars(BeginPass) /\ WF_vars(PassStep)

-----------------------------------------------------------------------------
\* A pass shows no story twice, whatever clients push or trim while it runs: the stories it
\* has shown are at the head of the queue, and it takes no more than there were, nor more than a
\* trim leaves.  Only a quarantine, which shortens the queue, and a story stored twice break it.
NoRepeats ==
  MaxPerGenre \leq MaxStories /\ expired = {} /\ ~poisoned =>
    \A s \in Feed : Occurrences(shown, s) \leq 1

Shown(n, s) == genre = n /\ Contains(shown, s)

\* A stored story is shown by some pass, or pushed out by newer ones, unless its genre is
\* forgotten: passes of MaxPerGenre stories work their way through the whole queue.  A picture
\* that could not be read once holds them up until the service is started again.
StoriesAreShown ==
  \A n \in Name, s \in Story :
    Contains(queue[n], s) ~>
      \/ Shown(n, s) \/ ~Contains(queue[n], s) \/ n \notin known
      \/ \E g \in Genre : backdrop[g] = "failed"

\* "Storage is the acceptance boundary. A scheduled pass will eventually display the item":
\* the same without the exception.
StoredIsShown ==
  \A g \in Genre, s \in Feed : Contains(queue[g], s) ~> Shown(g, s) \/ ~Contains(queue[g], s)

===============================================================================
