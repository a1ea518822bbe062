SPECIFICATION LiveSpec
CONSTANTS
  g = g
  h = h
  s1 = s1
  hh = hh
  old = old
  untitled = untitled
  poison = poison
  Genre = {g, h}
  Alias = {hh}
  Norm <- MCNorm
  Blank = Blank
  Story = {s1, s2, old}
  Feed = {s1, s2}
  Untitled = {untitled}
  Poison = {poison}
  MaxStories = 3
  DeadLetters = 1
  InitialQueues <- MCInitialQueues
  MaxPushes = 2
  MaxExpiries = 1
  MaxPerGenre = 2
  MaxFaults = 1
  Nothing = Nothing
INVARIANTS
  TypeOK
  NoDuplicates
  NoRepeats
PROPERTIES
  QueueBound
  LostOnlyByTrim
  PoisonIsShelved
  StoriesAreShown
