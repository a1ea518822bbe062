SPECIFICATION LiveSpec
CONSTANTS
  g = g
  h = h
  s1 = s1
  hh = hh
  old = old
  untitled = untitled
  poison = poison
  Genre = {g, h}
  Alias = {hh}
  Norm <- MCNorm
  Blank = Blank
  Story = {s1, old}
  Feed = {s1}
  Untitled = {untitled}
  Poison = {poison}
  MaxStories = 3
  DeadLetters = 1
  InitialQueues <- MCInitialQueues
  MaxPushes = 1
  MaxExpiries = 0
  MaxPerGenre = 2
  MaxFaults = 0
  Nothing = Nothing
PROPERTY
  StoredIsShown
