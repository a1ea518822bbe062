SPECIFICATION Spec
CONSTANTS
  small = small
  large = large
  sports = sports
  misc = misc
  s1 = s1
  s2 = s2
  genre1 = genre1
  genre2 = genre2
  None = None
  Torn = Torn
  Landed = Landed
  Images = {small, large, sports, misc}
  Size <- MCSize
  Displays <- MCDisplays
  maxPreparedImages = 2
  maxPreparedImageBytes = 3
  Stories = {s1, s2}
  Genres = {genre1, genre2}
  Alerts = {alert}
  Genre <- MCGenre
  Image <- MCImage
  Asset <- MCAsset
INVARIANTS
  TypeOK
  CacheBooks
  WholeFrame
  RegionsFit
