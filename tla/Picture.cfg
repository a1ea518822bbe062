SPECIFICATION Spec
CONSTANTS
  Sources <- MCSources
  Displays <- MCDisplays
  Photos <- MCPhotos
  Curve <- MCCurve
INVARIANTS
  Readable
  TrueToPhoto
\* A picture that is prepared is handed to its caller.
CHECK_DEADLOCK FALSE
