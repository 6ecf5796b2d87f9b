CONSTANTS
  Strikes = {2, 3}
  Followed = {2}
  Spots = {8, 10, 11}
  StartSpot = 8
  SubRadius = 1
  BookRadius = 0
  EmitRadius = 0
  MaxVolume = 1
  MaxUpdates = 1
  NoStrike = NoStrike
SPECIFICATION BookFairSpec
INVARIANTS
  VolumeOnce
PROPERTIES
  NothingLostAtRest
  ViewCatchesUp
