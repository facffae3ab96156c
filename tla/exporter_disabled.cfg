SPECIFICATION Spec
CONSTANTS
  Tables <- CinderOnly
  MaxDisabled = 1
  Explored <- VolumeGbDisabled
INVARIANTS NoPanic
