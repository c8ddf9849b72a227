\* Four slots (MAX_ROMS): more than the two that updates alternate between.
CONSTANT
  Count = 4
SPECIFICATION Spec
INVARIANTS
  TypeOK
  AlwaysBootable
  RunningRomIntact
  CurrentRomIsRunning
  SelectedRomFirst
PROPERTY
  EventuallyBoots
