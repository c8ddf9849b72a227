\* Two downloads into the same slot; one image ends on a sector boundary, and
\* the server may send on to the end of the second sector.
CONSTANTS
  SECTOR_SIZE = 8
  Sectors = 4
  StartSector = 1
  Lengths = {8, 10}
  MaxLen = 16
  MaxChunk = 9
  MaxSessions = 2
SPECIFICATION Spec
\* The number of downloads is bounded.
CHECK_DEADLOCK FALSE
INVARIANTS
  TypeOK
  StreamStored
  NeighboursIntact
PROPERTY
  WrittenOnce
