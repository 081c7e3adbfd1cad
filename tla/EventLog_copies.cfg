SPECIFICATION Spec
CONSTANTS
  Agents = {n1}
  Controllers = {c1, c2}
  Unwatched = {2}
  MaxBatch = 2
  BufferSize = 2
  MaxLen = 3
  MaxEvents = 3
  MaxFaults = 1
  MaxFileErrors = 1
  MaxElections = 1
INVARIANTS EventsArrive LogInOrder
SYMMETRY Symmetry
CHECK_DEADLOCK FALSE
