CONSTANTS
  child = child
  parent = parent
  Parent = parent
  Child = child
  Crowded = {child}
  Fickle = {child}
  Events = {"message"}
  Throwing = {child}
  Width = 2
  Capacity = 3
  Chunk = 3
  MaxSends = 2
SPECIFICATION FairChannelSpec
INVARIANTS  EofLosesNothing
PROPERTIES DeliversInOrder NothingStaysUnheard
CHECK_DEADLOCK FALSE
