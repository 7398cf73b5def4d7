\* Two threads call systems on one or both of two components; the channel of the
\* multi modifiers fills up and is replaced
SPECIFICATION FairFrameSpec
CONSTANTS
  x = x
  y = y
  h1 = h1
  h2 = h2
  Components = {x, y}
  Targets <- Choices
  Producers = {p1, p2}
  Chains = {h1, h2}
  Hash <- Apart
  BufferSize = 1
  MaxMods = 3
  MaxRounds = 3
INVARIANTS
  FrameTypeOK
  ExclusiveAccess
PROPERTIES
  AppliedOnce
  SystemsReadOneFrame
  SingleKeepsPromise
  RefinesModifierQueue
  FrameEnds
