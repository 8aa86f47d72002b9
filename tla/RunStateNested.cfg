SPECIFICATION FairSpec
CONSTANTS
  MaxDepth = 2
  PollEvery = 4
  Uses = {}
PROPERTIES
  InterruptedStops
