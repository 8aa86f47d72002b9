SPECIFICATION FairSpec
CONSTANTS
  MaxDepth = 2
  PollEvery = 2
  Uses = {"sort", "define", "load"}
INVARIANTS
  StateTracksRuns
  NoStaleInterrupt
PROPERTIES
  InterruptKept
  StoppedRunThrows
  InnermostStops
