SPECIFICATION FairSpec
INVARIANT EveryRowOnce
PROPERTY ReachesTheEnd
CONSTANTS
  End = 3  Preset = 0  Warmup = 1
  SeekTo = {2}
  Loops = {TRUE, FALSE}
  None = None
