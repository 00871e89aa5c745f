\* Budgets of 8, 12, 16 and 20 ticks; a cheap, a middling and a dear frame.
SPECIFICATION SkipSpec
CONSTANTS
  Profiles = {"default", "smooth", "stable", "ultra"}
  TicksPerSecond = 240
  Costs = {2, 11, 15}
  Gaps = {0, 17}
  Easy = 2
  MaxElapsed = 24
  MaxCount = 4
INVARIANTS
  PictureMoves
PROPERTIES
  NoFlicker
  FallbackEnds
