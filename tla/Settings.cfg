\* Old and New consoles take turns with one card; the frame rate and the core
\* of the audio are set by hand or left in AUTO.
SPECIFICATION Spec
CONSTANTS
  Edited = {"fps", "audio_2nd_core"}
  Numbers = {10}
  Decoders = {"hardware"}
  Picks = {"better", "smooth"}
  TornAt = {0, 16}
  OldSets = {{"better_screen", "stable_stream"}}
  OldStereo = {FALSE, TRUE}
INVARIANTS
  ManualValuesLast
  StreamIsAsPromised
