SPECIFICATION Spec
CONSTANTS
  Slots = 2
  Sound = {s1, s2}
  Silence = Silence
  Configs <- SomeConfigs
  MaxStreams = 2
INVARIANTS
  GivenBack
  StreamFitsConfig
  SensorsFitConfig
PROPERTIES
  ImplementsAudioQueue
  TeardownEnds
CHECK_DEADLOCK FALSE
