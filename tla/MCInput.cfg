SPECIFICATION Spec
CONSTANTS
  Keys = {"L", "ZL"}
  Bottom = {"ZL", "L3"}
  Letters = {a}
  Modifiers = {"SHIFT"}
  Configs <- SomeConfigs
  Swap = FALSE
  MaxQueue = 2
INVARIANTS
  HostPlaysThePad
  NothingOutlivesTouch
  HomeIsMenus
CHECK_DEADLOCK FALSE
PROPERTIES
  LitForThePlayer
