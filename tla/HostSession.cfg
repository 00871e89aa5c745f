SPECIFICATION SessionSpec
CONSTANTS
  Apps = {"desktop", "game"}
  NoApp = "none"
INVARIANTS
  PairedIsTrusted
PROPERTIES
  NeverStuck
