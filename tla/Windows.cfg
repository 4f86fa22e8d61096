SPECIFICATION Spec
CONSTANTS
  None = None
  Lib <- MC_Lib
  Runtime <- MC_Runtime
  Installations <- MC_Installations
  Methods <- MC_Methods
  Versions <- MC_Versions
  MaxMerit = 9
  Faults = {"LOAD", "INIT", "VERSION", "PLATFORM", "REINIT", "CLONE"}
  MaxSessions = 2
  MaxFaults = 1
INVARIANTS
  LoadedWhileHeld
PROPERTIES
  FindsBest
  Returns
CHECK_DEADLOCK FALSE
