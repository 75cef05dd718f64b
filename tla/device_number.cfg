SPECIFICATION Spec
CONSTANTS
  Adapters = {a1, a2}
  Flags = {"APPEND_STATUS"}
  WORD = 64
  BYTE = 16
  RegistryChoices <- Stocked
  IoctlValues <- Numbers
  MaxPorts = 2
  MaxStarts = 2
  MaxIoctls = 1
  Followed = {1}
PROPERTY NumberRemembered
CHECK_DEADLOCK FALSE
