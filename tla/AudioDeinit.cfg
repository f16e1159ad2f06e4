SPECIFICATION Spec
CONSTANTS
  Volumes = {30}
  Faults = {"bus", "i2c", "channel", "enable"}
INVARIANT
  DeinitReleases
