SPECIFICATION Spec
CONSTANTS
  Volumes = {0, 30, 255}
  Faults = {"bus", "i2c", "channel", "enable"}
INVARIANTS
  WholeWhenInitialized
  StartedMeansRunning
  VolumeIsApplied
  NoChannelLeak
  CleanWhenOff
PROPERTY
  KeepsPath
