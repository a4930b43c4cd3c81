SPECIFICATION Spec
CONSTANTS
  NPages = 2
  Granule = 2
  SourceKinds = {"W", "O"}
  TargetKinds = {"N"}
  Sources <- MCSources
  Targets <- MCTargets
INVARIANT PrivateMemoryComesBack
CHECK_DEADLOCK FALSE
