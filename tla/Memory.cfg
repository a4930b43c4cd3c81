SPECIFICATION Spec
CONSTANTS
  NPages = 3
  Granule = 2
  SourceKinds = {"W", "O", "G", "I", "C", "D"}
  TargetKinds = {"N", "C", "G", "R", "D"}
  Sources <- MCSources
  Targets <- MCTargets
INVARIANTS RestoreTypeOK SkippedUntouched CountedIsInPlace LeftOpenWithReason WritablePagesCaptured AlignedRegionsComeBack MisalignedIsLost
CHECK_DEADLOCK FALSE
