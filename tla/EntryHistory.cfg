\* Three contents of sizes 0, 1 and 2, no limit or tight limits, four versions.
CONSTANTS
  small = small
  medium = medium
  large = large
  Values = {small, medium, large}
  Size <- Sizes
  ItemLimits <- Limits
  SizeLimits <- Limits
  MaxVersions = 4
SPECIFICATION Spec
INVARIANTS VersionsKept
PROPERTIES LimitsAreEnforced InputSurvivesClosing StaleOnlyByOthers
CHECK_DEADLOCK FALSE
