SPECIFICATION Spec
CONSTANTS
  Width = 8
  Longest <- Lengths
  Keys <- SomeKeys
  Line <- SomeLines
  MaxSeen = 3
  MaxSource = 4
  MaxTarget = 3
  Strings <- SomeStrings
INVARIANTS Grammar NumbersExact StringsSpelled RoundTrip IdsSurvive Framing
  SettingsRead OneSocket EscapesFit PatchOfDiff PointersReadBack FlattenRestores MovesUndone Ordered
  IteratorsAgree
CHECK_DEADLOCK FALSE
