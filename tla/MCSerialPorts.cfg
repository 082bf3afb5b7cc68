SPECIFICATION Spec
CONSTANTS
  Names <- MCOneName
  Lines = {0}
  Limits = {0, 1}
  Default = 0
  Refuse = FALSE
INVARIANTS
  PagesFollowOptions
  ReceivesAsReported
  OpenLabelMeansOpen
