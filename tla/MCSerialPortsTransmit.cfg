SPECIFICATION Spec
CONSTANTS
  Names <- MCNames
  Lines = {0}
  Limits = {0}
  Default = 0
  Refuse = FALSE
INVARIANTS
  TransmitsAsReported
