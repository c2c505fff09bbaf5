SPECIFICATION Spec
CONSTANTS
  PageSize = 8192
  MaxBytes = 24576
  WordBits = 20
  InitialBytes = {1}
  ExternalBytes = {9000}
  Requests = {4200, 5200, 8170}
INVARIANT LogBinsAbove2KiB
