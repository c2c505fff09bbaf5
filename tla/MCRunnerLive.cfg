SPECIFICATION FairSpec
CONSTANTS
  PageSize = 256
  MaxBytes = 256
  WordBits = 20
  InitialBytes = {1}
  ExternalBytes = {64}
  Requests = {0, 100}
PROPERTIES CallsReturn
