SPECIFICATION Spec
CONSTANTS
  PageSize = 256
  MaxBytes = 512
  WordBits = 20
  InitialBytes = {1}
  ExternalBytes = {64, 330}
  Requests = {0, 100, 200}
INVARIANTS RunsTile Coalesced BoundaryTagsExact BinsExact UsedRunsAccounted
PROPERTIES ContractSpec DrainBeforeFail
