SPECIFICATION Spec
CONSTANTS
  Range = 8
  NoReq = NoReq
  Requests <- MCRequests
INVARIANTS
  HighAboveCompare
