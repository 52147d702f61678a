SPECIFICATION Spec
CONSTANTS
  KRows = 2
  KCols = 8
  UDim = 4
  MaxTrans = 2
  MaxTime = 1
  NoReq = NoReq
  Requests <- MCRequests
INVARIANTS
  TypeOK
  PhaseOwnsBus
  PartPlaced
  OperandsWhole
PROPERTIES
  LoadCompleteAndFresh
  RegPortFrees
  ImplementsControllerLoads
