SPECIFICATION Spec
CONSTANTS
  Bases <- MCBases
  MaxWords = 4
  MaxTrans = 2
INVARIANTS
  TypeOK
  InFlightAccounted
PROPERTIES
  RequestHeldUntilGranted
  ImplementsWordTransfer
