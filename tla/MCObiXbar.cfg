SPECIFICATION Spec
CONSTANTS
  s1 = s1
  s2 = s2
  NumMgrs = 3
  Subs <- MCSubs
  Sub0 = s1
  None = None
  Reach <- MCReach
  MaxTrans = 2
INVARIANTS
  TypeOK
  AnswersFindTheirIssuer
  LockedStayRequested
PROPERTIES
  PortsKeepOrder
  NoStarvation
