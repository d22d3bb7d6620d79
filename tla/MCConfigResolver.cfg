CONSTANTS
  i1 = i1
  i2 = i2
  Inst <- OneInst
  SupportedProfiles <- MCSupportedProfiles
  Requests <- MCRequests
  InitialConfig <- MCInitialConfig
SPECIFICATION Spec
INVARIANTS ResolveConverged ResolveRespectsFeasibleRequest
