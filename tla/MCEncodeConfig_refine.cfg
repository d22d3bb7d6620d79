CONSTANTS
  i1 = i1
  i2 = i2
  Inst <- OneInst
  SupportedProfiles <- MCSupportedProfiles
  MaxWidth = 1920
  MaxHeight = 1080
  Sizes <- OneSizes
  FrameRates <- OneFrameRates
  Bitrates <- RefineBitrates
  ReqProfiles <- RefineReqProfiles
  ReqLevels <- RefineReqLevels
SPECIFICATION Spec
PROPERTIES ResolverRefinement
