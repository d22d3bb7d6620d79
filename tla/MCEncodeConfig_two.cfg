CONSTANTS
  i1 = i1
  i2 = i2
  Inst <- TwoInst
  SupportedProfiles <- TwoSupportedProfiles
  MaxWidth = 1920
  MaxHeight = 1080
  Sizes <- TwoSizes
  FrameRates <- TwoFrameRates
  Bitrates <- TwoBitrates
  ReqProfiles <- TwoReqProfiles
  ReqLevels <- TwoReqLevels
SPECIFICATION Spec
INVARIANTS StoredConfigValid
