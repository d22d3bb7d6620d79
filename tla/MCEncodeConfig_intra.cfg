CONSTANTS
  i1 = i1
  i2 = i2
  Inst <- OneInst
  SupportedProfiles <- IntraSupportedProfiles
  MaxWidth = 1920
  MaxHeight = 1080
  Sizes <- IntraSizes
  FrameRates <- IntraFrameRates
  Bitrates <- IntraBitrates
  ReqProfiles <- IntraReqProfiles
  ReqLevels <- IntraReqLevels
SPECIFICATION Spec
INVARIANT BitrateWithinTableA2
