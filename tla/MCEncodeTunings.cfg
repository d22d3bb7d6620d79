CONSTANTS
  INT64_MAX <- MCInt64Max
  UINT32_MAX <- MCUInt32Max
  FrameRates <- MCFrameRates
  SyncIntervals <- MCSyncIntervals
  RefreshModes <- MCRefreshModes
  RefreshPeriods <- MCRefreshPeriods
SPECIFICATION Spec
INVARIANTS TypeOK KeyFramePeriodAsSpecified IntraRefreshConsistent
PROPERTIES KeyFramePeriodMonotone
