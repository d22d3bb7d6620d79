--------------------------- MODULE MCEncodeConfig ---------------------------
(***************************************************************************)
(* Small instances of EncodeConfig for TLC.                                *)
(***************************************************************************)
EXTENDS EncodeConfig

CONSTANTS i1, i2

\* One instance, the request values spread over the table: QCIF to 1080p
\* (and a 4K request clamped to the device maximum), a rejected frame rate,
\* a bitrate above kMaxBitrate, an unsupported and an out-of-range profile,
\* and levels from LEVEL_AVC_1 to LEVEL_AVC_5_2 (not in the allowed list).
OneInst         == {i1}
OneSizes        == {<<176, 144>>, <<320, 240>>, <<3840, 2160>>}
OneFrameRates   == {0, 15, 240}
OneBitrates     == {64000, 60000000}
OneReqProfiles  == {0, PROFILE_AVC_MAIN, PROFILE_AVC_HIGH}
OneReqLevels    == {LEVEL_AVC_1, LEVEL_AVC_4_1, LEVEL_AVC_5_2}

MCSupportedProfiles == {PROFILE_AVC_BASELINE, PROFILE_AVC_MAIN, PROFILE_AVC_HIGH}

\* One instance with fewer request values for the refinement check, which
\* looks for the proposal behind each commit: still an invalid profile,
\* the unlisted LEVEL_AVC_5_2, a rejected rate and a 4K request at 240 fps
\* that no allowed level holds.
RefineBitrates    == {64000}
RefineReqProfiles == {0, PROFILE_AVC_MAIN}
RefineReqLevels   == {LEVEL_AVC_1, LEVEL_AVC_5_2}

\* Two instances configured concurrently, with fewer request values: the
\* sizes and levels that make one instance record a level and the other
\* read it.  The device lacks PROFILE_AVC_BASELINE, so a request of an
\* invalid profile has no default to fall back to.
TwoInst         == {i1, i2}
TwoSizes        == {<<176, 144>>, <<320, 240>>}
TwoFrameRates   == {15, 30}
TwoBitrates     == {64000}
TwoReqProfiles  == {0, PROFILE_AVC_MAIN}
TwoReqLevels    == {LEVEL_AVC_1, LEVEL_AVC_4_1}
TwoSupportedProfiles == {PROFILE_AVC_MAIN, PROFILE_AVC_HIGH}

\* The levels that let one instance's stale test of lowestConfigLevel meet
\* another instance's later write of a higher level.
RaceReqLevels   == {LEVEL_AVC_1, LEVEL_AVC_1B, LEVEL_AVC_1_1}

\* A device that supports PROFILE_AVC_HIGH_10_INTRA, and a QCIF request at
\* 15 fps whose bitrate lies between 3 and 4 times LEVEL_AVC_1's maxBR.
IntraSupportedProfiles == {PROFILE_AVC_BASELINE, PROFILE_AVC_HIGH_10_INTRA}
IntraSizes      == {<<176, 144>>}
IntraFrameRates == {15}
IntraBitrates   == {256000}
IntraReqProfiles == {PROFILE_AVC_HIGH_10_INTRA}
IntraReqLevels  == {LEVEL_AVC_1}
=============================================================================
