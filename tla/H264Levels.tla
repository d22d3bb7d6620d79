---------------------------- MODULE H264Levels ----------------------------
(***************************************************************************)
(* The H.264 constraint table of H264ProfileLevelSetter (Table A-1 of the  *)
(* standard, kLimits) and the feasibility test the setter applies to each  *)
(* row: target frame size, target macroblock rate and the bitrate ceiling  *)
(* scaled by the profile (Table A-2).  Pure definitions, no variables.     *)
(*                                                                         *)
(* C2Config levels and profiles are enum values whose only use here is     *)
(* their order, so each is modelled by its ordinal.  LEVEL_UNUSED is 0 and *)
(* below every AVC level, as in C2Config.                                  *)
(***************************************************************************)
EXTENDS Integers

LEVEL_UNUSED  == 0
LEVEL_AVC_1   == 1
LEVEL_AVC_1B  == 2
LEVEL_AVC_1_1 == 3
LEVEL_AVC_1_2 == 4
LEVEL_AVC_1_3 == 5
LEVEL_AVC_2   == 6
LEVEL_AVC_2_1 == 7
LEVEL_AVC_2_2 == 8
LEVEL_AVC_3   == 9
LEVEL_AVC_3_1 == 10
LEVEL_AVC_3_2 == 11
LEVEL_AVC_4   == 12
LEVEL_AVC_4_1 == 13
LEVEL_AVC_4_2 == 14
LEVEL_AVC_5   == 15
LEVEL_AVC_5_1 == 16
LEVEL_AVC_5_2 == 17

PROFILE_AVC_BASELINE                  == 1
PROFILE_AVC_CONSTRAINED_BASELINE      == 2
PROFILE_AVC_MAIN                      == 3
PROFILE_AVC_EXTENDED                  == 4
PROFILE_AVC_HIGH                      == 5
PROFILE_AVC_PROGRESSIVE_HIGH          == 6
PROFILE_AVC_CONSTRAINED_HIGH          == 7
PROFILE_AVC_HIGH_10                   == 8
PROFILE_AVC_PROGRESSIVE_HIGH_10       == 9
PROFILE_AVC_HIGH_422                  == 10
PROFILE_AVC_HIGH_444_PREDICTIVE       == 11
PROFILE_AVC_HIGH_10_INTRA             == 12
PROFILE_AVC_HIGH_422_INTRA            == 13
PROFILE_AVC_HIGH_444_INTRA            == 14
PROFILE_AVC_CAVLC_444_INTRA           == 15
PROFILE_AVC_SCALABLE_BASELINE         == 16
PROFILE_AVC_ENHANCED_MULTIVIEW_DEPTH_HIGH == 22

\* The profile ordinals IsValidProfileForCodec accepts for H264.
AvcProfiles == PROFILE_AVC_BASELINE .. PROFILE_AVC_ENHANCED_MULTIVIEW_DEPTH_HIGH

\* Table A-1: one row per level, in increasing level order.
kLimits ==
  << [level |-> LEVEL_AVC_1,   maxMBPS |-> 1485,    maxFS |-> 99,    maxBR |-> 64000],
     [level |-> LEVEL_AVC_1B,  maxMBPS |-> 1485,    maxFS |-> 99,    maxBR |-> 128000],
     [level |-> LEVEL_AVC_1_1, maxMBPS |-> 3000,    maxFS |-> 396,   maxBR |-> 192000],
     [level |-> LEVEL_AVC_1_2, maxMBPS |-> 6000,    maxFS |-> 396,   maxBR |-> 384000],
     [level |-> LEVEL_AVC_1_3, maxMBPS |-> 11880,   maxFS |-> 396,   maxBR |-> 768000],
     [level |-> LEVEL_AVC_2,   maxMBPS |-> 11880,   maxFS |-> 396,   maxBR |-> 2000000],
     [level |-> LEVEL_AVC_2_1, maxMBPS |-> 19800,   maxFS |-> 792,   maxBR |-> 4000000],
     [level |-> LEVEL_AVC_2_2, maxMBPS |-> 20250,   maxFS |-> 1620,  maxBR |-> 4000000],
     [level |-> LEVEL_AVC_3,   maxMBPS |-> 40500,   maxFS |-> 1620,  maxBR |-> 10000000],
     [level |-> LEVEL_AVC_3_1, maxMBPS |-> 108000,  maxFS |-> 3600,  maxBR |-> 14000000],
     [level |-> LEVEL_AVC_3_2, maxMBPS |-> 216000,  maxFS |-> 5120,  maxBR |-> 20000000],
     [level |-> LEVEL_AVC_4,   maxMBPS |-> 245760,  maxFS |-> 8192,  maxBR |-> 20000000],
     [level |-> LEVEL_AVC_4_1, maxMBPS |-> 245760,  maxFS |-> 8192,  maxBR |-> 50000000],
     [level |-> LEVEL_AVC_4_2, maxMBPS |-> 522240,  maxFS |-> 8704,  maxBR |-> 50000000],
     [level |-> LEVEL_AVC_5,   maxMBPS |-> 589824,  maxFS |-> 22080, maxBR |-> 135000000],
     [level |-> LEVEL_AVC_5_1, maxMBPS |-> 983040,  maxFS |-> 36864, maxBR |-> 240000000],
     [level |-> LEVEL_AVC_5_2, maxMBPS |-> 2073600, maxFS |-> 36864, maxBR |-> 240000000] >>

NumLimits == 17
Rows == 1 .. NumLimits

\* The level field's oneOf list in Initialize: every row but LEVEL_AVC_5_2.
AllowedLevels == LEVEL_AVC_1 .. LEVEL_AVC_5_1

\* Frame size in macroblocks, rounding width and height up to 16 pixels.
TargetFS(width, height) == ((width + 15) \div 16) * ((height + 15) \div 16)

\* Macroblocks per second.  The frame rate is a float in the code; the
\* model takes integral rates, for which the float product is exact.
TargetMBPS(width, height, frameRate) == TargetFS(width, height) * frameRate

\* Table A-2: the row's bitrate ceiling scaled by the profile's tier,
\* decided by profile ordinal thresholds.  maxBR * 5.0 / 4.0 is truncated
\* back to uint32; every maxBR of the table is a multiple of 4.
MaxBRFor(row, profile) ==
  IF profile >= PROFILE_AVC_HIGH_422 THEN kLimits[row].maxBR * 4
  ELSE IF profile >= PROFILE_AVC_HIGH_10 THEN kLimits[row].maxBR * 3
  ELSE IF profile >= PROFILE_AVC_HIGH THEN (kLimits[row].maxBR * 5) \div 4
  ELSE kLimits[row].maxBR

\* The condition under which the loop stops at a row: the configuration c
\* (picture size, frame rate, bitrate, profile) fits the row's limits.
Feasible(row, c) ==
  /\ TargetFS(c.width, c.height) <= kLimits[row].maxFS
  /\ TargetMBPS(c.width, c.height, c.frameRate) <= kLimits[row].maxMBPS
  /\ c.bitrate <= MaxBRFor(row, c.profile)
=============================================================================
