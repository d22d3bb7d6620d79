-------------------------- MODULE MCConfigResolver --------------------------
(***************************************************************************)
(* A small instance of ConfigResolver for TLC: proposals after the         *)
(* independent setters (sizes already clamped to a 1920x1080 maximum),     *)
(* spread over the table.                                                  *)
(***************************************************************************)
EXTENDS ConfigResolver

CONSTANTS i1, i2

MCSupportedProfiles == {PROFILE_AVC_BASELINE, PROFILE_AVC_MAIN, PROFILE_AVC_HIGH}

\* QCIF to 1080p; 15 fps, and 240 fps which no allowed level holds at
\* 1080p; a bitrate at LEVEL_AVC_1's ceiling and one at kMaxBitrate; an
\* invalid profile; levels 1, 1.2, 4.1 and 5.2 (not allowed).
MCRequests ==
  {[width |-> s[1], height |-> s[2], frameRate |-> f, bitrate |-> b,
    profile |-> p, level |-> l] :
     s \in {<<176, 144>>, <<320, 240>>, <<1920, 1080>>}, f \in {15, 240},
     b \in {64000, 50000000}, p \in {0, PROFILE_AVC_MAIN, PROFILE_AVC_HIGH},
     l \in {LEVEL_AVC_1, LEVEL_AVC_1_2, LEVEL_AVC_4_1, LEVEL_AVC_5_2}}

\* DefaultConfig of EncodeConfig for these profiles.
MCInitialConfig ==
  [width |-> 320, height |-> 240, frameRate |-> 30, bitrate |-> 64000,
   profile |-> PROFILE_AVC_BASELINE, level |-> LEVEL_AVC_4_1]

OneInst == {i1}
TwoInst == {i1, i2}
=============================================================================
