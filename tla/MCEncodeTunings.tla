-------------------------- MODULE MCEncodeTunings --------------------------
(***************************************************************************)
(* A small instance of EncodeTunings for TLC.  INT64_MAX and UINT32_MAX    *)
(* are replaced by stand-ins small enough for TLC's integers, chosen so    *)
(* that the clamp at UINT32_MAX and the infinite interval both occur.      *)
(***************************************************************************)
EXTENDS EncodeTunings

MCInt64Max  == 10000000
MCUInt32Max == 100

\* Frame rates: a rejected 0, 1, 7.5, 25, 30 and 60 fps.
MCFrameRates == {<<0, 1>>, <<1, 1>>, <<15, 2>>, <<25, 1>>, <<30, 1>>, <<60, 1>>}

\* Intervals: negative, 0, half a frame at 30 fps, a tie at 1 fps (1.5
\* frames), 1 s, 5 s, just below and at the infinite stand-in.
MCSyncIntervals == {-1, 0, 16666, 1500000, 1000000, 5000000, 9999999, 10000000}

MCRefreshModes == {INTRA_REFRESH_DISABLED, INTRA_REFRESH_ARBITRARY}
MCRefreshPeriods == {<<-1, 1>>, <<0, 1>>, <<1, 2>>, <<1, 1>>, <<5, 1>>}
=============================================================================
