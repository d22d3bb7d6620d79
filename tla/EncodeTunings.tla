--------------------------- MODULE EncodeTunings ---------------------------
(***************************************************************************)
(* The tunings of V4L2EncodeInterface that do not take part in the level   *)
(* negotiation: the intra-refresh parameter and its setter                 *)
(* IntraRefreshPeriodSetter, the sync-frame interval in microseconds, the  *)
(* frame rate, and getKeyFramePeriod, which derives the key-frame period  *)
(* in frames from the last two.                                            *)
(*                                                                         *)
(* A float of the code (frame rate, refresh period) is a rational          *)
(* <<num, den>> with den > 0; the model computes exactly where the code    *)
(* computes in double.  INT64_MAX and UINT32_MAX keep their values: a run  *)
(* replaces them by smaller stand-ins, a proof does not.                   *)
(***************************************************************************)
EXTENDS Integers

CONSTANTS
  FrameRates,        \* frame rates <<num, den>> clients request
  SyncIntervals,     \* sync-frame intervals in microseconds clients request
  RefreshModes,      \* intra-refresh modes clients request
  RefreshPeriods     \* intra-refresh periods <<num, den>> clients request

Rational == Int \X (Nat \ {0})

ASSUME TuningsAssumption ==
  /\ FrameRates \subseteq Rational
  /\ SyncIntervals \subseteq Int
  /\ RefreshPeriods \subseteq Rational

INT64_MAX  == 2^63 - 1
UINT32_MAX == 2^32 - 1

\* The microseconds in a second (the 1e6 of getKeyFramePeriod).
kUsPerSecond == 1000000

INTRA_REFRESH_DISABLED  == "disabled"
INTRA_REFRESH_ARBITRARY == "arbitrary"

\* A rational below 1, and the rational 0.
LessThanOne(q) == q[1] < q[2]
Zero == <<0, 1>>

VARIABLES
  frameRate,       \* mFrameRate->value
  keyFramePeriodUs,\* mKeyFramePeriodUs->value
  intraRefresh     \* mIntraRefreshPeriod: [mode, period]

vars == <<frameRate, keyFramePeriodUs, intraRefresh>>

TypeOK ==
  /\ frameRate \in Rational /\ frameRate[1] > 0
  /\ keyFramePeriodUs \in Int
  /\ intraRefresh \in [mode : {INTRA_REFRESH_DISABLED, INTRA_REFRESH_ARBITRARY},
                       period : Rational]

\* The defaults Initialize declares: 30 fps, one sync frame a second,
\* intra refresh disabled with period 0.
Init ==
  /\ frameRate = <<30, 1>>
  /\ keyFramePeriodUs = 1000000
  /\ intraRefresh = [mode |-> INTRA_REFRESH_DISABLED, period |-> Zero]

-----------------------------------------------------------------------------
(* getKeyFramePeriod.  For an interval p >= 0 and a rate n/d, the period   *)
(* is x = p * n / (1e6 * d); std::round rounds half away from zero, which  *)
(* for x >= 0 is floor(x + 1/2); the result is clamped to [1, UINT32_MAX]. *)

\* Mutant: the period is truncated (a plain cast), not rounded.
RoundedPeriodTruncated(p, fr) ==
  (p * fr[1]) \div (kUsPerSecond * fr[2])

RoundedPeriod(p, fr) ==
  (2 * p * fr[1] + kUsPerSecond * fr[2]) \div (2 * kUsPerSecond * fr[2])

\* Mutant: the rounded period is cast to uint32 without the clamp, so it
\* wraps modulo 2^32.
KeyFramePeriodOfWrapped(p, fr) ==
  IF p < 0 \/ p = INT64_MAX THEN 0
  ELSE LET r == RoundedPeriod(p, fr) % (UINT32_MAX + 1)
       IN  IF r < 1 THEN 1 ELSE r

KeyFramePeriodOf(p, fr) ==
  IF p < 0 \/ p = INT64_MAX THEN 0
  ELSE LET r == RoundedPeriod(p, fr)
       IN  IF r > UINT32_MAX THEN UINT32_MAX ELSE IF r < 1 THEN 1 ELSE r

\* The accessor on the committed values.
getKeyFramePeriod == KeyFramePeriodOf(keyFramePeriodUs, frameRate)

-----------------------------------------------------------------------------
(* Config calls, one field each.                                           *)

\* Mutant: the greaterThan(0.) restriction is dropped.
ConfigFrameRateUnchecked ==
  \E f \in FrameRates :
    /\ frameRate' = f
    /\ UNCHANGED <<keyFramePeriodUs, intraRefresh>>

\* The frame-rate field accepts a rate > 0 and rejects any other.
ConfigFrameRate ==
  \E f \in FrameRates :
    /\ f[1] > 0
    /\ frameRate' = f
    /\ UNCHANGED <<keyFramePeriodUs, intraRefresh>>

\* The sync-frame interval accepts any value (any()).
ConfigSyncInterval ==
  \E p \in SyncIntervals :
    /\ keyFramePeriodUs' = p
    /\ UNCHANGED <<frameRate, intraRefresh>>

\* Mutant: only a period <= 0 disables intra refresh.
IntraRefreshPeriodSetterNonPositive(mode, period) ==
  IF period[1] <= 0
  THEN [mode |-> INTRA_REFRESH_DISABLED, period |-> Zero]
  ELSE [mode |-> INTRA_REFRESH_ARBITRARY, period |-> period]

\* IntraRefreshPeriodSetter: a period below 1 disables intra refresh and
\* clears the period; any other period forces the arbitrary mode.  The
\* requested mode is overwritten in both cases.
IntraRefreshPeriodSetter(mode, period) ==
  IF LessThanOne(period)
  THEN [mode |-> INTRA_REFRESH_DISABLED, period |-> Zero]
  ELSE [mode |-> INTRA_REFRESH_ARBITRARY, period |-> period]

ConfigIntraRefresh ==
  \E m \in RefreshModes, q \in RefreshPeriods :
    /\ intraRefresh' = IntraRefreshPeriodSetter(m, q)
    /\ UNCHANGED <<frameRate, keyFramePeriodUs>>

Next == ConfigFrameRate \/ ConfigSyncInterval \/ ConfigIntraRefresh

Spec == Init /\ [][Next]_vars

-----------------------------------------------------------------------------
(* Properties.                                                             *)

\* getKeyFramePeriod is what the spec says: 0 for a negative or infinite
\* interval; otherwise a period in [1, UINT32_MAX] that, unless clamped,
\* is the nearest whole number of frames to interval * rate (within half a
\* frame), is 1 only when the exact period is below 3/2 and is UINT32_MAX
\* only when it is at least UINT32_MAX - 1/2.
KeyFramePeriodAsSpecified ==
  LET p == keyFramePeriodUs
      n == frameRate[1]
      d == frameRate[2]
      k == getKeyFramePeriod
      \* 2 * (k * 1e6 * d - p * n), twice the error in units of 1/(1e6*d)
      err2 == 2 * (k * kUsPerSecond * d - p * n)
  IN  IF p < 0 \/ p = INT64_MAX THEN k = 0
      ELSE /\ k \in 1 .. UINT32_MAX
           /\ 1 < k /\ k < UINT32_MAX => -kUsPerSecond * d <= err2 /\ err2 <= kUsPerSecond * d
           /\ k = 1 => 2 * p * n < 3 * kUsPerSecond * d
           /\ k = UINT32_MAX => 2 * p * n >= (2 * UINT32_MAX - 1) * kUsPerSecond * d

\* A longer finite sync interval at the same frame rate, or a higher frame
\* rate at the same interval, never gives a shorter key-frame period: the
\* clamp to UINT32_MAX, not a uint32 wrap, bounds a long period.
KeyFramePeriodMonotone ==
  [][/\ 0 <= keyFramePeriodUs /\ keyFramePeriodUs' # INT64_MAX
     /\ \/ frameRate' = frameRate /\ keyFramePeriodUs' >= keyFramePeriodUs
        \/ keyFramePeriodUs' = keyFramePeriodUs
           /\ frameRate'[1] * frameRate[2] >= frameRate[1] * frameRate'[2]
     => getKeyFramePeriod' >= getKeyFramePeriod]_vars

\* Intra refresh is either disabled with period 0 or arbitrary with a
\* period of at least 1, whatever mode and period clients asked for
\* (IntraRefreshPeriodSetter and the parameter's default).
IntraRefreshConsistent ==
  \/ intraRefresh.mode = INTRA_REFRESH_DISABLED /\ intraRefresh.period = Zero
  \/ intraRefresh.mode = INTRA_REFRESH_ARBITRARY /\ ~LessThanOne(intraRefresh.period)
=============================================================================
