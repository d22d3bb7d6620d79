------------------------ MODULE EncodeTuningsProofs ------------------------
(***************************************************************************)
(* Proofs about EncodeTunings, for the real INT64_MAX and UINT32_MAX.      *)
(***************************************************************************)
EXTENDS EncodeTunings, TLAPS

\* Floor division brackets its dividend.
LEMMA DivBounds ==
  ASSUME NEW a \in Int, NEW b \in Nat \ {0}
  PROVE  /\ a \div b \in Int
         /\ b * (a \div b) <= a
         /\ a < b * (a \div b) + b
  OBVIOUS

\* Floor division by a positive divisor is monotone in the dividend.
LEMMA DivMonotone ==
  ASSUME NEW a \in Int, NEW a2 \in Int, NEW b \in Nat \ {0}, a <= a2
  PROVE  a \div b <= a2 \div b
  BY DivBounds

\* What getKeyFramePeriod computes, for any interval and positive rate:
\* the property KeyFramePeriodAsSpecified with the state's fields as
\* parameters.
LEMMA KeyFramePeriodCorrect ==
  ASSUME NEW p \in Int, NEW n \in Nat \ {0}, NEW d \in Nat \ {0},
         p >= 0, p # INT64_MAX
  PROVE  LET k == KeyFramePeriodOf(p, <<n, d>>)
             err2 == 2 * (k * kUsPerSecond * d - p * n)
         IN  /\ k \in 1 .. UINT32_MAX
             /\ 1 < k /\ k < UINT32_MAX => -kUsPerSecond * d <= err2 /\ err2 <= kUsPerSecond * d
             /\ k = 1 => 2 * p * n < 3 * kUsPerSecond * d
             /\ k = UINT32_MAX => 2 * p * n >= (2 * UINT32_MAX - 1) * kUsPerSecond * d
<1> DEFINE X == p * n
           Y == kUsPerSecond * d
           rp == RoundedPeriod(p, <<n, d>>)
           M == UINT32_MAX
<1>1. X \in Nat /\ Y \in Nat \ {0} /\ M \in Nat /\ M > 1
  BY DEF kUsPerSecond, UINT32_MAX, X, Y, M
<1>2. /\ rp \in Int
      /\ (2 * Y) * rp <= 2 * X + Y
      /\ 2 * X + Y < (2 * Y) * rp + 2 * Y
  <2>1. rp = (2 * X + Y) \div (2 * Y)
    BY DEF RoundedPeriod, X, Y, rp, kUsPerSecond
  <2>2. 2 * X + Y \in Int /\ 2 * Y \in Nat \ {0}
    BY <1>1
  <2>3. QED
    BY <2>1, <2>2, DivBounds
<1>3. /\ 2 * p * n = 2 * X
      /\ \A j \in Int : j * kUsPerSecond * d = j * Y
      /\ \A c \in Int : c * kUsPerSecond * d = c * Y
  BY DEF kUsPerSecond, X, Y
<1>4. CASE rp > M
  <2>1. KeyFramePeriodOf(p, <<n, d>>) = M
    BY <1>1, <1>2, <1>4 DEF KeyFramePeriodOf, rp, M
  <2>2. (2 * Y) * rp >= (2 * Y) * (M + 1)
    BY <1>1, <1>2, <1>4
  <2>3. 2 * X >= (2 * M - 1) * Y
    BY <1>1, <1>2, <2>2
  <2>4. QED
    BY <1>1, <1>3, <2>1, <2>3
<1>5. CASE rp < 1
  <2>1. KeyFramePeriodOf(p, <<n, d>>) = 1
    BY <1>1, <1>2, <1>5 DEF KeyFramePeriodOf, rp, M
  <2>2. (2 * Y) * rp <= 0
    BY <1>1, <1>2, <1>5
  <2>3. 2 * X < 3 * Y
    BY <1>1, <1>2, <2>2
  <2>4. QED
    BY <1>1, <1>3, <2>1, <2>3
<1>6. CASE 1 <= rp /\ rp <= M
  <2>1. KeyFramePeriodOf(p, <<n, d>>) = rp
    BY <1>1, <1>2, <1>6 DEF KeyFramePeriodOf, rp, M
  <2>2. rp = 1 => (2 * Y) * rp = 2 * Y
    BY <1>1
  <2>3. rp = M => (2 * Y) * rp = (2 * M) * Y
    BY <1>1
  <2>4. QED
    BY <1>1, <1>2, <1>3, <1>6, <2>1, <2>2, <2>3
<1>7. QED
  BY <1>1, <1>2, <1>4, <1>5, <1>6

-----------------------------------------------------------------------------
(* Invariants of the config calls.                                         *)

\* Zero is a rational, and the setter returns a typed parameter.
LEMMA SetterTyped ==
  ASSUME NEW m, NEW q \in Rational
  PROVE  IntraRefreshPeriodSetter(m, q)
           \in [mode : {INTRA_REFRESH_DISABLED, INTRA_REFRESH_ARBITRARY},
                period : Rational]
  BY DEF IntraRefreshPeriodSetter, Zero, Rational

\* The setter's result is always one of the two consistent forms.
LEMMA SetterConsistent ==
  ASSUME NEW m, NEW q \in Rational
  PROVE  LET v == IntraRefreshPeriodSetter(m, q)
         IN  \/ v.mode = INTRA_REFRESH_DISABLED /\ v.period = Zero
             \/ v.mode = INTRA_REFRESH_ARBITRARY /\ ~LessThanOne(v.period)
  BY DEF IntraRefreshPeriodSetter

\* The inductive invariant: the type invariant and the consistency of the
\* intra-refresh parameter.
Inv == TypeOK /\ IntraRefreshConsistent

\* Inv holds initially and is preserved by every config call.
LEMMA InvInit == Init => Inv
  BY DEF Init, Inv, TypeOK, IntraRefreshConsistent, Rational, Zero

LEMMA InvStep == Inv /\ [Next]_vars => Inv'
<1> SUFFICES ASSUME Inv, [Next]_vars PROVE Inv'
  OBVIOUS
<1>1. CASE ConfigFrameRate
  BY <1>1, TuningsAssumption
     DEF ConfigFrameRate, Inv, TypeOK, IntraRefreshConsistent
<1>2. CASE ConfigSyncInterval
  BY <1>2, TuningsAssumption
     DEF ConfigSyncInterval, Inv, TypeOK, IntraRefreshConsistent
<1>3. CASE ConfigIntraRefresh
  <2>1. PICK m \in RefreshModes, q \in RefreshPeriods :
          /\ intraRefresh' = IntraRefreshPeriodSetter(m, q)
          /\ UNCHANGED <<frameRate, keyFramePeriodUs>>
    BY <1>3 DEF ConfigIntraRefresh
  <2>2. q \in Rational
    BY TuningsAssumption
  <2>3. TypeOK'
    BY <2>1, <2>2, SetterTyped DEF Inv, TypeOK
  <2>4. IntraRefreshConsistent'
    BY <2>1, <2>2, SetterConsistent DEF IntraRefreshConsistent
  <2>5. QED
    BY <2>3, <2>4 DEF Inv
<1>4. CASE UNCHANGED vars
  BY <1>4 DEF vars, Inv, TypeOK, IntraRefreshConsistent
<1>5. QED
  BY <1>1, <1>2, <1>3, <1>4 DEF Next

\* Type correctness: every reachable state has a positive frame rate, an
\* integral sync interval and a typed intra-refresh parameter.
THEOREM TypeCorrect == Spec => []TypeOK
BY InvInit, InvStep, PTL DEF Spec, Inv

\* IntraRefreshPeriodSetter leaves intra refresh disabled with period 0 or
\* arbitrary with a period of at least 1, whatever clients request.
THEOREM RefreshConsistent == Spec => []IntraRefreshConsistent
BY InvInit, InvStep, PTL DEF Spec, Inv

\* The type invariant implies that getKeyFramePeriod rounds and clamps as
\* specified.
LEMMA TypeImpliesAsSpecified == TypeOK => KeyFramePeriodAsSpecified
<1> SUFFICES ASSUME TypeOK PROVE KeyFramePeriodAsSpecified
  OBVIOUS
<1>1. /\ frameRate = <<frameRate[1], frameRate[2]>>
      /\ frameRate[1] \in Nat \ {0} /\ frameRate[2] \in Nat \ {0}
      /\ keyFramePeriodUs \in Int
  BY DEF TypeOK, Rational
<1>2. CASE keyFramePeriodUs < 0 \/ keyFramePeriodUs = INT64_MAX
  BY <1>2 DEF KeyFramePeriodAsSpecified, getKeyFramePeriod, KeyFramePeriodOf
<1>3. CASE ~(keyFramePeriodUs < 0 \/ keyFramePeriodUs = INT64_MAX)
  BY <1>1, <1>3, KeyFramePeriodCorrect
     DEF KeyFramePeriodAsSpecified, getKeyFramePeriod
<1>4. QED
  BY <1>2, <1>3

\* getKeyFramePeriod is the nearest whole number of frames to the sync
\* interval times the frame rate, clamped to [1, UINT32_MAX], and 0 for a
\* negative or infinite interval, in every reachable state and for the
\* real INT64_MAX and UINT32_MAX.
THEOREM KeyFramePeriodSpecified == Spec => []KeyFramePeriodAsSpecified
BY TypeCorrect, TypeImpliesAsSpecified, PTL

-----------------------------------------------------------------------------
(* Monotonicity of getKeyFramePeriod.                                      *)

\* The clamp of getKeyFramePeriod preserves the order of rounded periods.
LEMMA ClampMonotone ==
  ASSUME NEW p \in Int, NEW p2 \in Int, NEW fr, NEW fr2,
         p >= 0, p2 >= 0, p # INT64_MAX, p2 # INT64_MAX,
         RoundedPeriod(p, fr) \in Int, RoundedPeriod(p2, fr2) \in Int,
         RoundedPeriod(p, fr) <= RoundedPeriod(p2, fr2)
  PROVE  KeyFramePeriodOf(p, fr) <= KeyFramePeriodOf(p2, fr2)
  BY DEF KeyFramePeriodOf, UINT32_MAX

\* A longer interval at the same rate rounds to no fewer frames.
LEMMA RoundedMonotoneInterval ==
  ASSUME NEW p \in Int, NEW p2 \in Int, NEW n \in Nat \ {0},
         NEW d \in Nat \ {0}, 0 <= p, p <= p2
  PROVE  /\ RoundedPeriod(p, <<n, d>>) \in Int
         /\ RoundedPeriod(p2, <<n, d>>) \in Int
         /\ RoundedPeriod(p, <<n, d>>) <= RoundedPeriod(p2, <<n, d>>)
<1>1. /\ 2 * p * n + kUsPerSecond * d \in Int
      /\ 2 * p2 * n + kUsPerSecond * d \in Int
      /\ 2 * p * n + kUsPerSecond * d <= 2 * p2 * n + kUsPerSecond * d
      /\ 2 * kUsPerSecond * d \in Nat \ {0}
  BY DEF kUsPerSecond
<1>2. QED
  BY <1>1, DivBounds, DivMonotone DEF RoundedPeriod

\* Multiplication by a positive number can be cancelled in an inequality.
LEMMA MulCancel ==
  ASSUME NEW x \in Int, NEW y \in Int, NEW b \in Nat \ {0}
  PROVE  /\ x * b <= y * b => x <= y
         /\ x * b < y * b => x < y
<1>1. x > y => x * b > y * b
  OBVIOUS
<1>2. x >= y => x * b >= y * b
  OBVIOUS
<1>3. QED
  BY <1>1, <1>2

\* A higher rate n2/d2 >= n/d at the same interval rounds to no fewer
\* frames: floor(A/B) <= floor(A2/B2) when A * B2 <= A2 * B.
LEMMA RoundedMonotoneRate ==
  ASSUME NEW p \in Nat, NEW n \in Nat \ {0}, NEW d \in Nat \ {0},
         NEW n2 \in Nat \ {0}, NEW d2 \in Nat \ {0}, n2 * d >= n * d2
  PROVE  /\ RoundedPeriod(p, <<n, d>>) \in Int
         /\ RoundedPeriod(p, <<n2, d2>>) \in Int
         /\ RoundedPeriod(p, <<n, d>>) <= RoundedPeriod(p, <<n2, d2>>)
<1> DEFINE U == kUsPerSecond
           A == 2 * p * n + U * d
           B == 2 * U * d
           A2 == 2 * p * n2 + U * d2
           B2 == 2 * U * d2
           q == A \div B
           q2 == A2 \div B2
<1>1. /\ U \in Nat \ {0}
      /\ A \in Nat /\ A2 \in Nat /\ B \in Nat \ {0} /\ B2 \in Nat \ {0}
  BY DEF kUsPerSecond
<1>2. /\ q \in Int /\ B * q <= A
      /\ q2 \in Int /\ A2 < B2 * q2 + B2
  <2>1. q \in Int /\ B * q <= A
    BY <1>1, DivBounds DEF q
  <2>2. q2 \in Int /\ A2 < B2 * q2 + B2
    <3>1. A2 \in Int /\ B2 \in Nat \ {0}
      BY <1>1
    <3>2. /\ A2 \div B2 \in Int
          /\ A2 < B2 * (A2 \div B2) + B2
      BY <3>1, DivBounds
    <3>3. QED
      BY <3>2 DEF q2
  <2>3. QED
    BY <2>1, <2>2
<1>3. A * B2 <= A2 * B
  <2>1. A * B2 = 4 * U * p * (n * d2) + 2 * U * U * d * d2
    BY <1>1
  <2>2. A2 * B = 4 * U * p * (n2 * d) + 2 * U * U * d * d2
    BY <1>1
  <2>3. 4 * U * p * (n * d2) <= 4 * U * p * (n2 * d)
    BY <1>1
  <2>4. QED
    BY <2>1, <2>2, <2>3, <1>1
<1>4. (B2 * q) * B <= A2 * B
  <2>1. (B2 * q) * B = B2 * (B * q)
    BY <1>1, <1>2
  <2>2. B2 * (B * q) <= B2 * A
    BY <1>1, <1>2
  <2>3. QED
    BY <1>3, <2>1, <2>2, <1>1, <1>2
<1>5. B2 * q <= A2
  BY <1>1, <1>2, <1>4, MulCancel
<1>6. B2 * q < B2 * (q2 + 1)
  BY <1>1, <1>2, <1>5
<1>7. q <= q2
  <2>1. q * B2 < (q2 + 1) * B2
    BY <1>1, <1>2, <1>6
  <2>2. q2 + 1 \in Int
    BY <1>2
  <2>3. q < q2 + 1
    BY <1>1, <1>2, <2>1, <2>2, MulCancel
  <2>4. QED
    BY <1>2, <2>3
<1>8. QED
  BY <1>2, <1>7 DEF RoundedPeriod

\* One step of KeyFramePeriodMonotone, between any two typed states.
LEMMA MonotoneStep ==
  ASSUME TypeOK, TypeOK',
         0 <= keyFramePeriodUs, keyFramePeriodUs' # INT64_MAX,
         \/ frameRate' = frameRate /\ keyFramePeriodUs' >= keyFramePeriodUs
         \/ keyFramePeriodUs' = keyFramePeriodUs
            /\ frameRate'[1] * frameRate[2] >= frameRate[1] * frameRate'[2]
  PROVE  getKeyFramePeriod' >= getKeyFramePeriod
<1> DEFINE p == keyFramePeriodUs
           p2 == keyFramePeriodUs'
           n == frameRate[1]
           d == frameRate[2]
           n2 == frameRate'[1]
           d2 == frameRate'[2]
<1>1. /\ frameRate = <<n, d>> /\ frameRate' = <<n2, d2>>
      /\ n \in Nat \ {0} /\ d \in Nat \ {0}
      /\ n2 \in Nat \ {0} /\ d2 \in Nat \ {0}
      /\ p \in Int /\ p2 \in Int
  BY DEF TypeOK, Rational
<1>2. /\ getKeyFramePeriod = KeyFramePeriodOf(p, <<n, d>>)
      /\ getKeyFramePeriod' = KeyFramePeriodOf(p2, <<n2, d2>>)
  BY <1>1 DEF getKeyFramePeriod
<1>3. KeyFramePeriodOf(p2, <<n2, d2>>) \in 1 .. UINT32_MAX
  <2>1. p2 >= 0
    BY <1>1
  <2>2. QED
    BY <1>1, <2>1, KeyFramePeriodCorrect
<1>4. CASE p = INT64_MAX
  BY <1>2, <1>3, <1>4 DEF KeyFramePeriodOf, UINT32_MAX
<1>5. CASE p # INT64_MAX /\ frameRate' = frameRate /\ p2 >= p
  <2>1. n2 = n /\ d2 = d
    BY <1>1, <1>5
  <2>2. /\ RoundedPeriod(p, <<n, d>>) \in Int
        /\ RoundedPeriod(p2, <<n, d>>) \in Int
        /\ RoundedPeriod(p, <<n, d>>) <= RoundedPeriod(p2, <<n, d>>)
    BY <1>1, <1>5, RoundedMonotoneInterval
  <2>3. QED
    BY <1>1, <1>2, <1>5, <2>1, <2>2, ClampMonotone
<1>6. CASE p # INT64_MAX /\ p2 = p /\ n2 * d >= n * d2
  <2>1. p \in Nat
    BY <1>1
  <2>2. /\ RoundedPeriod(p, <<n, d>>) \in Int
        /\ RoundedPeriod(p, <<n2, d2>>) \in Int
        /\ RoundedPeriod(p, <<n, d>>) <= RoundedPeriod(p, <<n2, d2>>)
    BY <1>1, <1>6, <2>1, RoundedMonotoneRate
  <2>3. QED
    BY <1>1, <1>2, <1>6, <2>2, ClampMonotone
<1>7. QED
  BY <1>4, <1>5, <1>6

\* A longer finite sync interval at the same frame rate, or a higher frame
\* rate at the same interval, never shortens the key-frame period that
\* getKeyFramePeriod returns: the clamp keeps the order that the rounding
\* keeps, for the real UINT32_MAX.
THEOREM KeyFramePeriodMonotoneHolds == Spec => KeyFramePeriodMonotone
<1>1. TypeOK /\ TypeOK' =>
        [/\ 0 <= keyFramePeriodUs /\ keyFramePeriodUs' # INT64_MAX
         /\ \/ frameRate' = frameRate /\ keyFramePeriodUs' >= keyFramePeriodUs
            \/ keyFramePeriodUs' = keyFramePeriodUs
               /\ frameRate'[1] * frameRate[2] >= frameRate[1] * frameRate'[2]
         => getKeyFramePeriod' >= getKeyFramePeriod]_vars
  BY MonotoneStep
<1>2. QED
  BY TypeCorrect, <1>1, PTL DEF KeyFramePeriodMonotone
=============================================================================
