# Verification of V4L2EncodeInterface's parameter negotiation

This directory holds TLA+ models of `src/components/V4L2EncodeInterface.cpp`,
TLC configurations that check them on small instances, and TLAPS proofs of
their main invariants. The parts modelled are:

- the negotiation of the H264 profile, level, picture size, frame rate and
  bitrate;
- the intra-refresh setter;
- `getKeyFramePeriod`, which derives the key-frame period from the sync
  interval and the frame rate.

## The system

`V4L2EncodeInterface` declares the configuration parameters of a V4L2 video
encoder for the Codec2 parameter framework. `Initialize` does this
(lines 244-452). It asks the device for its supported profiles and maximum
sizes. It then declares each parameter with:

- a default;
- the allowed values (`inRange`, `oneOf`);
- optionally a setter, and the parameters that setter depends on.

A client's config call goes through the framework in this order:

1. The setters without dependencies run first:
   - `SizeSetter` clamps the size to `[2, max]` in steps of 2;
   - the frame rate must be `> 0` and is rejected otherwise;
   - the bitrate is clamped to `[0, kMaxBitrate]`.
2. `H264ProfileLevelSetter` (lines 72-186) runs when the profile-level
   parameter is in the request, or one of its dependencies changed.
3. The call commits every field. If any setter fails, it commits none.

`H264ProfileLevelSetter` does four things:

1. It replaces an unsupported profile with `PROFILE_AVC_BASELINE`, or fails
   if that profile is unsupported too.
2. It compares the requested level with `lowestConfigLevel`, a static variable
   local to the function. If the static holds a lower level, that level
   replaces the request.
3. It scans Table A-1 (`kLimits`) in increasing level order:
   - it skips levels not in the allowed list, which excludes `LEVEL_AVC_5_2`;
   - it stops at the first row the configuration fits. The fit test uses the
     frame size in macroblocks, the macroblock rate, and the bitrate ceiling
     scaled by the profile tier.
   - If the loop passed the held level before that row (`needsUpdate`), it
     records the held level in the static and sets the level to the row's.
4. If no row fits, it returns BadValue.

The static is one variable for the whole process. It is shared by every
interface instance and accessed without a lock. The framework serialises
config calls on one instance, but not calls on different instances.

## Modules

| Module | Models | State and actions |
|---|---|---|
| `H264Levels` | Constraint tables and feasibility evaluator (lines 93-152, 55-59, 331-342) | No variables. Level and profile ordinals, `kLimits`, `TargetFS`, `TargetMBPS`, `MaxBRFor` (the tier multiplier of lines 140-150, with `maxBR * 5.0 / 4.0` truncated as the code does), and `Feasible` (the test at line 152). |
| `EncodeConfig` | Config calls of any number of instances, and `H264ProfileLevelSetter` | See the next three tables. |
| `EncodeConfigProofs` | TLAPS proofs about `EncodeConfig` | Lemmas on the table and the operators, the type invariant, and the inductive invariant. |
| `MCEncodeConfig` | TLC instances | The sets of instances and request values the cfgs use. |
| `EncodeTunings` | `IntraRefreshPeriodSetter` (lines 220-232), `getKeyFramePeriod` (lines 454-461), and the config calls of the frame-rate, sync-interval and intra-refresh parameters (lines 300-305, 405-425) | Variables `frameRate`, `keyFramePeriodUs` and `intraRefresh`, the committed values. One action per config call. `KeyFramePeriodOf` is the accessor as a pure operator. |
| `EncodeTuningsProofs` | TLAPS proofs about `EncodeTunings` | Division lemmas, the correctness and monotonicity of `KeyFramePeriodOf`, and the invariants. |
| `MCEncodeTunings` | TLC instance | Request sets, and small stand-ins for `INT64_MAX` and `UINT32_MAX`. |
| `ConfigResolver` | What a config call of an H264 instance promises (lines 72-186 as one step) | Variables `cfg`, `lowestConfigLevel` and `result`. `Resolved(mem, n)` and `ResolvedMemory(mem, n)` are the closed form of one setter run: the profile default (79-91), `HeldLevel` (the override, 126-127), `FirstFit` (the first allowed row the values fit, 135-171) and `NeedsUpdate` (173-177). Actions `CallResolved`, `CallFailed`, `CallUnchanged`. |
| `MCConfigResolver` | TLC instance | Requests as records, the initial configuration. |
| `H264LevelsProofs` | Lemmas on the table | The row/level correspondence, `TableMonotone` and the existence of a least fitting row, shared by the two proof modules below. |
| `ConfigResolverProofs` | TLAPS proofs about `ConfigResolver` | The first-fit lemma, the idempotence of one resolution, and the theorems. |
| `EncodeRefinementProofs` | TLAPS proofs that one instance of `EncodeConfig` implements `ConfigResolver` | The tracking invariant `RInv`, the refinement, and the single-instance `RespectsFeasibleRequest` and `LowestNonIncreasing`. |

Variables of `EncodeConfig`:

| Variable | Code counterpart |
|---|---|
| `cfg[i]` | Instance i's committed size, frame rate, bitrate, profile and level |
| `pending[i]` | The values the running call works on |
| `pc[i]` | Where the call is: idle, enter, assign or scan |
| `k[i]` | The row the loop is at |
| `needsUpdate[i]` | The setter's local of that name |
| `lowestConfigLevel` | The static, one for all instances |
| `result[i]` | The status of the last call |
| `req`, `writers` | History variables used by the properties |

Actions of `EncodeConfig`:

| Action | Code counterpart |
|---|---|
| `ConfigRejected` | A frame rate `<= 0` is rejected |
| `ConfigUnchanged` | No dependency changed, so the setter does not run |
| `ConfigStart` | The independent setters run and the request reaches the setter |
| `Enter` | Lines 79-91 and the test at line 126, for a supported profile or one with a default |
| `EnterBadProfile` | Neither the requested nor the default profile is supported |
| `Assign` | The assignment at line 127, which reads the static again |
| `ScanSkip` | Lines 136-138 |
| `ScanMiss` | Lines 173-177 |
| `ScanHit` | Lines 152-172, then the commit |
| `ScanExhausted` | Lines 179-183, then the rollback |

The setter is split into steps because another instance's steps can run
between any two of them. A config call of one instance is atomic with
respect to that instance's other calls: the guard `pc[i] = "idle"` ensures
this.

Data abstraction:

- Levels and profiles are C2Config enum values, and the code only compares
  them. The model uses their ordinals, and a level is the index of its row.
- Frame rates are integers. For these, the code's float product is exact.
- Requests are drawn from small constant sets.

In `EncodeTunings`, a float (the frame rate, the refresh period) is a
rational `<<num, den>>` with `den > 0`. `RoundedPeriod` is `std::round` of
`p * n / (1e6 * d)`: for a non-negative value, rounding half away from zero
is `floor(x + 1/2)`, which is `(2pn + 1e6 d) \div (2e6 d)`. `KeyFramePeriodOf`
adds the sentinel test (line 455) and the clamp (line 459). The three
tunings parameters are independent of each other and of the level: no
setter of theirs has dependencies. So each config call is one atomic
action, and the module is separate from `EncodeConfig`.

`ConfigResolver` is the abstract specification of the H264 negotiation:
a config call either commits `Resolved(lowestConfigLevel, n)` for some
proposal `n` and sets the static to `ResolvedMemory`, or fails, or changes
nothing. `EncodeConfig` instantiates it with the refinement mapping that is
the identity on `cfg`, `lowestConfigLevel` and `result`, and with the
proposals a `ConfigStart` can make (`Proposals`). The property
`ResolverRefinement == Resolver!Spec` says every step of the detailed
setter (`Enter`, `Assign`, one step per row) is a stutter of the abstract
one except the commit (`ScanHit`) and the rollback (`ScanExhausted`), which
are one abstract call each. This holds for one instance. For two it does
not: with the race (finding 2), the static that `Assign` reads is not the
one `Enter` tested, so the commit is no resolution of any single value of
the static. That counterexample is the `race` run's, so it has no run of
its own.

## Runs

The runs on `MCEncodeConfig` use a 1920x1080 device maximum.

| Run | Instances | Checks | Result |
|---|---|---|---|
| `one` | One instance. Requests: QCIF, 320x240 and 4K (clamped); rates 0 (rejected), 15 and 240 (too fast for any allowed level at 1080p, so the loop skips `LEVEL_AVC_5_2` and exhausts); a bitrate above `kMaxBitrate`; profiles 0 (invalid) and two supported; levels 1, 4.1 and 5.2 (unlisted). | `StoredConfigValid`, `RespectsFeasibleRequest`, `LowestNonIncreasing` | Pass, about 786,000 states, under a minute |
| `two` | Two instances whose setter steps interleave. The device lacks Baseline, so `EnterBadProfile` fires. | `StoredConfigValid` | Pass, about 1,014,000 states, about a minute |
| `shared` | Two instances | `MemoryPerInstance` | Violation. A level that one instance recorded lowers the other instance's request. |
| `race` | Two instances, levels 1, 1b and 1.1 | `RespectsFeasibleRequest` | Violation. Instance B tests the static while it is unset, so it takes no override. Instance A records level 1, later asks for 1b, and its test sees 1 < 1b, so it will assign. Before A's `Assign`, B hits and records its held level 1.1. A's `Assign` reads 1.1 and commits it, above its feasible request 1b. |
| `tunings` | `MCEncodeTunings`. `INT64_MAX` is 10,000,000 and `UINT32_MAX` is 100, so the sentinel (10,000,000 us), the clamp (9,999,999 us at 60 fps gives 600 frames) and the lower clamp (16,666 us) are reached. Rates 0 (rejected), 1, 7.5, 25, 30 and 60; intervals -1 and 0; refresh periods -1, 0, 1/2, 1 and 5. | `TypeOK`, `KeyFramePeriodAsSpecified`, `IntraRefreshConsistent`, `KeyFramePeriodMonotone` | Pass, 120 states, one second |
| `resolver` | `MCConfigResolver`, one instance. Sizes QCIF, 320x240 and 1080p; rates 15 and 240; bitrates 64 kbit/s and 50 Mbit/s; profiles 0 (invalid), Main and High; levels 1, 1.2, 4.1 and 5.2 (unlisted). | `ResolveConverged`, `ResolveRespectsFeasibleRequest` | Pass, about 300 states, seconds |
| `refine` | `MCEncodeConfig`, one instance, the sizes and rates of run `one` (QCIF, 320x240, 4K clamped), one bitrate, profiles 0 and Main, levels 1 and 5.2 | `ResolverRefinement` | Pass, about 50,000 states, about 30 s |
| `intra` | `PROFILE_AVC_HIGH_10_INTRA`, QCIF at 15 fps, 256 kbit/s | `BitrateWithinTableA2` | Violation. The code gives this profile a 4x ceiling; Table A-2 gives 3x. |

What the properties say:

- `StoredConfigValid`: every committed configuration has a supported
  profile and an allowed level, and its size, frame rate and bitrate fit
  that level's row.
- `RespectsFeasibleRequest`: a call that asked for an allowed level the
  result fits never commits a higher level.
- `LowestNonIncreasing`: once set, the static only decreases.
- `KeyFramePeriodAsSpecified`: `getKeyFramePeriod` is 0 for a negative or
  sentinel interval. Otherwise it is in `[1, UINT32_MAX]`, within half a
  frame of `interval * rate` unless clamped, and clamped only by periods
  beyond the bound.
- `KeyFramePeriodMonotone` (action property): a longer finite interval at
  the same rate, or a higher rate at the same interval, never gives a
  shorter period. A uint32 cast without the clamp would wrap and break it.
- `ResolveConverged`: the convergence cache. Every committed
  configuration, proposed again, resolves to itself and leaves the static
  as it is. A resolution can lower the static; this says the lowered static
  never pulls a committed level down further on the next identical call.
  It takes the override, `NeedsUpdate` and the recorded level to agree.
- `ResolveRespectsFeasibleRequest`: whatever the static holds, no single
  resolution goes above a proposed level that is allowed and fits.
- `ResolverRefinement`: the step-by-step setter of one instance implements
  `ConfigResolver`.
- `IntraRefreshConsistent`: intra refresh is either disabled with period
  0, or arbitrary with a period of at least 1. This covers a fractional
  period in (0, 1), which must disable it.

The bounds are chosen so that every branch of the setter happens:

- the override (a request above a recorded level);
- a held level that is unsupported (5.2), too low (level 1 for 320x240), or
  feasible (4.1);
- the skip of the unlisted row;
- exhaustion;
- both profile paths.

Between them, the passing runs fire every action. A mutant of each checked
property is listed in `PROJECT.json`, and TLC finds each one violated.

No fairness is assumed, and no liveness property is checked. The setter's
loop is a range-for over the 17 rows of a constexpr table with no blocking
call, so it ends by its shape, and clients need not call at all.
`EncodeConfig`'s type invariant `TypeOK` is proved (`TypeCorrect`) and
used by the proofs, but no run checks it: only a bug in the model, not in
the code, could break it.

## Findings

1. **Shared memory** (line 77). `lowestConfigLevel` is a function static, not
   per-instance state. Spec sections 3 and 5 require one ResolverMemory per
   instance. Run `shared` shows one instance's level leaking into another's
   result.
2. **Data race** (lines 126-127 against 163). The test and the assignment
   read the unsynchronised static twice. An instance can end up above the
   feasible level it asked for, which contradicts spec section 8 (run
   `race`). A race on a non-atomic variable is undefined behaviour in C++.
   The model takes the outcome a build produces in practice: a read returns
   the last written value.
3. **Hi10 Intra bitrate tier** (line 144). The ordinal thresholds put
   `PROFILE_AVC_HIGH_10_INTRA` (after `HIGH_422`) in the 4x tier. The code's
   comment and Table A-2 say 3x (run `intra`). spec.md's ordinal rule
   agrees with the code, so this is the code against the standard that its
   comment cites.

Even with the shared and racy memory, no committed configuration is ever
infeasible. Run `two` checks this, and `ConfigValid` proves it. The loop
always re-checks the level the memory supplies.

## What is proved

`EncodeConfigProofs` is checked by `tlapm` for every value of the constants.
It relies on `ConstAssumption`, which says:

- the supported profiles are a nonempty set of H264 profiles;
- the maximum sizes are at least 2;
- the request sets are typed.

Theorems:

- **`TypeCorrect`**: `Spec => []TypeOK`.
- **`ConfigValid`**: `Spec => []StoredConfigValid`, for any number of
  instances and any interleaving. `StoredConfigValid` alone is not
  inductive. The proof uses `IInv`, which adds two conjuncts:
  - an instance at `assign` holds a supported profile;
  - an instance scanning at row `k[i]` satisfies the loop invariant
    `ScanInv`. Every allowed row before `k[i]` is infeasible for its pending
    values. Unless `needsUpdate[i]` is set, its held level is allowed and
    above all those rows.

  When the loop stops at row `k[i]` without an update, the held level is
  therefore at least `k[i]`. Lemma `FeasibleUpward` (the limits grow with
  the level, `TableMonotone`) shows that it fits. With an update, the level
  is `k[i]` itself, and `Feasible` does not depend on the level field
  (`FeasibleWithLevel`). TLC checked `IInv` as an invariant of runs `one`
  and `two` before the proof was written.

`EncodeTuningsProofs` is also checked by `tlapm`, for the real
`INT64_MAX = 2^63 - 1` and `UINT32_MAX = 2^32 - 1` (the run replaces them
with smaller values) and any request sets that `TuningsAssumption` types.

- **`KeyFramePeriodSpecified`**: `Spec => []KeyFramePeriodAsSpecified`.
  The lemma `KeyFramePeriodCorrect` proves the statement for every interval
  and every positive rational rate, from the bracket of floor division
  (`DivBounds`: `b * (a \div b) <= a < b * (a \div b) + b`). One case is
  proved per branch of the clamp. The type invariant then supplies its
  hypotheses in every reachable state.
- **`KeyFramePeriodMonotoneHolds`**: `Spec => KeyFramePeriodMonotone`.
  - In the interval: floor division is monotone (`DivMonotone`).
  - In the rate: `floor(A/B) <= floor(A2/B2)` follows from
    `A * B2 <= A2 * B`, cancelling the positive factors (`MulCancel`).
  - The clamp keeps the order (`ClampMonotone`).
  - The step lemma `MonotoneStep` holds between any two typed states, so
    `[]TypeOK` gives the action property.
- **`TypeCorrect`** and **`RefreshConsistent`**: `TypeOK /\
  IntraRefreshConsistent` is inductive as it stands.

`H264LevelsProofs` holds the table lemmas both proof modules use.
`ConfigResolverProofs` is checked by `tlapm` under `ResolverAssumption`
(proposals are typed records with a level of the table) for any sets of
instances, profiles and proposals.

- **`RespectsFeasibleRequest`**: `Spec => []ResolveRespectsFeasibleRequest`,
  for any number of instances. `FirstFitIsLeast`: the first fit is at most
  every fitting allowed row, and `Feasible` ignores the level field, so the
  proposed level is one of them. `HeldLevel` is at most the proposed level.
  Either branch of `Resolved` is then at most the proposed level.
- **`ConvergedOneInstance`**: for one instance whose defaults are a fixed
  point, `Spec => []ResolveConverged`. The invariant `IInv` adds the type
  invariant and that `cfg` is a function on the instances. The step case rests on
  `ResolveIdempotent`: resolving `Resolved(m, n)` again with
  `ResolvedMemory(m, n)` gives the same configuration and static. Its proof
  splits three ways: no update (the held level fits and stays); an update
  with the proposal's own level (the static becomes the held level, and the
  first fit is unchanged because `FitRows` ignores the level); an update
  from the static. With two instances the theorem is false (the level one
  instance records can lower the other's next resolution), so it assumes
  `Inst = {i}`.

`EncodeRefinementProofs` extends `EncodeConfigProofs`. Its theorems
assume one instance, `Inst = {i}`, as run `refine` and run `one` do. With two
instances another setter can write the static between a setter's override
and its commit. Run `race` shows that `RespectsFeasibleRequest` then fails.

- **`RefinesResolver`**: `Spec => ResolverRefinement`. The split setter
  implements the atomic resolver.
  - The initial states map to the resolver's.
  - `RefineStep` maps each step:
    - `ConfigRejected`, `EnterBadProfile` and `ScanExhausted` are
      `CallFailed`;
    - `ConfigUnchanged` is `CallUnchanged`;
    - `ScanHit` is `CallResolved` of the proposal being worked on;
    - the other steps leave `cfg`, `lowestConfigLevel` and `result` alone.
  - The mapping is the identity on the shared variables, so the argument is
    about what the setter's locals hold.
  - `Resolver` is an instance, so its copies of the table's definitions are
    distinct operators to the prover. Lemma `Bridge` equates them with the
    originals.
- **`FeasibleRequestOneInstance`**: `Spec => []RespectsFeasibleRequest`.
- **`LowestNonIncreasingOneInstance`**: `Spec => LowestNonIncreasing`.
  Only a hit with `needsUpdate` writes the static, and it writes the held
  level. When the static is set and the held level differs from it, the
  override did not fire, so the held level is the proposal's level, which is
  not above the static.

All three rest on the inductive invariant `RInv`, which TLC checked on run
`one` before the proof was written. It adds two things to `IInv`:

- `RespectsFeasibleRequest` itself;
- `Tracked(i)`: while the setter runs, some proposal `n` in `Proposals` is
  behind its locals (`Tracks(i, n)`). The request recorded is `n.level`.
  - At `enter`, the pending values are `n`.
  - After the profile check, they are `Fixed(n)`: `n` with the resolver's
    profile.
  - During the loop, they carry `HeldLevel(lowestConfigLevel, n)`, and
    `needsUpdate[i]` equals `UpdateSoFar(n, k[i])`, the resolver's
    `NeedsUpdate` cut at the rows already passed.

At the hit, lemma `HitResolves` then shows:

- the row reached is `FirstFit(n)`, because `ScanInv` says every earlier
  allowed row failed;
- the commit is `Resolved(lowestConfigLevel, n)`;
- the new static is `ResolvedMemory(lowestConfigLevel, n)`.

Only model-checked:

- The two-instance run and the violations.

## Not modelled

- `VP9ProfileLevelSetter` and the VP8 constant.
- The IEEE double rounding of `getKeyFramePeriod` (hazard at line 458).
  The model computes exactly, and states the exact result that the double
  computation approximates.
- The bitrate-mode, request-sync-frame and block-pool parameters. They are
  plain value checks with no dependencies, and nothing in this file reads
  them.
- The construction errors of `Initialize` and `getCodecFromComponentName`.
- The constant parameters (buffer types, allocators, block pools): no
  operation changes them.
- Fractional frame rates (hazard at line 122).

## Plan

1. `EncodeInit`: `Initialize` as a module, covering:
   - device failure, bad name and empty profile list, each leaving a
     well-defined failed state;
   - `IsValidProfileForCodec` filtering;
   - the elementwise maximum size;
   - the per-codec defaults (H264 level 4.1, VP8 constant, VP9 level 1).
2. The VP9 setter.
3. Done: `ConfigResolver`, the refinement, and its TLAPS proof. Still
   open: monotonicity in bitrate, which needs a run where a lower bitrate
   fits a lower row.
