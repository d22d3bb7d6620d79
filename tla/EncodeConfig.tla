---------------------------- MODULE EncodeConfig ----------------------------
(***************************************************************************)
(* Configuration of H264 V4L2EncodeInterface instances.                    *)
(*                                                                         *)
(* A client's config call goes through the parameter framework: the       *)
(* setters without dependencies (SizeSetter, the frame-rate and bitrate   *)
(* setters) are applied first, then H264ProfileLevelSetter, which reads    *)
(* the already-resolved size, frame rate and bitrate.  The call either     *)
(* commits every field or, when a setter fails, none.                      *)
(*                                                                         *)
(* H264ProfileLevelSetter keeps lowestConfigLevel in a function-local      *)
(* static: one variable for the whole process, shared by every instance   *)
(* and read and written without a lock.  The framework serialises the     *)
(* calls of one instance, not of different instances, so the setter is     *)
(* modelled as a sequence of steps (profile check and override test, the   *)
(* override assignment, one step per table row) between which other       *)
(* instances' steps may run.                                               *)
(***************************************************************************)
EXTENDS H264Levels

CONSTANTS
  Inst,               \* the encoder interface instances of the process
  SupportedProfiles,  \* H264 profiles the device reports (Initialize)
  MaxWidth,           \* maxSize.width over the supported profiles
  MaxHeight,          \* maxSize.height over the supported profiles
  Sizes,              \* picture sizes <<width, height>> clients request
  FrameRates,         \* frame rates clients request
  Bitrates,           \* bitrates clients request
  ReqProfiles,        \* profiles clients request
  ReqLevels           \* levels clients request

ASSUME ConstAssumption ==
  /\ Inst # {}
  /\ SupportedProfiles \subseteq AvcProfiles /\ SupportedProfiles # {}
  /\ MaxWidth \in Nat /\ MaxWidth >= 2 /\ MaxHeight \in Nat /\ MaxHeight >= 2
  /\ Sizes \subseteq Nat \X Nat
  /\ FrameRates \subseteq Int
  /\ Bitrates \subseteq Nat
  /\ ReqProfiles \subseteq Int
  /\ ReqLevels \subseteq Rows

kDefaultFrameRate == 30
kDefaultBitrate   == 64000
kMaxBitrate       == 50000000

\* The default profile of the profile-level parameter: the smallest
\* supported profile.
MinSupportedProfile == CHOOSE p \in SupportedProfiles : \A q \in SupportedProfiles : p <= q

\* Stored values of the parameters the H264 profile-level setter reads or
\* writes.  Levels are ordinals, so a level is also the index of its row.
Config == [width : Nat, height : Nat, frameRate : Int, bitrate : Nat,
           profile : Int, level : 0 .. NumLimits]

DefaultConfig ==
  [width |-> 320, height |-> 240, frameRate |-> kDefaultFrameRate,
   bitrate |-> kDefaultBitrate, profile |-> MinSupportedProfile,
   level |-> LEVEL_AVC_4_1]

VARIABLES
  cfg,                \* cfg[i]: the committed parameter values of instance i
  pending,            \* pending[i]: the values the running config call works on
  pc,                 \* pc[i]: where instance i's config call is
  k,                  \* k[i]: the row of kLimits the setter's loop is at
  needsUpdate,        \* needsUpdate[i]: the setter's local of that name
  lowestConfigLevel,  \* the setter's function-static, shared by all instances
  result,             \* result[i]: the status the last config call returned
  req,                \* req[i]: the level the last config call asked for (history)
  writers             \* the instances whose setter has written lowestConfigLevel (history)

vars == <<cfg, pending, pc, k, needsUpdate, lowestConfigLevel, result, req, writers>>

PC == {"idle", "enter", "assign", "scan"}

TypeOK ==
  /\ cfg \in [Inst -> Config]
  /\ pending \in [Inst -> Config]
  /\ pc \in [Inst -> PC]
  /\ k \in [Inst -> 1 .. NumLimits + 1]
  /\ needsUpdate \in [Inst -> BOOLEAN]
  /\ lowestConfigLevel \in 0 .. NumLimits
  /\ result \in [Inst -> {"ok", "bad"}]
  /\ req \in [Inst -> 0 .. NumLimits]
  /\ writers \subseteq Inst

Init ==
  /\ cfg = [i \in Inst |-> DefaultConfig]
  /\ pending = cfg
  /\ pc = [i \in Inst |-> "idle"]
  /\ k = [i \in Inst |-> 1]
  /\ needsUpdate = [i \in Inst |-> FALSE]
  /\ lowestConfigLevel = LEVEL_UNUSED
  /\ result = [i \in Inst |-> "ok"]
  /\ req = [i \in Inst |-> LEVEL_AVC_4_1]
  /\ writers = {}

-----------------------------------------------------------------------------
(* The field setters without dependencies, as the framework applies them:  *)
(* a size is clamped into [2, max] in steps of 2 and a bitrate into        *)
(* [0, kMaxBitrate]; a frame rate that is not > 0 fails the call.          *)

ClampSize(v, max) ==
  LET even == v - (v % 2)
      top  == max - (max % 2)
  IN  IF even < 2 THEN 2 ELSE IF even > top THEN top ELSE even

ClampBitrate(b) == IF b > kMaxBitrate THEN kMaxBitrate ELSE b

\* The parameter values after the independent setters, for a request of
\* size s, frame rate f, bitrate b, profile p and level l.
Proposed(s, f, b, p, l) ==
  [width |-> ClampSize(s[1], MaxWidth), height |-> ClampSize(s[2], MaxHeight),
   frameRate |-> f, bitrate |-> ClampBitrate(b), profile |-> p, level |-> l]

\* The profile-level setter runs when its own parameter is in the request
\* or one of the parameters it depends on changed.
DepsChanged(c, n) ==
  \/ c.width # n.width \/ c.height # n.height
  \/ c.frameRate # n.frameRate \/ c.bitrate # n.bitrate

\* The end of a config call that reached the setter: the call returns
\* status r and the setter's locals go out of scope.
Return(i, r) ==
  /\ pc' = [pc EXCEPT ![i] = "idle"]
  /\ result' = [result EXCEPT ![i] = r]
  /\ k' = [k EXCEPT ![i] = 1]
  /\ needsUpdate' = [needsUpdate EXCEPT ![i] = FALSE]

\* The configuration c with its profile, or its level, replaced.
WithProfile(c, p) == [c EXCEPT !.profile = p]
WithLevel(c, l) == [c EXCEPT !.level = l]

\* A failing setter: the call returns BadValue and no field is committed.
Fail(i) ==
  /\ Return(i, "bad")
  /\ pending' = [pending EXCEPT ![i] = cfg[i]]

\* The setter's loop starts at the first row, needsUpdate initialised from
\* whether the level it now holds is in the allowed list.
StartScan(i, level) ==
  /\ pc' = [pc EXCEPT ![i] = "scan"]
  /\ k' = [k EXCEPT ![i] = 1]
  /\ needsUpdate' = [needsUpdate EXCEPT ![i] = level \notin AllowedLevels]

-----------------------------------------------------------------------------
(* A client's config call.  setsPL says whether the request carries the    *)
(* profile-level parameter; if not, its stored values are used.           *)

RequestOf(i, setsPL, s, f, b, p, l) ==
  IF setsPL THEN Proposed(s, f, b, p, l)
  ELSE Proposed(s, f, b, cfg[i].profile, cfg[i].level)

\* The frame-rate setter rejects a rate that is not > 0.
ConfigRejected(i) ==
  /\ pc[i] = "idle"
  /\ \E f \in FrameRates :
       /\ f <= 0
       /\ result' = [result EXCEPT ![i] = "bad"]
  /\ UNCHANGED <<cfg, pending, pc, k, needsUpdate, lowestConfigLevel, req, writers>>

\* Nothing the profile-level setter depends on changed: nothing to do.
ConfigUnchanged(i) ==
  /\ pc[i] = "idle"
  /\ result' = [result EXCEPT ![i] = "ok"]
  /\ req' = [req EXCEPT ![i] = cfg[i].level]
  /\ UNCHANGED <<cfg, pending, pc, k, needsUpdate, lowestConfigLevel, writers>>

\* The call reaches H264ProfileLevelSetter with the proposed values.
ConfigStart(i) ==
  /\ pc[i] = "idle"
  /\ \E setsPL \in BOOLEAN, s \in Sizes, f \in FrameRates, b \in Bitrates,
        p \in ReqProfiles, l \in ReqLevels :
       LET n == RequestOf(i, setsPL, s, f, b, p, l) IN
       /\ f > 0
       /\ setsPL \/ DepsChanged(cfg[i], n)
       /\ pending' = [pending EXCEPT ![i] = n]
       /\ req' = [req EXCEPT ![i] = n.level]
  /\ pc' = [pc EXCEPT ![i] = "enter"]
  /\ UNCHANGED <<cfg, k, needsUpdate, lowestConfigLevel, result, writers>>

-----------------------------------------------------------------------------
(* H264ProfileLevelSetter.                                                 *)

\* Whether the requested profile must be replaced by the default minimal
\* profile: it is not supported, or below PROFILE_AVC_BASELINE.
NeedsDefaultProfile(p) == p \notin SupportedProfiles \/ p < PROFILE_AVC_BASELINE

\* Neither the requested nor the default profile is supported.
EnterBadProfile(i) ==
  /\ pc[i] = "enter"
  /\ NeedsDefaultProfile(pending[i].profile)
  /\ PROFILE_AVC_BASELINE \notin SupportedProfiles
  /\ Fail(i)
  /\ UNCHANGED <<cfg, lowestConfigLevel, req, writers>>

\* Mutant: the override's comparison is reversed (lowestConfigLevel > level).
EnterSwappedOverride(i) ==
  /\ pc[i] = "enter"
  /\ ~NeedsDefaultProfile(pending[i].profile)
     \/ PROFILE_AVC_BASELINE \in SupportedProfiles
  /\ pending' = [pending EXCEPT ![i] =
                   IF NeedsDefaultProfile(@.profile)
                   THEN WithProfile(@, PROFILE_AVC_BASELINE) ELSE @]
  /\ IF lowestConfigLevel # LEVEL_UNUSED /\ lowestConfigLevel > pending[i].level
     THEN /\ pc' = [pc EXCEPT ![i] = "assign"]
          /\ UNCHANGED <<k, needsUpdate>>
     ELSE StartScan(i, pending[i].level)
  /\ UNCHANGED <<cfg, lowestConfigLevel, result, req, writers>>

\* The profile is fixed, then the static is tested: if it holds a level
\* below the requested one, the next step assigns it.
Enter(i) ==
  /\ pc[i] = "enter"
  /\ ~NeedsDefaultProfile(pending[i].profile)
     \/ PROFILE_AVC_BASELINE \in SupportedProfiles
  /\ pending' = [pending EXCEPT ![i] =
                   IF NeedsDefaultProfile(@.profile)
                   THEN WithProfile(@, PROFILE_AVC_BASELINE) ELSE @]
  /\ IF lowestConfigLevel # LEVEL_UNUSED /\ lowestConfigLevel < pending[i].level
     THEN /\ pc' = [pc EXCEPT ![i] = "assign"]
          /\ UNCHANGED <<k, needsUpdate>>
     ELSE StartScan(i, pending[i].level)
  /\ UNCHANGED <<cfg, lowestConfigLevel, result, req, writers>>

\* info.set().level = lowestConfigLevel: a second read of the static,
\* which another instance may have written since the test.
Assign(i) ==
  /\ pc[i] = "assign"
  /\ pending' = [pending EXCEPT ![i] = WithLevel(@, lowestConfigLevel)]
  /\ StartScan(i, lowestConfigLevel)
  /\ UNCHANGED <<cfg, lowestConfigLevel, result, req, writers>>

\* A row whose level is not in the allowed list is skipped.
ScanSkip(i) ==
  /\ pc[i] = "scan"
  /\ k[i] <= NumLimits
  /\ kLimits[k[i]].level \notin AllowedLevels
  /\ k' = [k EXCEPT ![i] = @ + 1]
  /\ UNCHANGED <<cfg, pending, pc, needsUpdate, lowestConfigLevel, result, req, writers>>

\* Mutant: a row that does not fit never marks the held level for update.
ScanMissNoUpdate(i) ==
  /\ pc[i] = "scan"
  /\ k[i] <= NumLimits
  /\ kLimits[k[i]].level \in AllowedLevels
  /\ ~Feasible(k[i], pending[i])
  /\ k' = [k EXCEPT ![i] = @ + 1]
  /\ UNCHANGED <<cfg, pending, needsUpdate, pc, lowestConfigLevel, result, req, writers>>

\* A row the configuration does not fit: the held level needs an update
\* once the loop has reached it.
ScanMiss(i) ==
  /\ pc[i] = "scan"
  /\ k[i] <= NumLimits
  /\ kLimits[k[i]].level \in AllowedLevels
  /\ ~Feasible(k[i], pending[i])
  /\ needsUpdate' = [needsUpdate EXCEPT ![i] =
                       @ \/ pending[i].level <= kLimits[k[i]].level]
  /\ k' = [k EXCEPT ![i] = @ + 1]
  /\ UNCHANGED <<cfg, pending, pc, lowestConfigLevel, result, req, writers>>

\* Mutant: the static records the row's level instead of the held one.
ScanHitRecordsRow(i) ==
  /\ pc[i] = "scan"
  /\ k[i] <= NumLimits
  /\ kLimits[k[i]].level \in AllowedLevels
  /\ Feasible(k[i], pending[i])
  /\ LET final == IF needsUpdate[i]
                  THEN WithLevel(pending[i], kLimits[k[i]].level)
                  ELSE pending[i]
     IN  /\ pending' = [pending EXCEPT ![i] = final]
         /\ cfg' = [cfg EXCEPT ![i] = final]
  /\ IF needsUpdate[i]
     THEN /\ lowestConfigLevel' = kLimits[k[i]].level
          /\ writers' = writers \cup {i}
     ELSE UNCHANGED <<lowestConfigLevel, writers>>
  /\ Return(i, "ok")
  /\ UNCHANGED req

\* The first row the configuration fits.  If the held level needs an
\* update, the static records the held level and the row's level replaces
\* it.  The setter returns Ok and the framework commits every field.
ScanHit(i) ==
  /\ pc[i] = "scan"
  /\ k[i] <= NumLimits
  /\ kLimits[k[i]].level \in AllowedLevels
  /\ Feasible(k[i], pending[i])
  /\ LET final == IF needsUpdate[i]
                  THEN WithLevel(pending[i], kLimits[k[i]].level)
                  ELSE pending[i]
     IN  /\ pending' = [pending EXCEPT ![i] = final]
         /\ cfg' = [cfg EXCEPT ![i] = final]
  /\ IF needsUpdate[i]
     THEN /\ lowestConfigLevel' = pending[i].level
          /\ writers' = writers \cup {i}
     ELSE UNCHANGED <<lowestConfigLevel, writers>>
  /\ Return(i, "ok")
  /\ UNCHANGED req

\* No row fits: BadValue, and nothing is committed.
ScanExhausted(i) ==
  /\ pc[i] = "scan"
  /\ k[i] = NumLimits + 1
  /\ Fail(i)
  /\ UNCHANGED <<cfg, lowestConfigLevel, req, writers>>

\* The steps of one run of the setter.
Setter(i) ==
  \/ EnterBadProfile(i) \/ Enter(i) \/ Assign(i)
  \/ ScanSkip(i) \/ ScanMiss(i) \/ ScanHit(i) \/ ScanExhausted(i)

Client(i) == ConfigRejected(i) \/ ConfigUnchanged(i) \/ ConfigStart(i)

Next == \E i \in Inst : Client(i) \/ Setter(i)

\* No fairness: the properties are safety properties, and clients need not
\* call at all.
Spec == Init /\ [][Next]_vars

-----------------------------------------------------------------------------
(* The setter as a whole.                                                  *)

\* Every value a config call can propose to the setter: the independent
\* setters' output for each request, with the stored profile and level
\* (supported profiles, levels of the table) when the request omits them.
Proposals ==
  {Proposed(s, f, b, p, l) : s \in Sizes, f \in {x \in FrameRates : x > 0},
                             b \in Bitrates, p \in ReqProfiles \cup SupportedProfiles,
                             l \in ReqLevels \cup Rows}

\* The committed configurations, the static and the call results, seen as
\* a ConfigResolver whose config calls are single steps.
Resolver == INSTANCE ConfigResolver
              WITH Requests <- Proposals, InitialConfig <- DefaultConfig

-----------------------------------------------------------------------------
(* Properties.                                                             *)

\* A single instance's config calls, split into the setter's steps, commit
\* exactly what one atomic run of H264ProfileLevelSetter resolves from the
\* proposal and the static (profile default, override, first fitting
\* allowed row, needsUpdate and the recorded level), and fail exactly when
\* it fails.
ResolverRefinement == Resolver!Spec

\* Every committed configuration is one the encoder can honour: its profile
\* is supported, its level is in the allowed list, and the size, frame
\* rate and bitrate fit that level's row of Table A-1, whatever order the
\* clients' calls and the instances' setter steps came in
\* (H264ProfileLevelSetter's loop and needsUpdate logic).
StoredConfigValid ==
  \A i \in Inst :
    /\ cfg[i].profile \in SupportedProfiles
    /\ cfg[i].level \in AllowedLevels
    /\ Feasible(cfg[i].level, cfg[i])

\* A config call that asked for an allowed level the resulting
\* configuration fits never ends with a higher level: the setter only ever
\* lowers a level that already suffices (its lowestConfigLevel override and
\* its loop).
RespectsFeasibleRequest ==
  \A i \in Inst :
    (/\ pc[i] = "idle" /\ result[i] = "ok"
     /\ req[i] \in AllowedLevels /\ Feasible(req[i], cfg[i]))
    => cfg[i].level <= req[i]

\* The spec's ResolverMemory is owned by one instance: an instance whose
\* own setter never recorded a level keeps the feasible allowed level it
\* asked for.  The code's lowestConfigLevel is a static shared by all.
MemoryPerInstance ==
  \A i \in Inst :
    (/\ pc[i] = "idle" /\ result[i] = "ok" /\ i \notin writers
     /\ req[i] \in AllowedLevels /\ Feasible(req[i], cfg[i]))
    => cfg[i].level = req[i]

\* lowestConfigLevel, once set, only goes down: the setter records the
\* level it held, which its override made no higher than the static.
LowestNonIncreasing ==
  [][lowestConfigLevel # LEVEL_UNUSED /\ lowestConfigLevel' # lowestConfigLevel
     => lowestConfigLevel' < lowestConfigLevel]_vars

\* The bitrate ceiling of Table A-2 as the standard assigns it to each
\* Annex A profile (the comment above the code's multiplier cites it).
StandardMaxBR(row, profile) ==
  CASE profile \in {PROFILE_AVC_HIGH_422, PROFILE_AVC_HIGH_444_PREDICTIVE,
                    PROFILE_AVC_HIGH_422_INTRA, PROFILE_AVC_HIGH_444_INTRA,
                    PROFILE_AVC_CAVLC_444_INTRA} -> kLimits[row].maxBR * 4
    [] profile \in {PROFILE_AVC_HIGH_10, PROFILE_AVC_PROGRESSIVE_HIGH_10,
                    PROFILE_AVC_HIGH_10_INTRA} -> kLimits[row].maxBR * 3
    [] profile \in {PROFILE_AVC_HIGH, PROFILE_AVC_PROGRESSIVE_HIGH,
                    PROFILE_AVC_CONSTRAINED_HIGH} -> (kLimits[row].maxBR * 5) \div 4
    [] OTHER -> kLimits[row].maxBR

\* Every committed configuration with an Annex A profile has a bitrate
\* within its level's Table A-2 ceiling for that profile.
BitrateWithinTableA2 ==
  \A i \in Inst :
    cfg[i].profile <= PROFILE_AVC_CAVLC_444_INTRA
    => cfg[i].bitrate <= StandardMaxBR(cfg[i].level, cfg[i].profile)

=============================================================================
