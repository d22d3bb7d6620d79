------------------------- MODULE EncodeConfigProofs -------------------------
(***************************************************************************)
(* Proofs about EncodeConfig, for every value of its constants: the type   *)
(* invariant, and that every committed configuration is valid             *)
(* (StoredConfigValid) however the instances' setter steps interleave.     *)
(***************************************************************************)
EXTENDS EncodeConfig, H264LevelsProofs, TLAPS

-----------------------------------------------------------------------------
(* Facts about the table (more in H264LevelsProofs).                      *)

\* A configuration that fits a level fits every higher level.
LEMMA FeasibleUpward ==
  ASSUME NEW a \in Rows, NEW b \in Rows, a <= b, NEW c \in Config, Feasible(a, c)
  PROVE  Feasible(b, c)
<1>1. /\ kLimits[a].maxBR <= kLimits[b].maxBR
      /\ kLimits[a].maxFS <= kLimits[b].maxFS
      /\ kLimits[a].maxMBPS <= kLimits[b].maxMBPS
  BY TableMonotone
<1>2. /\ kLimits[a].maxBR \in Nat /\ kLimits[a].maxFS \in Nat /\ kLimits[a].maxMBPS \in Nat
      /\ kLimits[b].maxBR \in Nat /\ kLimits[b].maxFS \in Nat /\ kLimits[b].maxMBPS \in Nat
  BY LimitTypes
<1>3. /\ TargetFS(c.width, c.height) \in Int
      /\ TargetMBPS(c.width, c.height, c.frameRate) \in Int
  BY DEF TargetFS, TargetMBPS, Config
<1>4. MaxBRFor(a, c.profile) <= MaxBRFor(b, c.profile)
      /\ MaxBRFor(a, c.profile) \in Int /\ MaxBRFor(b, c.profile) \in Int
  BY <1>1, <1>2 DEF MaxBRFor, Config
<1>5. QED
  BY <1>1, <1>2, <1>3, <1>4 DEF Feasible, Config

\* The default profile is one the device supports.
LEMMA MinProfileSupported == MinSupportedProfile \in SupportedProfiles
<1>1. SupportedProfiles \in SUBSET (1 .. 22) /\ SupportedProfiles # {}
  BY ConstAssumption DEF AvcProfiles, PROFILE_AVC_BASELINE,
                         PROFILE_AVC_ENHANCED_MULTIVIEW_DEPTH_HIGH
<1>2. \E p \in SupportedProfiles : \A q \in SupportedProfiles : p <= q
  BY <1>1, MinExists
<1>3. QED
  BY <1>2, Zenon DEF MinSupportedProfile

-----------------------------------------------------------------------------
(* Replacing one field of a configuration.                                 *)

LEMMA SetLevel ==
  ASSUME NEW c \in Config, NEW l \in 0 .. NumLimits
  PROVE  /\ WithLevel(c, l) \in Config
         /\ WithLevel(c, l).level = l
         /\ WithLevel(c, l).width = c.width /\ WithLevel(c, l).height = c.height
         /\ WithLevel(c, l).frameRate = c.frameRate
         /\ WithLevel(c, l).bitrate = c.bitrate
         /\ WithLevel(c, l).profile = c.profile
  BY Zenon DEF Config, WithLevel

\* WithProfile (info.set().profile) changes the profile and no other field.
LEMMA SetProfile ==
  ASSUME NEW c \in Config, NEW p \in Int
  PROVE  /\ WithProfile(c, p) \in Config
         /\ WithProfile(c, p).profile = p
         /\ WithProfile(c, p).width = c.width /\ WithProfile(c, p).height = c.height
         /\ WithProfile(c, p).frameRate = c.frameRate
         /\ WithProfile(c, p).bitrate = c.bitrate
         /\ WithProfile(c, p).level = c.level
  BY Zenon DEF Config, WithProfile

-----------------------------------------------------------------------------
(* The type invariant.                                                     *)

\* Every request the framework passes on is a Config.
LEMMA ProposedType ==
  ASSUME NEW s \in Sizes, NEW f \in FrameRates, NEW b \in Bitrates,
         NEW p \in Int, NEW l \in 0 .. NumLimits
  PROVE  Proposed(s, f, b, p, l) \in Config
  BY ConstAssumption DEF Proposed, Config, ClampSize, ClampBitrate, kMaxBitrate

\* The initial state (the defaults Initialize declares) is well typed.
LEMMA TypeInit == Init => TypeOK
  BY MinProfileSupported, ConstAssumption
  DEF Init, TypeOK, DefaultConfig, Config, AvcProfiles, NumLimits, LEVEL_AVC_4_1,
      LEVEL_UNUSED, kDefaultFrameRate, kDefaultBitrate, PC

\* Every step of a config call or of a setter keeps the types.
LEMMA TypeStep == TypeOK /\ [Next]_vars => TypeOK'
<1> SUFFICES ASSUME TypeOK, [Next]_vars PROVE TypeOK'
  OBVIOUS
<1> USE ConstAssumption DEF TypeOK, PC, Return, Fail, StartScan, NumLimits
<1>1. ASSUME NEW i \in Inst, ConfigRejected(i) PROVE TypeOK'
  BY <1>1 DEF ConfigRejected
<1>2. ASSUME NEW i \in Inst, ConfigUnchanged(i) PROVE TypeOK'
  BY <1>2 DEF ConfigUnchanged, Config
<1>3. ASSUME NEW i \in Inst, ConfigStart(i) PROVE TypeOK'
  <2>1. PICK setsPL \in BOOLEAN, s \in Sizes, f \in FrameRates, b \in Bitrates,
             p \in ReqProfiles, l \in ReqLevels :
          /\ f > 0
          /\ setsPL \/ DepsChanged(cfg[i], RequestOf(i, setsPL, s, f, b, p, l))
          /\ pending' = [pending EXCEPT ![i] = RequestOf(i, setsPL, s, f, b, p, l)]
          /\ req' = [req EXCEPT ![i] = RequestOf(i, setsPL, s, f, b, p, l).level]
    BY <1>3 DEF ConfigStart
  <2>2. RequestOf(i, setsPL, s, f, b, p, l) \in Config
    <3>1. p \in Int /\ l \in 0 .. NumLimits
      BY DEF Rows
    <3>2. cfg[i].profile \in Int /\ cfg[i].level \in 0 .. NumLimits
      BY DEF Config
    <3>3. QED
      BY <3>1, <3>2, ProposedType DEF RequestOf
  <2>3. /\ pc' = [pc EXCEPT ![i] = "enter"]
        /\ UNCHANGED <<cfg, k, needsUpdate, lowestConfigLevel, result, writers>>
    BY <1>3 DEF ConfigStart
  <2>4. QED
    BY <2>1, <2>2, <2>3 DEF Config
<1>4. ASSUME NEW i \in Inst, EnterBadProfile(i) PROVE TypeOK'
  BY <1>4 DEF EnterBadProfile
<1>5. ASSUME NEW i \in Inst, Enter(i) PROVE TypeOK'
  <2>1. WithProfile(pending[i], PROFILE_AVC_BASELINE) \in Config
    BY SetProfile DEF PROFILE_AVC_BASELINE
  <2>2. (IF NeedsDefaultProfile(pending[i].profile)
         THEN WithProfile(pending[i], PROFILE_AVC_BASELINE) ELSE pending[i]) \in Config
    BY <2>1
  <2>3. pending' = [pending EXCEPT ![i] =
                      IF NeedsDefaultProfile(pending[i].profile)
                      THEN WithProfile(pending[i], PROFILE_AVC_BASELINE)
                      ELSE pending[i]]
    BY <1>5 DEF Enter
  <2>4. /\ pc' \in [Inst -> PC]
        /\ k' \in [Inst -> 1 .. NumLimits + 1]
        /\ needsUpdate' \in [Inst -> BOOLEAN]
        /\ UNCHANGED <<cfg, lowestConfigLevel, result, req, writers>>
    <3>1. CASE lowestConfigLevel # LEVEL_UNUSED /\ lowestConfigLevel < pending[i].level
      BY <1>5, <3>1 DEF Enter
    <3>2. CASE ~(lowestConfigLevel # LEVEL_UNUSED /\ lowestConfigLevel < pending[i].level)
      <4>1. /\ pc' = [pc EXCEPT ![i] = "scan"]
            /\ k' = [k EXCEPT ![i] = 1]
            /\ needsUpdate' = [needsUpdate EXCEPT ![i] = pending[i].level \notin AllowedLevels]
            /\ UNCHANGED <<cfg, lowestConfigLevel, result, req, writers>>
        BY <1>5, <3>2 DEF Enter
      <4>2. (pending[i].level \notin AllowedLevels) \in BOOLEAN
        OBVIOUS
      <4>3. QED
        BY <4>1, <4>2
    <3>3. QED
      BY <3>1, <3>2
  <2>5. QED
    BY <2>2, <2>3, <2>4
<1>6. ASSUME NEW i \in Inst, Assign(i) PROVE TypeOK'
  <2>1. WithLevel(pending[i], lowestConfigLevel) \in Config
    BY SetLevel
  <2>2. QED
    BY <1>6, <2>1 DEF Assign
<1>7. ASSUME NEW i \in Inst, ScanSkip(i) PROVE TypeOK'
  BY <1>7 DEF ScanSkip
<1>8. ASSUME NEW i \in Inst, ScanMiss(i) PROVE TypeOK'
  BY <1>8 DEF ScanMiss
<1>9. ASSUME NEW i \in Inst, ScanHit(i) PROVE TypeOK'
  <2>1. kLimits[k[i]].level \in 0 .. NumLimits
    BY <1>9, LevelOfRow DEF ScanHit, Rows
  <2>2. WithLevel(pending[i], kLimits[k[i]].level) \in Config
    BY <2>1, SetLevel
  <2>3. (IF needsUpdate[i] THEN WithLevel(pending[i], kLimits[k[i]].level)
         ELSE pending[i]) \in Config
    BY <2>2
  <2>4. /\ pending' = [pending EXCEPT ![i] =
                        IF needsUpdate[i]
                        THEN WithLevel(pending[i], kLimits[k[i]].level)
                        ELSE pending[i]]
        /\ cfg' = [cfg EXCEPT ![i] =
                        IF needsUpdate[i]
                        THEN WithLevel(pending[i], kLimits[k[i]].level)
                        ELSE pending[i]]
    BY <1>9 DEF ScanHit
  <2>5. /\ lowestConfigLevel' \in 0 .. NumLimits
        /\ writers' \subseteq Inst
        /\ pc' \in [Inst -> PC]
        /\ k' \in [Inst -> 1 .. NumLimits + 1]
        /\ needsUpdate' \in [Inst -> BOOLEAN]
        /\ result' \in [Inst -> {"ok", "bad"}]
        /\ UNCHANGED req
    BY <1>9 DEF ScanHit, Config
  <2>6. QED
    BY <2>3, <2>4, <2>5
<1>10. ASSUME NEW i \in Inst, ScanExhausted(i) PROVE TypeOK'
  BY <1>10 DEF ScanExhausted
<1>11. CASE UNCHANGED vars
  BY <1>11 DEF vars
<1>12. QED
  BY <1>1, <1>2, <1>3, <1>4, <1>5, <1>6, <1>7, <1>8, <1>9, <1>10, <1>11
  DEF Next, Client, Setter

-----------------------------------------------------------------------------
(* The inductive invariant behind StoredConfigValid.  While instance i's   *)
(* setter scans the table, every allowed row before k[i] is one the        *)
(* configuration does not fit, and unless needsUpdate is set the held      *)
(* level is allowed and above all those rows.  So when the loop stops at   *)
(* row k[i] without an update, the held level is at least k[i], and it     *)
(* fits by FeasibleUpward.                                                 *)

ScanInv(i) ==
  /\ pending[i].profile \in SupportedProfiles
  /\ \A r \in Rows : r < k[i] /\ r \in AllowedLevels => ~Feasible(r, pending[i])
  /\ ~needsUpdate[i] =>
       /\ pending[i].level \in AllowedLevels
       /\ \A r \in Rows : r < k[i] /\ r \in AllowedLevels => r < pending[i].level

AssignInv == \A i \in Inst : pc[i] = "assign" => pending[i].profile \in SupportedProfiles
ScanInvs == \A i \in Inst : pc[i] = "scan" => ScanInv(i)

IInv == TypeOK /\ StoredConfigValid /\ AssignInv /\ ScanInvs

\* The variables always have the types TypeOK gives them.
THEOREM TypeCorrect == Spec => []TypeOK
  BY TypeInit, TypeStep, PTL DEF Spec

\* Whether a configuration fits a row does not depend on its level.
LEMMA FeasibleWithLevel ==
  ASSUME NEW c \in Config, NEW l \in 0 .. NumLimits, NEW r \in Rows
  PROVE  Feasible(r, WithLevel(c, l)) <=> Feasible(r, c)
  BY SetLevel DEF Feasible

\* The allowed levels are rows of the table, and LEVEL_UNUSED is not one.
LEMMA LevelRanges ==
  /\ AllowedLevels \subseteq Rows
  /\ Rows \subseteq 0 .. NumLimits
  /\ \A r \in Rows : r >= 1
  /\ LEVEL_UNUSED \notin AllowedLevels
  BY DEF AllowedLevels, Rows, NumLimits, LEVEL_AVC_1, LEVEL_AVC_5_1, LEVEL_UNUSED

\* The default configuration of Initialize fits LEVEL_AVC_4_1: the
\* invariant holds initially.
LEMMA IInvInit == Init => IInv
<1> SUFFICES ASSUME Init PROVE IInv
  OBVIOUS
<1>1. TypeOK
  BY TypeInit
<1>2. Feasible(LEVEL_AVC_4_1, DefaultConfig)
  <2>1. MinSupportedProfile \in Int
    BY MinProfileSupported, ConstAssumption DEF AvcProfiles
  <2>2. QED
    BY <2>1 DEF Feasible, TargetFS, TargetMBPS, MaxBRFor, kLimits, DefaultConfig,
                LEVEL_AVC_4_1, LEVEL_AVC_1, LEVEL_AVC_1B, LEVEL_AVC_1_1, LEVEL_AVC_1_2,
                LEVEL_AVC_1_3, LEVEL_AVC_2, LEVEL_AVC_2_1, LEVEL_AVC_2_2, LEVEL_AVC_3,
                LEVEL_AVC_3_1, LEVEL_AVC_3_2, LEVEL_AVC_4, LEVEL_AVC_4_2, LEVEL_AVC_5,
                LEVEL_AVC_5_1, LEVEL_AVC_5_2, kDefaultFrameRate, kDefaultBitrate,
                PROFILE_AVC_HIGH_422, PROFILE_AVC_HIGH_10, PROFILE_AVC_HIGH
<1>3. StoredConfigValid
  <2>1. DefaultConfig.profile \in SupportedProfiles
        /\ DefaultConfig.level \in AllowedLevels
    BY MinProfileSupported DEF DefaultConfig, AllowedLevels, LEVEL_AVC_4_1,
                                LEVEL_AVC_1, LEVEL_AVC_5_1
  <2>2. DefaultConfig.level = LEVEL_AVC_4_1
    BY DEF DefaultConfig
  <2>3. QED
    BY <1>2, <2>1, <2>2 DEF Init, StoredConfigValid
<1>4. QED
  BY <1>1, <1>3 DEF Init, IInv, AssignInv, ScanInvs
\* Every step of a config call or of H264ProfileLevelSetter, of any
\* instance, preserves the inductive invariant.
LEMMA IInvStep == IInv /\ [Next]_vars => IInv'
<1> SUFFICES ASSUME IInv, [Next]_vars PROVE IInv'
  OBVIOUS
<1>0. TypeOK'
  BY TypeStep DEF IInv
<1> USE DEF IInv
<1> USE LevelRanges
<1>1. ASSUME NEW i \in Inst, ConfigRejected(i) PROVE IInv'
  BY <1>0, <1>1 DEF ConfigRejected, StoredConfigValid, AssignInv, ScanInvs, ScanInv
<1>2. ASSUME NEW i \in Inst, ConfigUnchanged(i) PROVE IInv'
  BY <1>0, <1>2 DEF ConfigUnchanged, StoredConfigValid, AssignInv, ScanInvs, ScanInv
<1>3. ASSUME NEW i \in Inst, ConfigStart(i) PROVE IInv'
  <2>1. PICK n : pending' = [pending EXCEPT ![i] = n]
    BY <1>3, Zenon DEF ConfigStart
  <2>2. /\ pc' = [pc EXCEPT ![i] = "enter"]
        /\ UNCHANGED <<cfg, k, needsUpdate>>
    BY <1>3 DEF ConfigStart
  <2>3. \A j \in Inst : pc'[j] \in {"assign", "scan"} => j # i /\ pending'[j] = pending[j]
    BY <1>0, <2>1, <2>2 DEF TypeOK
  <2>4. QED
    BY <1>0, <2>2, <2>3 DEF StoredConfigValid, AssignInv, ScanInvs, ScanInv, TypeOK
<1>4. ASSUME NEW i \in Inst, EnterBadProfile(i) PROVE IInv'
  <2>1. /\ pending' = [pending EXCEPT ![i] = cfg[i]]
        /\ pc' = [pc EXCEPT ![i] = "idle"]
        /\ UNCHANGED cfg
    BY <1>4 DEF EnterBadProfile, Fail, Return
  \* k and needsUpdate change only at i, which is idle afterwards.
  <2>2. \A j \in Inst : pc'[j] \in {"assign", "scan"} =>
          j # i /\ pending'[j] = pending[j] /\ k'[j] = k[j] /\ needsUpdate'[j] = needsUpdate[j]
    BY <1>4, <2>1 DEF EnterBadProfile, Fail, Return, TypeOK
  <2>3. QED
    BY <1>0, <2>1, <2>2 DEF StoredConfigValid, AssignInv, ScanInvs, ScanInv, TypeOK
<1>5. ASSUME NEW i \in Inst, Enter(i) PROVE IInv'
  <2>0. pending[i] \in Config /\ PROFILE_AVC_BASELINE \in Int
    BY DEF TypeOK, PROFILE_AVC_BASELINE
  <2>1. pending'[i].profile \in SupportedProfiles
    <3>1. CASE NeedsDefaultProfile(pending[i].profile)
      <4>1. pending'[i] = WithProfile(pending[i], PROFILE_AVC_BASELINE)
        BY <1>5, <3>1 DEF Enter, TypeOK
      <4>2. PROFILE_AVC_BASELINE \in SupportedProfiles
        BY <1>5, <3>1 DEF Enter
      <4>3. QED
        BY <2>0, <4>1, <4>2, SetProfile
    <3>2. CASE ~NeedsDefaultProfile(pending[i].profile)
      <4>1. pending'[i] = pending[i]
        BY <1>5, <3>2 DEF Enter, TypeOK
      <4>2. QED
        BY <4>1, <3>2 DEF NeedsDefaultProfile
    <3>3. QED
      BY <3>1, <3>2
  <2>2. pending'[i].level = pending[i].level
    <3>1. CASE NeedsDefaultProfile(pending[i].profile)
      <4>1. pending'[i] = WithProfile(pending[i], PROFILE_AVC_BASELINE)
        BY <1>5, <3>1 DEF Enter, TypeOK
      <4>2. QED
        BY <2>0, <4>1, SetProfile
    <3>2. CASE ~NeedsDefaultProfile(pending[i].profile)
      BY <1>5, <3>2 DEF Enter, TypeOK
    <3>3. QED
      BY <3>1, <3>2
  <2>3. /\ \A j \in Inst \ {i} : pending'[j] = pending[j]
        /\ UNCHANGED cfg
    BY <1>5 DEF Enter, TypeOK
  <2>4. /\ \A j \in Inst \ {i} : pc'[j] = pc[j] /\ k'[j] = k[j] /\ needsUpdate'[j] = needsUpdate[j]
        /\ pc'[i] \in {"assign", "scan"}
        /\ pc'[i] = "scan" => k'[i] = 1 /\ needsUpdate'[i] = (pending[i].level \notin AllowedLevels)
    <3>1. CASE lowestConfigLevel # LEVEL_UNUSED /\ lowestConfigLevel < pending[i].level
      BY <1>5, <3>1 DEF Enter, TypeOK
    <3>2. CASE ~(lowestConfigLevel # LEVEL_UNUSED /\ lowestConfigLevel < pending[i].level)
      <4>1. (pending[i].level \notin AllowedLevels) \in BOOLEAN
        OBVIOUS
      <4>2. QED
        BY <1>5, <3>2, <4>1 DEF Enter, StartScan, TypeOK
    <3>3. QED
      BY <3>1, <3>2
  <2>5. pc'[i] = "scan" => ScanInv(i)'
    <3>1. \A r \in Rows : ~(r < 1)
      OBVIOUS
    <3>2. QED
      BY <2>1, <2>2, <2>4, <3>1 DEF ScanInv
  <2>6. QED
    BY <1>0, <2>1, <2>3, <2>4, <2>5 DEF StoredConfigValid, AssignInv, ScanInvs, ScanInv, TypeOK
<1>6. ASSUME NEW i \in Inst, Assign(i) PROVE IInv'
  <2>1. /\ pending'[i] = WithLevel(pending[i], lowestConfigLevel)
        /\ \A j \in Inst \ {i} : pending'[j] = pending[j]
        /\ pc' = [pc EXCEPT ![i] = "scan"]
        /\ k' = [k EXCEPT ![i] = 1]
        /\ needsUpdate' = [needsUpdate EXCEPT ![i] = lowestConfigLevel \notin AllowedLevels]
        /\ UNCHANGED cfg
    BY <1>6 DEF Assign, StartScan, TypeOK
  <2>2. /\ pending'[i].profile \in SupportedProfiles
        /\ pending'[i].level = lowestConfigLevel
    <3>1. pending[i] \in Config /\ lowestConfigLevel \in 0 .. NumLimits
      BY DEF TypeOK
    <3>2. pending[i].profile \in SupportedProfiles
      BY <1>6 DEF Assign, AssignInv
    <3>3. QED
      BY <2>1, <3>1, <3>2, SetLevel
  <2>3. ScanInv(i)'
    <3>1. \A r \in Rows : ~(r < 1)
      OBVIOUS
    <3>2. (lowestConfigLevel \notin AllowedLevels) \in BOOLEAN
      OBVIOUS
    <3>3. QED
      BY <1>0, <2>1, <2>2, <3>1, <3>2 DEF ScanInv, TypeOK
  <2>4. QED
    BY <1>0, <2>1, <2>3 DEF StoredConfigValid, AssignInv, ScanInvs, ScanInv, TypeOK
<1>7. ASSUME NEW i \in Inst, ScanSkip(i) PROVE IInv'
  <2>0. k[i] \in Rows
    BY <1>7 DEF ScanSkip, TypeOK, Rows
  <2>1. /\ pc[i] = "scan" /\ k[i] \in Rows /\ k[i] \notin AllowedLevels
        /\ k' = [k EXCEPT ![i] = @ + 1]
        /\ UNCHANGED <<cfg, pending, pc, needsUpdate>>
    BY <1>7, <2>0, LevelOfRow DEF ScanSkip
  <2>2. ScanInv(i)'
    BY <2>1 DEF ScanInvs, ScanInv, TypeOK
  <2>3. QED
    BY <1>0, <2>1, <2>2 DEF StoredConfigValid, AssignInv, ScanInvs, ScanInv, TypeOK
<1>8. ASSUME NEW i \in Inst, ScanMiss(i) PROVE IInv'
  <2>0. k[i] \in Rows
    BY <1>8 DEF ScanMiss, TypeOK, Rows
  <2>1. /\ pc[i] = "scan" /\ k[i] \in Rows /\ k[i] \in AllowedLevels
        /\ ~Feasible(k[i], pending[i])
        /\ needsUpdate' = [needsUpdate EXCEPT ![i] = @ \/ pending[i].level <= k[i]]
        /\ k' = [k EXCEPT ![i] = @ + 1]
        /\ UNCHANGED <<cfg, pending, pc>>
    BY <1>8, <2>0, LevelOfRow DEF ScanMiss
  <2>2. (needsUpdate[i] \/ pending[i].level <= k[i]) \in BOOLEAN
    OBVIOUS
  <2>3. ScanInv(i)
    BY <2>1 DEF ScanInvs
  <2>4. ScanInv(i)'
    <3>1. /\ pending'[i] = pending[i] /\ k'[i] = k[i] + 1
          /\ needsUpdate'[i] = (needsUpdate[i] \/ pending[i].level <= k[i])
      BY <2>1, <2>2 DEF TypeOK
    <3>2. \A r \in Rows : r < k[i] + 1 /\ r \in AllowedLevels => ~Feasible(r, pending[i])
      BY <2>0, <2>1, <2>3 DEF ScanInv, Rows
    <3>3. pending[i].level \in Int
      BY DEF TypeOK, Config
    <3>4. ~(needsUpdate[i] \/ pending[i].level <= k[i]) =>
            /\ pending[i].level \in AllowedLevels
            /\ \A r \in Rows : r < k[i] + 1 /\ r \in AllowedLevels => r < pending[i].level
      BY <2>0, <2>3, <3>3 DEF ScanInv, Rows
    <3>5. QED
      BY <2>3, <3>1, <3>2, <3>4 DEF ScanInv
  <2>5. QED
    BY <1>0, <2>1, <2>4 DEF StoredConfigValid, AssignInv, ScanInvs, ScanInv, TypeOK
<1>9. ASSUME NEW i \in Inst, ScanHit(i) PROVE IInv'
  <2> DEFINE final == IF needsUpdate[i] THEN WithLevel(pending[i], k[i]) ELSE pending[i]
  <2>0. k[i] \in Rows
    BY <1>9 DEF ScanHit, TypeOK, Rows
  <2>1. /\ pc[i] = "scan" /\ k[i] \in Rows /\ k[i] \in AllowedLevels
        /\ Feasible(k[i], pending[i])
        /\ pending' = [pending EXCEPT ![i] = final]
        /\ cfg' = [cfg EXCEPT ![i] = final]
        /\ pc' = [pc EXCEPT ![i] = "idle"]
    BY <1>9, <2>0, LevelOfRow DEF ScanHit, Return
  <2>2. ScanInv(i)
    BY <2>1 DEF ScanInvs
  <2>3. /\ final.profile \in SupportedProfiles
        /\ final.level \in AllowedLevels
        /\ Feasible(final.level, final)
    <3>1. CASE needsUpdate[i]
      <4>1. final = WithLevel(pending[i], k[i])
        BY <3>1
      <4>2. QED
        BY <2>1, <2>2, <4>1, SetLevel, FeasibleWithLevel DEF ScanInv, TypeOK
    <3>2. CASE ~needsUpdate[i]
      <4>1. final = pending[i]
        BY <3>2
      <4>2. pending[i].level \in AllowedLevels
            /\ \A r \in Rows : r < k[i] /\ r \in AllowedLevels => r < pending[i].level
        BY <2>2, <3>2 DEF ScanInv
      <4>3. k[i] <= pending[i].level
        <5>1. pending[i].level \in Rows /\ k[i] \in Rows
          BY <2>0, <4>2
        <5>2. ~(pending[i].level < k[i])
          BY <4>2, <5>1 DEF Rows
        <5>3. QED
          BY <5>1, <5>2 DEF Rows
      <4>4. Feasible(pending[i].level, pending[i])
        <5>1. pending[i] \in Config /\ pending[i].level \in Rows
          BY <4>2 DEF TypeOK
        <5>2. QED
          BY <2>0, <2>1, <4>3, <5>1, FeasibleUpward
      <4>5. QED
        BY <2>2, <4>1, <4>2, <4>4 DEF ScanInv
    <3>3. QED
      BY <3>1, <3>2
  <2>4. \A j \in Inst \ {i} : /\ pending'[j] = pending[j] /\ pc'[j] = pc[j]
                              /\ k'[j] = k[j] /\ needsUpdate'[j] = needsUpdate[j]
    BY <1>9, <2>1 DEF ScanHit, Return, TypeOK
  <2>5. QED
    BY <1>0, <2>1, <2>3, <2>4 DEF StoredConfigValid, AssignInv, ScanInvs, ScanInv, TypeOK
<1>10. ASSUME NEW i \in Inst, ScanExhausted(i) PROVE IInv'
  <2>1. /\ pending' = [pending EXCEPT ![i] = cfg[i]]
        /\ pc' = [pc EXCEPT ![i] = "idle"]
        /\ UNCHANGED cfg
        /\ \A j \in Inst \ {i} : k'[j] = k[j] /\ needsUpdate'[j] = needsUpdate[j]
    BY <1>10 DEF ScanExhausted, Fail, Return, TypeOK
  <2>2. QED
    BY <1>0, <2>1 DEF StoredConfigValid, AssignInv, ScanInvs, ScanInv, TypeOK
<1>11. CASE UNCHANGED vars
  BY <1>0, <1>11 DEF vars, StoredConfigValid, AssignInv, ScanInvs, ScanInv
<1>12. QED
  BY <1>1, <1>2, <1>3, <1>4, <1>5, <1>6, <1>7, <1>8, <1>9, <1>10, <1>11
     DEF Next, Client, Setter

\* Every configuration any instance has committed is valid: supported
\* profile, allowed level, and a size, frame rate and bitrate within that
\* level's row, however the instances' calls and setter steps interleave.
THEOREM ConfigValid == Spec => []StoredConfigValid
<1>1. IInv => StoredConfigValid
  BY DEF IInv
<1>2. QED
  BY IInvInit, IInvStep, <1>1, PTL DEF Spec
=============================================================================
