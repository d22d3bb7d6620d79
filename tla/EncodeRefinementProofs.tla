----------------------- MODULE EncodeRefinementProofs -----------------------
(***************************************************************************)
(* Proofs that one instance's config calls, with H264ProfileLevelSetter    *)
(* split into steps, implement ConfigResolver, and the single-instance     *)
(* properties that follow: a feasible allowed request is never raised,     *)
(* and lowestConfigLevel, once set, only goes down.                        *)
(*                                                                         *)
(* The argument: while instance i's setter runs, some proposal n that the *)
(* framework passed on is behind the values it works on.  After the       *)
(* profile check the values are n with its profile resolved; after the    *)
(* override they carry HeldLevel(lowestConfigLevel, n); during the loop    *)
(* needsUpdate says whether the held level is not allowed or at or below  *)
(* an allowed row already passed.  With one instance nothing else writes  *)
(* the static while the setter runs, so at the hit the commit is          *)
(* Resolved(lowestConfigLevel, n).                                         *)
(***************************************************************************)
EXTENDS EncodeConfigProofs

\* The instance's copies of the table's definitions are the table's.
LEMMA Bridge ==
  /\ Resolver!AllowedLevels = AllowedLevels
  /\ Resolver!Rows = Rows
  /\ Resolver!kLimits = kLimits
  /\ Resolver!LEVEL_UNUSED = LEVEL_UNUSED
  /\ Resolver!PROFILE_AVC_BASELINE = PROFILE_AVC_BASELINE
  /\ \A r, c : Resolver!Feasible(r, c) = Feasible(r, c)
<1>1. /\ Resolver!AllowedLevels = AllowedLevels
      /\ Resolver!Rows = Rows
      /\ Resolver!LEVEL_UNUSED = LEVEL_UNUSED
      /\ Resolver!PROFILE_AVC_BASELINE = PROFILE_AVC_BASELINE
  BY DEF Resolver!AllowedLevels, Resolver!Rows, Resolver!NumLimits,
         Resolver!LEVEL_AVC_1, Resolver!LEVEL_AVC_5_1, Resolver!LEVEL_UNUSED,
         Resolver!PROFILE_AVC_BASELINE, AllowedLevels, Rows, NumLimits,
         LEVEL_AVC_1, LEVEL_AVC_5_1, LEVEL_UNUSED, PROFILE_AVC_BASELINE
<1>2. Resolver!kLimits = kLimits
  BY DEF Resolver!kLimits, kLimits, Resolver!LEVEL_AVC_1, Resolver!LEVEL_AVC_1B,
         Resolver!LEVEL_AVC_1_1, Resolver!LEVEL_AVC_1_2, Resolver!LEVEL_AVC_1_3,
         Resolver!LEVEL_AVC_2, Resolver!LEVEL_AVC_2_1, Resolver!LEVEL_AVC_2_2,
         Resolver!LEVEL_AVC_3, Resolver!LEVEL_AVC_3_1, Resolver!LEVEL_AVC_3_2,
         Resolver!LEVEL_AVC_4, Resolver!LEVEL_AVC_4_1, Resolver!LEVEL_AVC_4_2,
         Resolver!LEVEL_AVC_5, Resolver!LEVEL_AVC_5_1, Resolver!LEVEL_AVC_5_2,
         LEVEL_AVC_1, LEVEL_AVC_1B, LEVEL_AVC_1_1, LEVEL_AVC_1_2, LEVEL_AVC_1_3,
         LEVEL_AVC_2, LEVEL_AVC_2_1, LEVEL_AVC_2_2, LEVEL_AVC_3, LEVEL_AVC_3_1,
         LEVEL_AVC_3_2, LEVEL_AVC_4, LEVEL_AVC_4_1, LEVEL_AVC_4_2, LEVEL_AVC_5,
         LEVEL_AVC_5_1, LEVEL_AVC_5_2
<1>3. ASSUME NEW r, NEW c PROVE Resolver!Feasible(r, c) = Feasible(r, c)
  BY <1>2 DEF Resolver!Feasible, Feasible, Resolver!TargetFS, TargetFS,
              Resolver!TargetMBPS, TargetMBPS, Resolver!MaxBRFor, MaxBRFor,
              Resolver!PROFILE_AVC_HIGH_422, Resolver!PROFILE_AVC_HIGH_10,
              Resolver!PROFILE_AVC_HIGH, PROFILE_AVC_HIGH_422, PROFILE_AVC_HIGH_10,
              PROFILE_AVC_HIGH
<1>4. QED
  BY <1>1, <1>2, <1>3

\* The values after the profile default of lines 79-91.
Fixed(n) == [n EXCEPT !.profile = Resolver!ResolvedProfile(n)]

\* The level the loop starts from.
Held(n) == Resolver!HeldLevel(lowestConfigLevel, n)

\* needsUpdate once the loop has passed the rows below kk.
UpdateSoFar(n, kk) ==
  \/ Held(n) \notin AllowedLevels
  \/ \E j \in Rows : j < kk /\ j \in AllowedLevels /\ Held(n) <= j

\* Instance i's running call works on proposal n.
Tracks(i, n) ==
  /\ req[i] = n.level
  /\ pc[i] = "enter" => pending[i] = n
  /\ pc[i] \in {"assign", "scan"} => Resolver!ProfileUsable(n)
  /\ pc[i] = "assign" =>
       /\ pending[i] = Fixed(n)
       /\ lowestConfigLevel # LEVEL_UNUSED /\ lowestConfigLevel < n.level
  /\ pc[i] = "scan" =>
       /\ pending[i] = [Fixed(n) EXCEPT !.level = Held(n)]
       /\ needsUpdate[i] <=> UpdateSoFar(n, k[i])

-----------------------------------------------------------------------------
(* Facts about the values the setter works on.                             *)

\* Every proposal is a configuration with a level of the table.
LEMMA ProposalTyped ==
  ASSUME NEW n \in Proposals
  PROVE  n \in Config /\ n.level \in Rows
<1>1. PICK s \in Sizes, f \in {x \in FrameRates : x > 0}, b \in Bitrates,
           p \in ReqProfiles \cup SupportedProfiles, l \in ReqLevels \cup Rows :
        n = Proposed(s, f, b, p, l)
  BY DEF Proposals
<1>2. p \in Int /\ l \in Rows /\ f \in FrameRates
  BY ConstAssumption DEF AvcProfiles, PROFILE_AVC_BASELINE,
                         PROFILE_AVC_ENHANCED_MULTIVIEW_DEPTH_HIGH
<1>3. n \in Config
  BY <1>1, <1>2, ProposedType DEF Rows
<1>4. n.level = l
  BY <1>1 DEF Proposed
<1>5. QED
  BY <1>2, <1>3, <1>4

\* The profile default changes the profile only, to a valid one.
LEMMA FixedFields ==
  ASSUME NEW n \in Config
  PROVE  /\ Fixed(n) = WithProfile(n, Resolver!ResolvedProfile(n))
         /\ Fixed(n) \in Config
         /\ Fixed(n).profile = Resolver!ResolvedProfile(n)
         /\ Fixed(n).level = n.level
         /\ Fixed(n).width = n.width /\ Fixed(n).height = n.height
         /\ Fixed(n).frameRate = n.frameRate /\ Fixed(n).bitrate = n.bitrate
<1>1. Resolver!ResolvedProfile(n) \in Int
  BY Bridge DEF Resolver!ResolvedProfile, Config, PROFILE_AVC_BASELINE
<1>2. Fixed(n) = WithProfile(n, Resolver!ResolvedProfile(n))
  BY DEF Fixed, WithProfile
<1>3. QED
  BY <1>1, <1>2, SetProfile

\* Enter's profile check is the resolver's: it fails exactly when the
\* profile is unusable, and otherwise yields the resolved profile.
LEMMA EnterFixes ==
  ASSUME NEW n \in Config
  PROVE  /\ (IF NeedsDefaultProfile(n.profile)
             THEN WithProfile(n, PROFILE_AVC_BASELINE) ELSE n) = Fixed(n)
         /\ Resolver!ProfileUsable(n) <=>
              ~NeedsDefaultProfile(n.profile) \/ PROFILE_AVC_BASELINE \in SupportedProfiles
<1>1. CASE NeedsDefaultProfile(n.profile)
  <2>1. Resolver!ResolvedProfile(n) = PROFILE_AVC_BASELINE
    BY <1>1, Bridge DEF Resolver!ResolvedProfile, NeedsDefaultProfile, Config,
                        PROFILE_AVC_BASELINE
  <2>2. Fixed(n) = WithProfile(n, PROFILE_AVC_BASELINE)
    BY <2>1, FixedFields
  <2>3. Resolver!ProfileUsable(n) <=> PROFILE_AVC_BASELINE \in SupportedProfiles
    BY <1>1, Bridge DEF Resolver!ProfileUsable, NeedsDefaultProfile, Config,
                        PROFILE_AVC_BASELINE
  <2>4. QED
    BY <1>1, <2>2, <2>3
<1>2. CASE ~NeedsDefaultProfile(n.profile)
  <2>1. Resolver!ResolvedProfile(n) = n.profile
    BY <1>2, Bridge DEF Resolver!ResolvedProfile, NeedsDefaultProfile, Config,
                        PROFILE_AVC_BASELINE
  <2>2. [n EXCEPT !.profile = n.profile] = n
    BY DEF Config
  <2>3. Resolver!ProfileUsable(n)
    BY <1>2, Bridge DEF Resolver!ProfileUsable, NeedsDefaultProfile, Config,
                        PROFILE_AVC_BASELINE
  <2>4. QED
    BY <1>2, <2>1, <2>2, <2>3 DEF Fixed
<1>3. QED
  BY <1>1, <1>2

\* Setting the level twice keeps the second.
LEMMA LevelTwice ==
  ASSUME NEW c \in Config, NEW a, NEW b
  PROVE  WithLevel(WithLevel(c, a), b) = WithLevel(c, b)
  BY DEF WithLevel, Config

\* The resolver's fitting rows are the allowed rows the values with their
\* profile resolved fit.
LEMMA FitRowsAre ==
  ASSUME NEW n
  PROVE  Resolver!FitRows(n) = {r \in Rows : r \in AllowedLevels /\ Feasible(r, Fixed(n))}
  BY Bridge, LevelOfRow DEF Resolver!FitRows, Fixed

\* A row that is allowed and fits, with no allowed fitting row before it,
\* is where the resolver's loop stops.
LEMMA FirstFitAt ==
  ASSUME NEW n, NEW kk \in Rows, kk \in AllowedLevels, Feasible(kk, Fixed(n)),
         \A r \in Rows : r < kk /\ r \in AllowedLevels => ~Feasible(r, Fixed(n))
  PROVE  kk \in Resolver!FitRows(n) /\ Resolver!FirstFit(n) = kk
<1> DEFINE F == Resolver!FitRows(n)
<1>1. kk \in F /\ \A s \in F : kk <= s
  BY FitRowsAre DEF Rows
<1>2. \A r \in F : (\A s \in F : r <= s) => r = kk
  BY <1>1, FitRowsAre DEF Rows
<1>3. Resolver!FirstFit(n) = CHOOSE r \in F : \A s \in F : r <= s
  BY DEF Resolver!FirstFit
<1>4. QED
  BY <1>1, <1>2, <1>3

\* At the row where the loop stops, the resolver's needsUpdate is the one
\* the loop has accumulated.
LEMMA NeedsUpdateAt ==
  ASSUME NEW n, NEW kk, Resolver!FirstFit(n) = kk
  PROVE  Resolver!NeedsUpdate(lowestConfigLevel, n) <=> UpdateSoFar(n, kk)
  BY Bridge, LevelOfRow DEF Resolver!NeedsUpdate, UpdateSoFar, Held


\* The hit commits the resolution of the proposal behind the call, and
\* records the static the resolver records.
LEMMA HitResolves ==
  ASSUME TypeOK, NEW i \in Inst, NEW n \in Proposals, Tracks(i, n), ScanInv(i),
         pc[i] = "scan", k[i] \in AllowedLevels, Feasible(k[i], pending[i])
  PROVE  /\ Resolver!Resolves(n)
         /\ (IF needsUpdate[i] THEN WithLevel(pending[i], kLimits[k[i]].level)
             ELSE pending[i]) = Resolver!Resolved(lowestConfigLevel, n)
         /\ (IF needsUpdate[i] THEN pending[i].level ELSE lowestConfigLevel)
              = Resolver!ResolvedMemory(lowestConfigLevel, n)
<1> USE LevelRanges
<1>1. n \in Config /\ n.level \in Rows
  BY ProposalTyped
<1>2. Held(n) \in 0 .. NumLimits
  BY <1>1, Bridge DEF Held, Resolver!HeldLevel, TypeOK, Rows
<1>3. /\ pending[i] = WithLevel(Fixed(n), Held(n))
      /\ needsUpdate[i] <=> UpdateSoFar(n, k[i])
      /\ Resolver!ProfileUsable(n)
  BY DEF Tracks, WithLevel
<1>4. Fixed(n) \in Config
  BY <1>1, FixedFields
<1>5. pending[i].level = Held(n)
  BY <1>2, <1>3, <1>4, SetLevel
<1>6. \A r \in Rows : Feasible(r, pending[i]) <=> Feasible(r, Fixed(n))
  BY <1>2, <1>3, <1>4, FeasibleWithLevel
<1>7. k[i] \in Resolver!FitRows(n) /\ Resolver!FirstFit(n) = k[i]
  <2>1. \A r \in Rows : r < k[i] /\ r \in AllowedLevels => ~Feasible(r, pending[i])
    BY DEF ScanInv
  <2>2. QED
    BY <2>1, <1>6, FirstFitAt
<1>8. Resolver!Resolves(n)
  BY <1>3, <1>7 DEF Resolver!Resolves
<1>9. Resolver!NeedsUpdate(lowestConfigLevel, n) <=> needsUpdate[i]
  BY <1>3, <1>7, NeedsUpdateAt
<1>10. kLimits[k[i]].level = k[i] /\ Resolver!kLimits = kLimits
  BY LevelOfRow, Bridge
<1>11. Resolver!Resolved(lowestConfigLevel, n) =
         WithLevel(Fixed(n), IF needsUpdate[i] THEN k[i] ELSE Held(n))
  BY <1>7, <1>9, <1>10 DEF Resolver!Resolved, WithLevel, Fixed, Held
<1>12. (IF needsUpdate[i] THEN WithLevel(pending[i], kLimits[k[i]].level)
        ELSE pending[i]) = WithLevel(Fixed(n), IF needsUpdate[i] THEN k[i] ELSE Held(n))
  BY <1>3, <1>4, <1>10, LevelTwice
<1>13. Resolver!ResolvedMemory(lowestConfigLevel, n) =
         IF needsUpdate[i] THEN Held(n) ELSE lowestConfigLevel
  BY <1>9 DEF Resolver!ResolvedMemory, Held
<1>14. QED
  BY <1>5, <1>8, <1>11, <1>12, <1>13

\* Instance i's part of RespectsFeasibleRequest, and the proposal behind
\* its running call.
Respects(i) ==
  (/\ pc[i] = "idle" /\ result[i] = "ok"
   /\ req[i] \in AllowedLevels /\ Feasible(req[i], cfg[i]))
  => cfg[i].level <= req[i]

Tracked(i) == pc[i] # "idle" => \E n \in Proposals : Tracks(i, n)

RInv ==
  /\ IInv
  /\ RespectsFeasibleRequest
  /\ \A i \in Inst : Tracked(i)

\* A level written back into a configuration that already holds it.
LEMMA LevelSame ==
  ASSUME NEW c \in Config
  PROVE  WithLevel(c, c.level) = c
  BY DEF WithLevel, Config

\* The loop's needsUpdate before any row is the held level's allowedness.
LEMMA UpdateAtStart ==
  ASSUME NEW n
  PROVE  UpdateSoFar(n, 1) <=> Held(n) \notin AllowedLevels
  BY DEF UpdateSoFar, Rows

\* RInv holds initially: no call is running, and the default level is
\* what every instance last asked for.
LEMMA RInvInit == Init => RInv
<1> SUFFICES ASSUME Init PROVE RInv
  OBVIOUS
<1>1. IInv
  BY IInvInit
<1>2. \A i \in Inst : cfg[i].level <= req[i]
  BY DEF Init, DefaultConfig, LEVEL_AVC_4_1
<1>3. QED
  BY <1>1, <1>2 DEF RInv, RespectsFeasibleRequest, Tracked, Init

\* With one instance, every step keeps RInv: nothing but the running
\* call's own steps touch the static it read.
LEMMA RInvStep ==
  ASSUME NEW i, Inst = {i}, RInv, [Next]_vars
  PROVE  RInv'
<1> USE LevelRanges
<1>0. IInv' /\ TypeOK /\ TypeOK' /\ IInv /\ Respects(i) /\ Tracked(i)
  BY IInvStep, TypeStep DEF RInv, IInv, RespectsFeasibleRequest, Respects
<1> SUFFICES Respects(i)' /\ Tracked(i)'
  BY <1>0 DEF RInv, RespectsFeasibleRequest, Respects
<1> DEFINE Ends == pc'[i] = "idle" /\ result'[i] = "bad"
<1>1. Ends => Respects(i)' /\ Tracked(i)'
  BY DEF Respects, Tracked
<1>2. CASE ConfigRejected(i)
  BY <1>0, <1>1, <1>2 DEF ConfigRejected, TypeOK
<1>3. CASE ConfigUnchanged(i)
  <2>1. pc'[i] = "idle" /\ req'[i] = cfg[i].level /\ cfg' = cfg
    BY <1>0, <1>3 DEF ConfigUnchanged, TypeOK
  <2>2. cfg[i].level \in Int
    BY <1>0 DEF TypeOK, Config
  <2>3. QED
    BY <2>1, <2>2 DEF Respects, Tracked
<1>4. CASE ConfigStart(i)
  <2>1. PICK setsPL \in BOOLEAN, s \in Sizes, f \in FrameRates, b \in Bitrates,
             p \in ReqProfiles, l \in ReqLevels :
          /\ f > 0
          /\ setsPL \/ DepsChanged(cfg[i], RequestOf(i, setsPL, s, f, b, p, l))
          /\ pending' = [pending EXCEPT ![i] = RequestOf(i, setsPL, s, f, b, p, l)]
          /\ req' = [req EXCEPT ![i] = RequestOf(i, setsPL, s, f, b, p, l).level]
    BY <1>4 DEF ConfigStart
  <2> DEFINE rq == RequestOf(i, setsPL, s, f, b, p, l)
  <2>2. rq \in Proposals
    <3>1. CASE setsPL
      BY <2>1, <3>1 DEF rq, RequestOf, Proposals
    <3>2. CASE ~setsPL
      <4>1. cfg[i].profile \in SupportedProfiles /\ cfg[i].level \in Rows
        BY <1>0 DEF IInv, StoredConfigValid
      <4>2. QED
        BY <2>1, <3>2, <4>1 DEF rq, RequestOf, Proposals
    <3>3. QED
      BY <3>1, <3>2
  <2>3. pc'[i] = "enter" /\ pending'[i] = rq /\ req'[i] = rq.level
    BY <1>0, <1>4, <2>1 DEF ConfigStart, TypeOK, rq
  <2>4. PICK n \in Proposals : pc'[i] = "enter" /\ pending'[i] = n /\ req'[i] = n.level
    BY <2>2, <2>3
  <2>5. Tracks(i, n)'
    BY <2>4 DEF Tracks
  <2>6. QED
    BY <2>4, <2>5 DEF Respects, Tracked
<1>5. CASE EnterBadProfile(i)
  BY <1>0, <1>1, <1>5 DEF EnterBadProfile, Fail, Return, TypeOK
<1>6. CASE Enter(i)
  <2>1. PICK n \in Proposals : Tracks(i, n)
    BY <1>0, <1>6 DEF Enter, Tracked
  <2>2. n \in Config /\ n.level \in Rows /\ pending[i] = n /\ req[i] = n.level
    BY <1>6, <2>1, ProposalTyped DEF Enter, Tracks
  <2>3. /\ Resolver!ProfileUsable(n)
        /\ pending'[i] = Fixed(n)
        /\ UNCHANGED <<lowestConfigLevel, req>>
    BY <1>0, <1>6, <2>2, EnterFixes DEF Enter, TypeOK
  <2>4. Held(n)' = Held(n) /\ Fixed(n) \in Config /\ Fixed(n).level = n.level
    BY <2>2, <2>3, FixedFields DEF Held
  <2>5. CASE lowestConfigLevel # LEVEL_UNUSED /\ lowestConfigLevel < n.level
    <3>1. pc'[i] = "assign"
      BY <1>0, <1>6, <2>2, <2>5 DEF Enter, TypeOK
    <3>2. Tracks(i, n)'
      BY <2>2, <2>3, <3>1, <2>5 DEF Tracks
    <3>3. QED
      BY <3>1, <3>2 DEF Respects, Tracked
  <2>6. CASE ~(lowestConfigLevel # LEVEL_UNUSED /\ lowestConfigLevel < n.level)
    <3>1. /\ pc'[i] = "scan" /\ k'[i] = 1
          /\ needsUpdate'[i] <=> (n.level \notin AllowedLevels)
      BY <1>0, <1>6, <2>2, <2>6 DEF Enter, StartScan, TypeOK
    <3>2. Held(n) = n.level
      BY <2>6, Bridge DEF Held, Resolver!HeldLevel
    <3>3. pending'[i] = WithLevel(Fixed(n), Held(n))
      BY <2>3, <2>4, <3>2, LevelSame
    <3>4. needsUpdate'[i] <=> UpdateSoFar(n, k'[i])
      BY <3>1, <3>2, UpdateAtStart
    <3>5. UpdateSoFar(n, k[i])' <=> UpdateSoFar(n, k'[i])
      BY <2>4 DEF UpdateSoFar
    <3>6. Tracks(i, n)'
      BY <2>2, <2>3, <2>4, <3>1, <3>3, <3>4, <3>5 DEF Tracks, WithLevel
    <3>7. QED
      BY <3>1, <3>6 DEF Respects, Tracked
  <2>7. QED
    BY <2>5, <2>6
<1>7. CASE Assign(i)
  <2>1. PICK n \in Proposals : Tracks(i, n)
    BY <1>0, <1>7 DEF Assign, Tracked
  <2>2. /\ pending[i] = Fixed(n) /\ Resolver!ProfileUsable(n) /\ req[i] = n.level
        /\ lowestConfigLevel # LEVEL_UNUSED /\ lowestConfigLevel < n.level
    BY <1>7, <2>1 DEF Assign, Tracks
  <2>3. /\ pending'[i] = WithLevel(Fixed(n), lowestConfigLevel)
        /\ pc'[i] = "scan" /\ k'[i] = 1
        /\ needsUpdate'[i] <=> (lowestConfigLevel \notin AllowedLevels)
        /\ UNCHANGED <<lowestConfigLevel, req>>
    BY <1>0, <1>7, <2>2 DEF Assign, StartScan, TypeOK
  <2>4. Held(n) = lowestConfigLevel /\ Held(n)' = Held(n)
    BY <2>2, <2>3, Bridge DEF Held, Resolver!HeldLevel
  <2>5. /\ needsUpdate'[i] <=> UpdateSoFar(n, k'[i])
        /\ UpdateSoFar(n, k[i])' <=> UpdateSoFar(n, k'[i])
    BY <2>3, <2>4, UpdateAtStart DEF UpdateSoFar
  <2>6. Tracks(i, n)'
    BY <2>2, <2>3, <2>4, <2>5 DEF Tracks, WithLevel
  <2>7. QED
    BY <2>3, <2>6 DEF Respects, Tracked
<1>8. CASE ScanSkip(i) \/ ScanMiss(i)
  <2>1. PICK n \in Proposals : Tracks(i, n)
    BY <1>0, <1>8 DEF ScanSkip, ScanMiss, Tracked
  <2>2. /\ pc[i] = "scan" /\ k[i] \in Rows
        /\ UNCHANGED <<pc, pending, lowestConfigLevel, req>>
        /\ k'[i] = k[i] + 1
    BY <1>0, <1>8 DEF ScanSkip, ScanMiss, TypeOK, Rows
  <2>3. /\ pending[i] = WithLevel(Fixed(n), Held(n))
        /\ needsUpdate[i] <=> UpdateSoFar(n, k[i])
    BY <2>1, <2>2 DEF Tracks, WithLevel
  <2>4. /\ n \in Config /\ n.level \in Rows
        /\ Fixed(n) \in Config
        /\ Held(n) \in 0 .. NumLimits
        /\ Held(n)' = Held(n)
    <3>1. n \in Config /\ n.level \in Rows
      BY ProposalTyped
    <3>2. Held(n) \in 0 .. NumLimits
      BY <1>0, <3>1, Bridge DEF Held, Resolver!HeldLevel, TypeOK, Rows
    <3>3. QED
      BY <2>2, <3>1, <3>2, FixedFields DEF Held
  <2>8. UpdateSoFar(n, k[i])' <=> UpdateSoFar(n, k'[i])
    BY <2>4 DEF UpdateSoFar
  <2>5. needsUpdate'[i] <=> UpdateSoFar(n, k'[i])
    <3>1. CASE ScanSkip(i)
      <4>1. k[i] \notin AllowedLevels /\ needsUpdate'[i] = needsUpdate[i]
        BY <3>1, <2>2, LevelOfRow DEF ScanSkip
      <4>2. QED
        BY <2>2, <2>3, <4>1 DEF UpdateSoFar, Rows
    <3>2. CASE ScanMiss(i)
      <4>1. pending[i].level = Held(n)
        BY <2>3, <2>4, SetLevel
      <4>2. /\ k[i] \in AllowedLevels
            /\ needsUpdate'[i] <=> (needsUpdate[i] \/ Held(n) <= k[i])
        BY <1>0, <3>2, <2>2, <4>1, LevelOfRow DEF ScanMiss, TypeOK
      <4>3. QED
        BY <2>2, <2>3, <2>4, <4>2 DEF UpdateSoFar, Rows
    <3>3. QED
      BY <1>8, <3>1, <3>2
  <2>6. Tracks(i, n)'
    BY <2>1, <2>2, <2>4, <2>5, <2>8 DEF Tracks
  <2>7. QED
    BY <2>2, <2>6 DEF Respects, Tracked
<1>9. CASE ScanHit(i)
  <2>1. PICK n \in Proposals : Tracks(i, n)
    BY <1>0, <1>9 DEF ScanHit, Tracked
  <2>2. /\ pc[i] = "scan" /\ k[i] \in Rows /\ k[i] \in AllowedLevels
        /\ Feasible(k[i], pending[i])
        /\ pc'[i] = "idle" /\ result'[i] = "ok" /\ req' = req
        /\ cfg'[i] = IF needsUpdate[i] THEN WithLevel(pending[i], k[i]) ELSE pending[i]
    BY <1>0, <1>9, LevelOfRow DEF ScanHit, Return, TypeOK, Rows
  <2>3. ScanInv(i)
    BY <1>0, <2>2 DEF IInv, ScanInvs
  <2>4. /\ pending[i] = WithLevel(Fixed(n), Held(n))
        /\ req[i] = n.level
    BY <2>1, <2>2 DEF Tracks, WithLevel
  <2>5. /\ n \in Config /\ n.level \in Rows
        /\ Fixed(n) \in Config /\ Fixed(n).level = n.level
        /\ Held(n) \in 0 .. NumLimits /\ Held(n) <= n.level
    <3>1. n \in Config /\ n.level \in Rows
      BY ProposalTyped
    <3>2. Fixed(n) \in Config /\ Fixed(n).level = n.level
      BY <3>1, FixedFields
    <3>3. Held(n) \in 0 .. NumLimits /\ Held(n) <= n.level
      BY <1>0, <3>1, Bridge DEF Held, Resolver!HeldLevel, TypeOK, Rows
    <3>4. QED
      BY <3>1, <3>2, <3>3
  <2>6. /\ cfg'[i] = WithLevel(Fixed(n), IF needsUpdate[i] THEN k[i] ELSE Held(n))
        /\ cfg'[i].level = IF needsUpdate[i] THEN k[i] ELSE Held(n)
        /\ \A r \in Rows : Feasible(r, cfg'[i]) <=> Feasible(r, Fixed(n))
        /\ \A r \in Rows : Feasible(r, pending[i]) <=> Feasible(r, Fixed(n))
    <3>1. k[i] \in 0 .. NumLimits
      BY <2>2, LevelRanges
    <3>2. cfg'[i] = WithLevel(Fixed(n), IF needsUpdate[i] THEN k[i] ELSE Held(n))
      <4>1. CASE needsUpdate[i]
        BY <2>2, <2>4, <2>5, <3>1, <4>1, LevelTwice, SetLevel
      <4>2. CASE ~needsUpdate[i]
        BY <2>2, <2>4, <4>2
      <4>3. QED
        BY <4>1, <4>2
    <3>3. cfg'[i].level = IF needsUpdate[i] THEN k[i] ELSE Held(n)
      BY <2>5, <3>1, <3>2, SetLevel
    <3>4. \A r \in Rows : Feasible(r, cfg'[i]) <=> Feasible(r, Fixed(n))
      BY <2>5, <3>1, <3>2, FeasibleWithLevel
    <3>5. \A r \in Rows : Feasible(r, pending[i]) <=> Feasible(r, Fixed(n))
      BY <2>4, <2>5, FeasibleWithLevel
    <3>6. QED
      BY <3>2, <3>3, <3>4, <3>5
  <2>7. ASSUME n.level \in AllowedLevels, Feasible(n.level, Fixed(n))
        PROVE  k[i] <= n.level
    BY <2>2, <2>3, <2>5, <2>6, <2>7 DEF ScanInv, Rows
  <2>8. Respects(i)'
    BY <2>2, <2>4, <2>5, <2>6, <2>7 DEF Respects, Rows
  <2>9. QED
    BY <2>2, <2>8 DEF Tracked
<1>10. CASE ScanExhausted(i)
  BY <1>0, <1>1, <1>10 DEF ScanExhausted, Fail, Return, TypeOK
<1>11. CASE UNCHANGED vars
  BY <1>0, <1>11 DEF vars, Respects, Tracked, Tracks, UpdateSoFar, Held
<1>12. QED
  BY <1>2, <1>3, <1>4, <1>5, <1>6, <1>7, <1>8, <1>9, <1>10, <1>11
  DEF Next, Client, Setter


\* With one instance, every step of the split setter is a step of the
\* atomic resolver or leaves the configuration, the static and the result
\* as they are.
LEMMA RefineStep ==
  ASSUME NEW i, Inst = {i}, RInv, [Next]_vars
  PROVE  [Resolver!Next]_Resolver!vars
<1> USE LevelRanges
<1>0. TypeOK /\ IInv /\ Tracked(i)
  BY DEF RInv, IInv
<1> DEFINE Fails == /\ result' = [result EXCEPT ![i] = "bad"]
                    /\ UNCHANGED <<cfg, lowestConfigLevel>>
<1>1. Fails => Resolver!Next
  BY DEF Resolver!Next, Resolver!CallFailed
<1>2. CASE ConfigRejected(i)
  BY <1>1, <1>2 DEF ConfigRejected
<1>3. CASE ConfigUnchanged(i)
  BY <1>3 DEF ConfigUnchanged, Resolver!Next, Resolver!CallUnchanged
<1>4. CASE ConfigStart(i) \/ Enter(i) \/ Assign(i) \/ ScanSkip(i) \/ ScanMiss(i)
  BY <1>4 DEF ConfigStart, Enter, Assign, ScanSkip, ScanMiss, Resolver!vars
<1>5. CASE EnterBadProfile(i) \/ ScanExhausted(i)
  BY <1>1, <1>5 DEF EnterBadProfile, ScanExhausted, Fail, Return
<1>6. CASE ScanHit(i)
  <2>1. PICK n \in Proposals : Tracks(i, n)
    BY <1>0, <1>6 DEF ScanHit, Tracked
  <2>2. /\ pc[i] = "scan" /\ k[i] \in AllowedLevels
        /\ Feasible(k[i], pending[i])
        /\ ScanInv(i)
    BY <1>0, <1>6, LevelOfRow DEF ScanHit, TypeOK, Rows, IInv, ScanInvs
  <2>3. /\ Resolver!Resolves(n)
        /\ (IF needsUpdate[i] THEN WithLevel(pending[i], kLimits[k[i]].level)
            ELSE pending[i]) = Resolver!Resolved(lowestConfigLevel, n)
        /\ (IF needsUpdate[i] THEN pending[i].level ELSE lowestConfigLevel)
             = Resolver!ResolvedMemory(lowestConfigLevel, n)
    BY <1>0, <2>1, <2>2, HitResolves
  <2>4. /\ cfg' = [cfg EXCEPT ![i] = Resolver!Resolved(lowestConfigLevel, n)]
        /\ lowestConfigLevel' = Resolver!ResolvedMemory(lowestConfigLevel, n)
        /\ result' = [result EXCEPT ![i] = "ok"]
    <3>1. CASE needsUpdate[i]
      BY <1>6, <2>3, <3>1 DEF ScanHit, Return
    <3>2. CASE ~needsUpdate[i]
      BY <1>6, <2>3, <3>2 DEF ScanHit, Return
    <3>3. QED
      BY <3>1, <3>2
  <2>5. Resolver!CallResolved(i)
    BY <2>3, <2>4 DEF Resolver!CallResolved
  <2>6. QED
    BY <2>5 DEF Resolver!Next
<1>7. CASE UNCHANGED vars
  BY <1>7 DEF vars, Resolver!vars
<1>8. QED
  BY <1>2, <1>3, <1>4, <1>5, <1>6, <1>7 DEF Next, Client, Setter

\* A single instance's config calls, with H264ProfileLevelSetter split into
\* its steps, commit exactly what one atomic run of the setter resolves
\* from the proposal and the static (ResolverRefinement, run refine).
THEOREM RefinesResolver ==
  ASSUME NEW i, Inst = {i}
  PROVE  Spec => ResolverRefinement
<1>1. Init => Resolver!Init
  BY Bridge DEF Init, Resolver!Init
<1>2. RInv /\ [Next]_vars => [Resolver!Next]_Resolver!vars
  BY RefineStep
<1>3. RInv /\ [Next]_vars => RInv'
  BY RInvStep
<1>4. QED
  BY <1>1, <1>2, <1>3, RInvInit, PTL DEF Spec, ResolverRefinement, Resolver!Spec

\* With one instance, a completed call that asked for an allowed level the
\* committed values fit never commits a higher level, whatever the static
\* held (H264ProfileLevelSetter's override and loop; run one).
THEOREM FeasibleRequestOneInstance ==
  ASSUME NEW i, Inst = {i}
  PROVE  Spec => []RespectsFeasibleRequest
<1>1. RInv => RespectsFeasibleRequest
  BY DEF RInv
<1>2. QED
  BY <1>1, RInvInit, RInvStep, PTL DEF Spec

\* With one instance, once the setter records a level in the static
\* lowestConfigLevel, a later run only replaces it by a strictly lower one:
\* the override holds the static when it is below the proposal, so the
\* level recorded at a hit is at most the static (run one).
LEMMA LowestStep ==
  ASSUME NEW i, Inst = {i}, RInv, [Next]_vars
  PROVE  lowestConfigLevel # LEVEL_UNUSED /\ lowestConfigLevel' # lowestConfigLevel
           => lowestConfigLevel' < lowestConfigLevel
<1> USE LevelRanges
<1> SUFFICES ASSUME lowestConfigLevel # LEVEL_UNUSED,
                    lowestConfigLevel' # lowestConfigLevel
             PROVE  lowestConfigLevel' < lowestConfigLevel
  OBVIOUS
<1>0. TypeOK /\ Tracked(i)
  BY DEF RInv, IInv
<1>1. ScanHit(i) /\ needsUpdate[i] /\ lowestConfigLevel' = pending[i].level
  BY DEF Next, Client, Setter, vars, ConfigRejected, ConfigUnchanged, ConfigStart,
         EnterBadProfile, Enter, Assign, ScanSkip, ScanMiss, ScanHit, ScanExhausted
<1>2. PICK n \in Proposals : Tracks(i, n)
  BY <1>0, <1>1 DEF ScanHit, Tracked
<1>3. n \in Config /\ n.level \in Rows
  BY ProposalTyped
<1>4. Held(n) \in 0 .. NumLimits
  BY <1>0, <1>3, Bridge DEF Held, Resolver!HeldLevel, TypeOK, Rows
<1>5. pending[i].level = Held(n)
  <2>1. pending[i] = WithLevel(Fixed(n), Held(n))
    BY <1>1, <1>2 DEF ScanHit, Tracks, WithLevel
  <2>2. QED
    BY <1>3, <1>4, <2>1, FixedFields, SetLevel
<1>6. lowestConfigLevel \in 0 .. NumLimits /\ Held(n) # lowestConfigLevel
  BY <1>0, <1>1, <1>5 DEF TypeOK
<1>7. QED
  BY <1>1, <1>3, <1>5, <1>6, Bridge DEF Held, Resolver!HeldLevel, Rows

\* With one instance, lowestConfigLevel, once set, never goes up
\* (LowestNonIncreasing, run one).
THEOREM LowestNonIncreasingOneInstance ==
  ASSUME NEW i, Inst = {i}
  PROVE  Spec => LowestNonIncreasing
<1>1. RInv /\ [Next]_vars =>
        [lowestConfigLevel # LEVEL_UNUSED /\ lowestConfigLevel' # lowestConfigLevel
           => lowestConfigLevel' < lowestConfigLevel]_vars
  BY LowestStep
<1>2. QED
  BY <1>1, RInvInit, RInvStep, PTL DEF Spec, LowestNonIncreasing

=============================================================================
