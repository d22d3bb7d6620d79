------------------------ MODULE ConfigResolverProofs ------------------------
(***************************************************************************)
(* Proofs about ConfigResolver, for every set of supported profiles and   *)
(* proposals and every number of instances.                                *)
(***************************************************************************)
EXTENDS ConfigResolver, H264LevelsProofs, TLAPS

\* The static stays a level of the table or LEVEL_UNUSED.
LEMMA TypeInit == Init => TypeOK
  BY DEF Init, TypeOK, LEVEL_UNUSED, NumLimits

LEMMA TypeStep == TypeOK /\ [Next]_vars => TypeOK'
<1> SUFFICES ASSUME TypeOK, [Next]_vars PROVE TypeOK'
  OBVIOUS
<1>1. ASSUME NEW i \in Inst, CallResolved(i) PROVE TypeOK'
  <2>1. PICK n \in Requests :
          lowestConfigLevel' = ResolvedMemory(lowestConfigLevel, n)
    BY <1>1 DEF CallResolved
  <2>2. n.level \in 0 .. NumLimits
    BY ResolverAssumption DEF Rows
  <2>3. HeldLevel(lowestConfigLevel, n) \in 0 .. NumLimits
    BY <2>2 DEF HeldLevel, TypeOK
  <2>4. QED
    BY <2>1, <2>3 DEF ResolvedMemory, TypeOK
<1>2. QED
  BY <1>1 DEF Next, CallUnchanged, CallFailed, vars, TypeOK

THEOREM TypeCorrect == Spec => []TypeOK
  BY TypeInit, TypeStep, PTL DEF Spec

\* The first fitting row exists whenever some row fits, and is the least.
LEMMA FirstFitIsLeast ==
  ASSUME NEW n, FitRows(n) # {}
  PROVE  /\ FirstFit(n) \in FitRows(n)
         /\ \A s \in FitRows(n) : FirstFit(n) <= s
<1>1. FitRows(n) \in SUBSET (1 .. 22)
  BY DEF FitRows, Rows, NumLimits
<1>2. \E r \in FitRows(n) : \A s \in FitRows(n) : r <= s
  BY <1>1, MinExists
<1>3. QED
  BY <1>2, Zenon DEF FirstFit

\* One run of the setter on a proposal whose level is allowed and fits
\* never resolves above that level, whatever the static holds.
LEMMA RespectsFeasible ==
  ASSUME NEW mem \in 0 .. NumLimits, NEW n \in Requests,
         ProfileUsable(n), n.level \in AllowedLevels,
         Feasible(n.level, [n EXCEPT !.profile = ResolvedProfile(n)])
  PROVE  /\ Resolves(n)
         /\ Resolved(mem, n).level <= n.level
<1>1. n.level \in Rows /\ kLimits[n.level].level = n.level
  BY LevelOfRow DEF AllowedLevels, Rows, NumLimits, LEVEL_AVC_1, LEVEL_AVC_5_1
<1>2. n.level \in FitRows(n)
  BY <1>1 DEF FitRows
<1>3. Resolves(n)
  BY <1>2 DEF Resolves
<1>4. /\ FirstFit(n) \in Rows
      /\ FirstFit(n) <= n.level
  BY <1>2, FirstFitIsLeast DEF FitRows
<1>5. kLimits[FirstFit(n)].level = FirstFit(n)
  BY <1>4, LevelOfRow
<1>6. HeldLevel(mem, n) <= n.level
  BY <1>1 DEF HeldLevel, Rows
<1>7. Resolved(mem, n).level =
        IF NeedsUpdate(mem, n) THEN kLimits[FirstFit(n)].level
        ELSE HeldLevel(mem, n)
  BY ResolverAssumption DEF Resolved
<1>8. QED
  BY <1>3, <1>4, <1>5, <1>6, <1>7

\* Whatever the static holds and however many instances share it, a
\* resolution never lands above a proposed level that is allowed and
\* fits.
THEOREM RespectsFeasibleRequest == Spec => []ResolveRespectsFeasibleRequest
<1>1. TypeOK => ResolveRespectsFeasibleRequest
  BY RespectsFeasible DEF TypeOK, ResolveRespectsFeasibleRequest
<1>2. QED
  BY <1>1, TypeCorrect, PTL

-----------------------------------------------------------------------------
(* The convergence cache.                                                  *)

\* The fields of a proposal the setter reads.
Cfgs == [width : Nat, height : Nat, frameRate : Int, bitrate : Nat,
         profile : Int, level : 0 .. NumLimits]

\* Feasibility reads every field but the level.
LEMMA FeasibleIgnoresLevel ==
  ASSUME NEW r, NEW x, NEW y,
         x.width = y.width, x.height = y.height, x.frameRate = y.frameRate,
         x.bitrate = y.bitrate, x.profile = y.profile
  PROVE  Feasible(r, x) <=> Feasible(r, y)
  BY DEF Feasible, TargetFS, TargetMBPS

\* The profile after the default is supported and valid.
LEMMA ProfileResolved ==
  ASSUME NEW n, ProfileUsable(n)
  PROVE  /\ ResolvedProfile(n) \in SupportedProfiles
         /\ ResolvedProfile(n) >= PROFILE_AVC_BASELINE
  BY DEF ProfileUsable, ResolvedProfile, PROFILE_AVC_BASELINE

\* The fields of a resolved configuration.
LEMMA ResolvedFields ==
  ASSUME NEW mem, NEW n \in Cfgs, Resolved(mem, n).level \in 0 .. NumLimits
  PROVE  /\ Resolved(mem, n) \in Cfgs
         /\ Resolved(mem, n) = [n EXCEPT !.profile = ResolvedProfile(n),
                                         !.level = Resolved(mem, n).level]
         /\ Resolved(mem, n).width = n.width /\ Resolved(mem, n).height = n.height
         /\ Resolved(mem, n).frameRate = n.frameRate
         /\ Resolved(mem, n).bitrate = n.bitrate
         /\ Resolved(mem, n).profile = ResolvedProfile(n)
<1>1. ResolvedProfile(n) \in Int
  BY ResolverAssumption DEF ResolvedProfile, Cfgs, PROFILE_AVC_BASELINE
<1>2. Resolved(mem, n) = [n EXCEPT !.profile = ResolvedProfile(n),
                                  !.level = Resolved(mem, n).level]
  BY DEF Resolved
<1>3. QED
  BY <1>1, <1>2 DEF Cfgs

\* Two proposals that agree on every field but the level, and resolve to
\* the same profile, fit the same rows.
LEMMA FitRowsIgnoreLevel ==
  ASSUME NEW x, NEW y,
         x.width = y.width, x.height = y.height, x.frameRate = y.frameRate,
         x.bitrate = y.bitrate, ResolvedProfile(x) = ResolvedProfile(y),
         NEW xf, xf = [x EXCEPT !.profile = ResolvedProfile(x)],
         NEW yf, yf = [y EXCEPT !.profile = ResolvedProfile(y)],
         xf.width = x.width, xf.height = x.height, xf.frameRate = x.frameRate,
         xf.bitrate = x.bitrate, xf.profile = ResolvedProfile(x),
         yf.width = y.width, yf.height = y.height, yf.frameRate = y.frameRate,
         yf.bitrate = y.bitrate, yf.profile = ResolvedProfile(y)
  PROVE  FitRows(x) = FitRows(y)
<1>1. /\ xf.width = yf.width /\ xf.height = yf.height
      /\ xf.frameRate = yf.frameRate /\ xf.bitrate = yf.bitrate
      /\ xf.profile = yf.profile
  OBVIOUS
<1>2. ASSUME NEW r \in Rows PROVE Feasible(r, xf) <=> Feasible(r, yf)
  BY <1>1, FeasibleIgnoresLevel
<1>3. QED
  BY <1>2 DEF FitRows

\* needsUpdate at the first fitting row: the held level is not allowed,
\* or it lies below that row.
LEMMA NeedsUpdateIff ==
  ASSUME NEW mem, NEW n, FitRows(n) # {}, HeldLevel(mem, n) \in 0 .. NumLimits
  PROVE  NeedsUpdate(mem, n) <=>
           \/ HeldLevel(mem, n) \notin AllowedLevels
           \/ HeldLevel(mem, n) < FirstFit(n)
<1> DEFINE h == HeldLevel(mem, n)
           F == FirstFit(n)
<1>1. F \in Rows
  BY FirstFitIsLeast DEF FitRows
<1>2. ASSUME h \in AllowedLevels, h < F
      PROVE  \E j \in Rows : j < F /\ kLimits[j].level \in AllowedLevels
                                   /\ h <= kLimits[j].level
  <2>1. h \in Rows /\ kLimits[h].level = h
    BY <1>2, LevelOfRow DEF AllowedLevels, Rows, NumLimits, LEVEL_AVC_1, LEVEL_AVC_5_1
  <2>2. QED
    BY <1>2, <2>1
<1>3. ASSUME NEW j \in Rows, j < F, h <= kLimits[j].level
      PROVE  h < F
  BY <1>1, <1>3, LevelOfRow DEF Rows, NumLimits
<1>4. NeedsUpdate(mem, n) <=>
        \/ h \notin AllowedLevels
        \/ \E j \in Rows : j < F /\ kLimits[j].level \in AllowedLevels
                                /\ h <= kLimits[j].level
  BY DEF NeedsUpdate, h, F
<1>5. QED
  BY <1>2, <1>3, <1>4

\* Replacing the profile of a configuration keeps its other fields.
LEMMA SetProfileFields ==
  ASSUME NEW z \in Cfgs, NEW p
  PROVE  LET zf == [z EXCEPT !.profile = p]
         IN  /\ zf.width = z.width /\ zf.height = z.height
             /\ zf.frameRate = z.frameRate /\ zf.bitrate = z.bitrate
             /\ zf.profile = p
  BY DEF Cfgs

\* A configuration equals itself with its own profile and level written
\* back.
LEMMA RewriteSame ==
  ASSUME NEW z \in Cfgs
  PROVE  [z EXCEPT !.profile = z.profile, !.level = z.level] = z
  BY DEF Cfgs

\* The setter's result, proposed again with the static it left, resolves
\* to itself and leaves the static alone: one run reaches the fixed point.
LEMMA ResolveIdempotent ==
  ASSUME NEW mem \in 0 .. NumLimits, NEW n \in Requests, Resolves(n)
  PROVE  /\ Resolves(Resolved(mem, n))
         /\ Resolved(ResolvedMemory(mem, n), Resolved(mem, n)) = Resolved(mem, n)
         /\ ResolvedMemory(ResolvedMemory(mem, n), Resolved(mem, n))
              = ResolvedMemory(mem, n)
<1> DEFINE h == HeldLevel(mem, n)
           F == FirstFit(n)
           u == NeedsUpdate(mem, n)
           c == Resolved(mem, n)
           m2 == ResolvedMemory(mem, n)
           h2 == HeldLevel(m2, c)
<1>1. n \in Cfgs
  BY ResolverAssumption DEF Cfgs, Rows
<1>2. h \in 1 .. NumLimits
  <2>1. n.level \in Rows
    BY ResolverAssumption
  <2>2. QED
    BY <2>1 DEF h, HeldLevel, LEVEL_UNUSED, Rows, NumLimits
<1>3. /\ F \in FitRows(n) /\ F \in Rows /\ F \in AllowedLevels
      /\ kLimits[F].level = F
  <2>1. FitRows(n) # {}
    BY DEF Resolves
  <2>2. F \in FitRows(n)
    BY <2>1, FirstFitIsLeast DEF F
  <2>3. F \in Rows /\ kLimits[F].level \in AllowedLevels
    BY <2>2 DEF FitRows
  <2>4. QED
    BY <2>2, <2>3, LevelOfRow
<1>4. u <=> (h \notin AllowedLevels \/ h < F)
  BY <1>2, <1>3, NeedsUpdateIff DEF u, h, F, NumLimits
<1>5. c.level = IF u THEN F ELSE h
  BY <1>3 DEF c, Resolved, u, F, h
<1>6. /\ c \in Cfgs
      /\ c = [n EXCEPT !.profile = ResolvedProfile(n), !.level = c.level]
      /\ c.width = n.width /\ c.height = n.height
      /\ c.frameRate = n.frameRate /\ c.bitrate = n.bitrate
      /\ c.profile = ResolvedProfile(n)
  <2>1. c.level \in 0 .. NumLimits
    BY <1>2, <1>3, <1>5 DEF Rows, NumLimits
  <2>2. Resolved(mem, n).level \in 0 .. NumLimits
    BY <2>1 DEF c
  <2>3. /\ Resolved(mem, n) \in Cfgs
        /\ Resolved(mem, n) = [n EXCEPT !.profile = ResolvedProfile(n),
                                        !.level = Resolved(mem, n).level]
        /\ Resolved(mem, n).width = n.width /\ Resolved(mem, n).height = n.height
        /\ Resolved(mem, n).frameRate = n.frameRate
        /\ Resolved(mem, n).bitrate = n.bitrate
        /\ Resolved(mem, n).profile = ResolvedProfile(n)
    BY <1>1, <2>2, ResolvedFields
  <2>4. QED
    BY <2>3 DEF c
<1>7. /\ ProfileUsable(c)
      /\ ResolvedProfile(c) = ResolvedProfile(n)
  <2>1. ProfileUsable(n)
    BY DEF Resolves
  <2>2. ResolvedProfile(n) \in SupportedProfiles
        /\ ResolvedProfile(n) >= PROFILE_AVC_BASELINE
    BY <2>1, ProfileResolved
  <2>3. QED
    BY <1>6, <2>2 DEF ProfileUsable, ResolvedProfile
<1>8. FitRows(c) = FitRows(n)
  <2>1. /\ [c EXCEPT !.profile = ResolvedProfile(c)].width = c.width
        /\ [c EXCEPT !.profile = ResolvedProfile(c)].height = c.height
        /\ [c EXCEPT !.profile = ResolvedProfile(c)].frameRate = c.frameRate
        /\ [c EXCEPT !.profile = ResolvedProfile(c)].bitrate = c.bitrate
        /\ [c EXCEPT !.profile = ResolvedProfile(c)].profile = ResolvedProfile(c)
    BY <1>6, SetProfileFields
  <2>2. /\ [n EXCEPT !.profile = ResolvedProfile(n)].width = n.width
        /\ [n EXCEPT !.profile = ResolvedProfile(n)].height = n.height
        /\ [n EXCEPT !.profile = ResolvedProfile(n)].frameRate = n.frameRate
        /\ [n EXCEPT !.profile = ResolvedProfile(n)].bitrate = n.bitrate
        /\ [n EXCEPT !.profile = ResolvedProfile(n)].profile = ResolvedProfile(n)
    BY <1>1, SetProfileFields
  <2>3. QED
    BY <1>6, <1>7, <2>1, <2>2, FitRowsIgnoreLevel
<1>9. FirstFit(c) = F /\ Resolves(c)
  BY <1>3, <1>7, <1>8 DEF FirstFit, F, Resolves
<1>10. /\ (IF NeedsUpdate(m2, c) THEN F ELSE h2) = c.level
       /\ ResolvedMemory(m2, c) = m2
  <2>1. h2 \in 0 .. NumLimits
    BY <1>2, <1>3, <1>5, <1>9 DEF h2, HeldLevel, m2, ResolvedMemory, u, h, Rows, NumLimits
  <2>2. NeedsUpdate(m2, c) <=> (h2 \notin AllowedLevels \/ h2 < F)
    <3>1. FitRows(c) # {}
      BY <1>9 DEF Resolves
    <3>2. QED
      BY <1>9, <2>1, <3>1, NeedsUpdateIff DEF h2
  <2>3. CASE u /\ h \in AllowedLevels
    <3>1. h < F /\ c.level = F /\ m2 = h
      BY <1>4, <1>5, <2>3 DEF m2, ResolvedMemory, u, h
    <3>2. h2 = h
      BY <1>2, <3>1 DEF h2, HeldLevel, LEVEL_UNUSED
    <3>3. QED
      BY <2>2, <2>3, <3>1, <3>2 DEF ResolvedMemory, h2
  <2>4. CASE u /\ h \notin AllowedLevels
    <3>1. h = NumLimits /\ c.level = F /\ m2 = h
      BY <1>2, <1>5, <2>4 DEF m2, ResolvedMemory, u, h, AllowedLevels, NumLimits,
                             LEVEL_AVC_1, LEVEL_AVC_5_1
    <3>2. h2 = F
      BY <1>3, <3>1 DEF h2, HeldLevel, Rows, NumLimits
    <3>3. ~(h2 \notin AllowedLevels \/ h2 < F)
      BY <1>3, <3>2 DEF Rows
    <3>4. QED
      BY <1>4, <2>2, <2>4, <3>1, <3>2, <3>3 DEF ResolvedMemory, h2
  <2>5. CASE ~u
    <3>1. h \in AllowedLevels /\ h >= F /\ c.level = h /\ m2 = mem
      BY <1>2, <1>3, <1>4, <1>5, <2>5 DEF m2, ResolvedMemory, u, Rows
    <3>2. h2 = h
      BY <3>1 DEF h2, h, HeldLevel
    <3>3. QED
      BY <1>4, <2>2, <2>5, <3>1, <3>2 DEF ResolvedMemory, h2, u
  <2>6. QED
    BY <2>3, <2>4, <2>5
<1>11. Resolved(m2, c) = c
  <2>1. Resolved(m2, c).level = c.level
    BY <1>3, <1>9, <1>10 DEF Resolved, h2
  <2>2. Resolved(m2, c) = [c EXCEPT !.profile = c.profile, !.level = c.level]
    BY <1>6, <1>7, <2>1 DEF Resolved
  <2>3. QED
    BY <1>6, <2>2, RewriteSame
<1>12. QED
  BY <1>9, <1>10, <1>11 DEF c, m2

\* The inductive invariant for one instance: the static is typed, cfg is
\* a function on the instances, and the committed configuration is a
\* fixed point.
IInv ==
  /\ TypeOK
  /\ DOMAIN cfg = Inst
  /\ ResolveConverged

\* The convergence cache converges: with one instance whose defaults are
\* a fixed point, every committed configuration, proposed again, resolves
\* to itself and leaves lowestConfigLevel alone.  (With two instances the
\* level one of them records can override the other's resolution.)
THEOREM ConvergedOneInstance ==
  ASSUME NEW i, Inst = {i},
         Resolves(InitialConfig),
         Resolved(LEVEL_UNUSED, InitialConfig) = InitialConfig,
         ResolvedMemory(LEVEL_UNUSED, InitialConfig) = LEVEL_UNUSED
  PROVE  Spec => []ResolveConverged
<1>1. Init => IInv
  BY DEF Init, IInv, TypeOK, ResolveConverged, LEVEL_UNUSED, NumLimits
<1>2. IInv /\ [Next]_vars => IInv'
  <2> SUFFICES ASSUME IInv, [Next]_vars PROVE IInv'
    OBVIOUS
  <2>1. TypeOK'
    BY TypeStep DEF IInv
  <2>2. ASSUME NEW j \in Inst, CallResolved(j) PROVE IInv'
    <3>1. PICK n \in Requests :
            /\ Resolves(n)
            /\ cfg' = [cfg EXCEPT ![j] = Resolved(lowestConfigLevel, n)]
            /\ lowestConfigLevel' = ResolvedMemory(lowestConfigLevel, n)
      BY <2>2 DEF CallResolved
    <3>2. j = i /\ DOMAIN cfg' = Inst /\ cfg'[i] = Resolved(lowestConfigLevel, n)
      BY <3>1 DEF IInv
    <3>3. lowestConfigLevel \in 0 .. NumLimits
      BY DEF IInv, TypeOK
    <3>4. ResolveConverged'
      BY <3>1, <3>2, <3>3, ResolveIdempotent DEF ResolveConverged
    <3>5. QED
      BY <2>1, <3>2, <3>4 DEF IInv
  <2>3. CASE UNCHANGED <<cfg, lowestConfigLevel>>
    BY <2>1, <2>3 DEF IInv, ResolveConverged
  <2>4. QED
    BY <2>2, <2>3 DEF Next, CallUnchanged, CallFailed, vars
<1>3. IInv => ResolveConverged
  BY DEF IInv
<1>4. QED
  BY <1>1, <1>2, <1>3, PTL DEF Spec
=============================================================================
