--------------------------- MODULE ConfigResolver ---------------------------
(***************************************************************************)
(* What a config call of an H264 V4L2EncodeInterface promises, one call   *)
(* per step: the call commits the configuration H264ProfileLevelSetter    *)
(* resolves from the request and lowestConfigLevel, and updates            *)
(* lowestConfigLevel, or it fails and commits nothing.                     *)
(*                                                                         *)
(* Resolved is the closed form of one run of the setter: the profile      *)
(* default (lines 79-91), the override by the static (126-127), and the   *)
(* first allowed row the configuration fits, with the needsUpdate logic of *)
(* the loop (133-183).  EncodeConfig splits the same run into steps; for  *)
(* one instance it implements this specification.                         *)
(***************************************************************************)
EXTENDS H264Levels

CONSTANTS
  Inst,               \* the encoder interface instances of the process
  SupportedProfiles,  \* H264 profiles the device reports
  Requests,           \* the values a config call proposes to the setter
  InitialConfig       \* the parameters' defaults

\* A proposal has the fields of the stored configuration, with a level
\* of the table.
ASSUME ResolverAssumption ==
  /\ Requests \subseteq [width : Nat, height : Nat, frameRate : Int,
                         bitrate : Nat, profile : Int, level : Rows]
  /\ SupportedProfiles \subseteq Int

VARIABLES
  cfg,                \* cfg[i]: the committed parameter values of instance i
  lowestConfigLevel,  \* the setter's static
  result              \* result[i]: the status of instance i's last call

vars == <<cfg, lowestConfigLevel, result>>

-----------------------------------------------------------------------------
(* One run of H264ProfileLevelSetter on a proposal n, with the static at  *)
(* mem.                                                                    *)

\* The profile after lines 79-91: an unsupported or invalid profile is
\* replaced by PROFILE_AVC_BASELINE, which must then be supported.
ProfileUsable(n) ==
  \/ n.profile \in SupportedProfiles /\ n.profile >= PROFILE_AVC_BASELINE
  \/ PROFILE_AVC_BASELINE \in SupportedProfiles

ResolvedProfile(n) ==
  IF n.profile \in SupportedProfiles /\ n.profile >= PROFILE_AVC_BASELINE
  THEN n.profile ELSE PROFILE_AVC_BASELINE

\* Mutant: the override's comparison is reversed.
HeldLevelSwapped(mem, n) ==
  IF mem # LEVEL_UNUSED /\ mem > n.level THEN mem ELSE n.level

\* The level the loop starts from: the static, when it is set and below
\* the proposed level (lines 126-127).
HeldLevel(mem, n) ==
  IF mem # LEVEL_UNUSED /\ mem < n.level THEN mem ELSE n.level

\* The allowed rows the configuration fits, and the first of them, where
\* the loop stops.
FitRows(n) ==
  {r \in Rows : kLimits[r].level \in AllowedLevels
                /\ Feasible(r, [n EXCEPT !.profile = ResolvedProfile(n)])}

FirstFit(n) == LET F == FitRows(n) IN CHOOSE r \in F : \A s \in F : r <= s

\* Mutant: needsUpdate is set by any allowed row the loop passes.
NeedsUpdateAnyPassed(mem, n) ==
  \/ HeldLevel(mem, n) \notin AllowedLevels
  \/ \E j \in Rows : j < FirstFit(n) /\ kLimits[j].level \in AllowedLevels

\* needsUpdate when the loop stops: the held level is not allowed, or an
\* allowed row the loop passed before the first fit was at or above it.
NeedsUpdate(mem, n) ==
  LET held == HeldLevel(mem, n)
      first == FirstFit(n)
  IN  \/ held \notin AllowedLevels
      \/ \E j \in Rows : /\ j < first
                         /\ kLimits[j].level \in AllowedLevels
                         /\ held <= kLimits[j].level

\* The setter returns Ok: the profile is usable and some row fits.
Resolves(n) == ProfileUsable(n) /\ FitRows(n) # {}

\* The committed configuration and the static after the run.
Resolved(mem, n) ==
  [n EXCEPT !.profile = ResolvedProfile(n),
            !.level = IF NeedsUpdate(mem, n) THEN kLimits[FirstFit(n)].level
                      ELSE HeldLevel(mem, n)]

ResolvedMemory(mem, n) ==
  IF NeedsUpdate(mem, n) THEN HeldLevel(mem, n) ELSE mem

-----------------------------------------------------------------------------
(* Config calls, one step each.                                            *)

Init ==
  /\ cfg = [i \in Inst |-> InitialConfig]
  /\ lowestConfigLevel = LEVEL_UNUSED
  /\ result = [i \in Inst |-> "ok"]

\* Nothing the setter depends on changed, so the call succeeds untouched.
CallUnchanged(i) ==
  /\ result' = [result EXCEPT ![i] = "ok"]
  /\ UNCHANGED <<cfg, lowestConfigLevel>>

\* A rejected frame rate, an unusable profile or no fitting row: the call
\* fails and nothing is committed.
CallFailed(i) ==
  /\ result' = [result EXCEPT ![i] = "bad"]
  /\ UNCHANGED <<cfg, lowestConfigLevel>>

\* The setter resolves a proposal and the call commits it.
CallResolved(i) ==
  \E n \in Requests :
    /\ Resolves(n)
    /\ cfg' = [cfg EXCEPT ![i] = Resolved(lowestConfigLevel, n)]
    /\ lowestConfigLevel' = ResolvedMemory(lowestConfigLevel, n)
    /\ result' = [result EXCEPT ![i] = "ok"]

Next == \E i \in Inst : CallUnchanged(i) \/ CallFailed(i) \/ CallResolved(i)

Spec == Init /\ [][Next]_vars

\* The static holds a level of the table, or LEVEL_UNUSED.
TypeOK == lowestConfigLevel \in 0 .. NumLimits

-----------------------------------------------------------------------------
(* Properties.                                                             *)

\* The convergence cache: every committed configuration, proposed again,
\* resolves to itself and leaves lowestConfigLevel as it is, so resolving
\* twice with the same inputs gives the same result.  It takes the
\* override, the needsUpdate logic and the recorded level to agree.
ResolveConverged ==
  \A i \in Inst :
    /\ Resolves(cfg[i])
    /\ Resolved(lowestConfigLevel, cfg[i]) = cfg[i]
    /\ ResolvedMemory(lowestConfigLevel, cfg[i]) = lowestConfigLevel

\* One run of the setter never resolves above a proposed level that is
\* allowed and that the configuration fits, whatever lowestConfigLevel
\* holds: the override only lowers the level and the loop stops at the
\* first fitting row.
ResolveRespectsFeasibleRequest ==
  \A n \in Requests :
    LET fixed == [n EXCEPT !.profile = ResolvedProfile(n)] IN
    /\ ProfileUsable(n) /\ n.level \in AllowedLevels /\ Feasible(n.level, fixed)
    => /\ Resolves(n)
       /\ Resolved(lowestConfigLevel, n).level <= n.level
=============================================================================
