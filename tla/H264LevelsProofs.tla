------------------------- MODULE H264LevelsProofs --------------------------
(***************************************************************************)
(* Facts about Table A-1 and the level and profile ordinals, used by the   *)
(* proofs about EncodeConfig and ConfigResolver.                           *)
(***************************************************************************)
EXTENDS H264Levels, TLAPS

LevelDefs == <<LEVEL_AVC_1, LEVEL_AVC_1B, LEVEL_AVC_1_1, LEVEL_AVC_1_2,
               LEVEL_AVC_1_3, LEVEL_AVC_2, LEVEL_AVC_2_1, LEVEL_AVC_2_2,
               LEVEL_AVC_3, LEVEL_AVC_3_1, LEVEL_AVC_3_2, LEVEL_AVC_4,
               LEVEL_AVC_4_1, LEVEL_AVC_4_2, LEVEL_AVC_5, LEVEL_AVC_5_1,
               LEVEL_AVC_5_2>>

\* Row r of kLimits is the row of level r.
LEMMA LevelOfRow == \A r \in Rows : kLimits[r].level = r
  BY DEF kLimits, Rows, NumLimits, LevelDefs, LEVEL_AVC_1, LEVEL_AVC_1B,
         LEVEL_AVC_1_1, LEVEL_AVC_1_2, LEVEL_AVC_1_3, LEVEL_AVC_2, LEVEL_AVC_2_1,
         LEVEL_AVC_2_2, LEVEL_AVC_3, LEVEL_AVC_3_1, LEVEL_AVC_3_2, LEVEL_AVC_4,
         LEVEL_AVC_4_1, LEVEL_AVC_4_2, LEVEL_AVC_5, LEVEL_AVC_5_1, LEVEL_AVC_5_2

\* Each limit of Table A-1 grows (weakly) with the level.
LEMMA TableMonotone ==
  \A a, b \in Rows : a <= b =>
    /\ kLimits[a].maxFS <= kLimits[b].maxFS
    /\ kLimits[a].maxMBPS <= kLimits[b].maxMBPS
    /\ kLimits[a].maxBR <= kLimits[b].maxBR
  BY DEF kLimits, Rows, NumLimits, LEVEL_AVC_1, LEVEL_AVC_1B,
         LEVEL_AVC_1_1, LEVEL_AVC_1_2, LEVEL_AVC_1_3, LEVEL_AVC_2, LEVEL_AVC_2_1,
         LEVEL_AVC_2_2, LEVEL_AVC_3, LEVEL_AVC_3_1, LEVEL_AVC_3_2, LEVEL_AVC_4,
         LEVEL_AVC_4_1, LEVEL_AVC_4_2, LEVEL_AVC_5, LEVEL_AVC_5_1, LEVEL_AVC_5_2

\* Every limit of the table is a natural number.
LEMMA LimitTypes ==
  \A r \in Rows : /\ kLimits[r].maxBR \in Nat /\ kLimits[r].maxFS \in Nat
                 /\ kLimits[r].maxMBPS \in Nat
  BY DEF kLimits, Rows, NumLimits, LEVEL_AVC_1, LEVEL_AVC_1B,
         LEVEL_AVC_1_1, LEVEL_AVC_1_2, LEVEL_AVC_1_3, LEVEL_AVC_2, LEVEL_AVC_2_1,
         LEVEL_AVC_2_2, LEVEL_AVC_3, LEVEL_AVC_3_1, LEVEL_AVC_3_2, LEVEL_AVC_4,
         LEVEL_AVC_4_1, LEVEL_AVC_4_2, LEVEL_AVC_5, LEVEL_AVC_5_1, LEVEL_AVC_5_2

\* A nonempty set of H264 profiles has a least element.
LEMMA MinExists ==
  ASSUME NEW S \in SUBSET (1 .. 22), S # {}
  PROVE  \E p \in S : \A q \in S : p <= q
<1> DEFINE Above(n) == \A q \in S : q > n
<1> SUFFICES ASSUME \A p \in S : \E q \in S : q < p PROVE FALSE
  OBVIOUS
<1>1. ASSUME NEW n \in 0 .. 21, Above(n) PROVE Above(n + 1)
  BY <1>1
<1>2. Above(0) OBVIOUS
<1>3. Above(4) BY <1>1, <1>2
<1>4. Above(8) BY <1>1, <1>3
<1>5. Above(12) BY <1>1, <1>4
<1>6. Above(16) BY <1>1, <1>5
<1>7. Above(20) BY <1>1, <1>6
<1>8. Above(22) BY <1>1, <1>7
<1>9. PICK x \in S : TRUE
  BY Zenon
<1>10. QED BY <1>8, <1>9

=============================================================================
