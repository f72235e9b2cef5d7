-------------------------------- MODULE MCCaps --------------------------------
(***************************************************************************)
(* Instances of MxrCaps for TLC: two DRAM regions, an EXEC zone and two    *)
(* fallback regions.                                                       *)
(***************************************************************************)
EXTENDS MxrCaps, TLC

\* DRAM: [4..11] in [0, 8) and [12..] in [8, ArenaInit).
DStart == 0 :> 0  @@ 1 :> 8
DMin   == 0 :> 4  @@ 1 :> 12
DMax   == 0 :> 11 @@ 1 :> 0

\* IRAM: EXEC zone [0, 12), [4..11] in [12, 20) and [12..] in [20, IramInit).
IStart == 0 :> 12 @@ 1 :> 20
IMin   == 0 :> 4  @@ 1 :> 12
IMax   == 0 :> 11 @@ 1 :> 0

\* Code, bytes, words, and words preferably in IRAM.
Flags == {{"EXEC"}, {"8BIT"}, {"32BIT"}, {"32BIT", "PREFER_IRAM"}}
=============================================================================
