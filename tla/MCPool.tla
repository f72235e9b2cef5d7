-------------------------------- MODULE MCPool --------------------------------
(***************************************************************************)
(* An instance of MxrPool for TLC: one DRAM region, an EXEC zone and one   *)
(* fallback region whose tail holds the growing descriptor table.          *)
(***************************************************************************)
EXTENDS MxrPool, TLC

\* One class [4..] in [0, ArenaInit) and one in [16, IramInit).
DramStart == 0 :> 0
ZoneStart == 0 :> 16
AllMin == 0 :> 4
AllMax == 0 :> 0

Words == {{"EXEC"}, {"32BIT", "PREFER_IRAM"}}
=============================================================================
