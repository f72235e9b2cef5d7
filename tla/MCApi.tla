-------------------------------- MODULE MCApi --------------------------------
(***************************************************************************)
(* Instances of MxrApi for TLC: two tasks and two regions.                 *)
(***************************************************************************)
EXTENDS MxrApi, TLC

\* Two regions: [4..11] in [0, 16) and [12..] in [16, ArenaInit).
ApiStart == 0 :> 0  @@ 1 :> 16
ApiMin   == 0 :> 4  @@ 1 :> 12
ApiMax   == 0 :> 11 @@ 1 :> 0
=============================================================================
