-------------------------------- MODULE MCIram -------------------------------
(***************************************************************************)
(* Instances of MxrIram for TLC: an EXEC zone and two fallback regions.    *)
(***************************************************************************)
EXTENDS MxrIram, TLC

\* EXEC zone [0, 16); regions [4..15] in [16, 32) and [16..] in [32, IramInit).
FbTwoStart == 0 :> 16 @@ 1 :> 32
FbTwoMin   == 0 :> 4  @@ 1 :> 16
FbTwoMax   == 0 :> 15 @@ 1 :> 0
=============================================================================
