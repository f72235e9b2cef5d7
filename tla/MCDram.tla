-------------------------------- MODULE MCDram --------------------------------
(***************************************************************************)
(* Instances of MxrDram for TLC.  Classes of two or three regions; sizes   *)
(* are multiples of Align, scaled down.                                    *)
(***************************************************************************)
EXTENDS MxrDram, TLC

At(a, b) == 0 :> a @@ 1 :> b
Three(a, b, c) == 0 :> a @@ 1 :> b @@ 2 :> c

\* Two regions: [4..15] in [0, 24) and [16..] in [24, ArenaInit).
TwoStart == At(0, 24)
TwoMin   == At(4, 16)
TwoMax   == At(15, 0)

\* The same classes, a larger first region [0, 40).
WideStart == At(0, 40)

\* A narrow first class: [4..11] and [12..].
NarrowMin == At(4, 12)
NarrowMax == At(11, 0)

\* Three regions: [4..11], [12..19] and [20..].
ThreeStart == Three(0, 20, 44)
ThreeMin   == Three(4, 12, 20)
ThreeMax   == Three(11, 19, 0)
=============================================================================
