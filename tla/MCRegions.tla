------------------------------ MODULE MCRegions ------------------------------
(***************************************************************************)
(* Instances of MxrRegions for TLC: every list of up to three entries from *)
(* a few boundaries and percentages, valid or not.                         *)
(***************************************************************************)
EXTENDS MxrRegions

Entry == [min : {0, 6, 12, 24, 36}, percent : {0, 1, 33, 50, 110}]

Lists == {<<>>} \cup {<<a>> : a \in Entry} \cup {<<a, b>> : a, b \in Entry}
           \cup {<<a, b, c>> : a, b, c \in Entry}
           \cup {<<a, a, a, a>> : a \in Entry}
=============================================================================
