-------------------------------- MODULE MCScan -------------------------------
(***************************************************************************)
(* Instances of MxrScan for TLC: every region of the arena, bounded or     *)
(* not, and three lengths of request.                                      *)
(***************************************************************************)
EXTENDS MxrScan

Spans == {q \in [lo : Place, hi : Place, max : {0, 8}, bytes : {4, 8, 12}] :
            q.lo < q.hi /\ (q.max = 0 \/ q.bytes <= q.max)}
=============================================================================
