--------------------------- MODULE MC_IntervalTree ---------------------------
(***************************************************************************)
(* Port ranges over 1..3 and queries over 0..4.  In MC_Intervals every     *)
(* range belongs to one rule id, as when each rule has its own range; the  *)
(* one invalid interval exercises insert's low > high check.               *)
(***************************************************************************)
EXTENDS IntervalTree

Iv(l, h, id) == [low |-> l, high |-> h, data_id |-> id]

MC_Intervals ==
    {Iv(l, h, 10 * l + h) : l \in 1..3, h \in 1..3} \ {Iv(2, 1, 21), Iv(3, 2, 32)}

MC_Points == 0..4
=============================================================================
