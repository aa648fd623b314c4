---------------------------- MODULE MCFeedback ----------------------------
(***************************************************************************)
(* A small show for TLC: one tower, one channel, and few units and events. *)
(***************************************************************************)
EXTENDS Feedback

OneTower == {0}

(* Two of the four files, or none.                                          *)
FewOrNone == {{"hit", "destroy"}, {}}

(* The sound of a fall is kept back longest.                                *)
ShortCooldowns == [hit |-> 1, heal |-> 1, destroy |-> 2, spawn |-> 1]

(* The news of a fall stays longest.                                        *)
TextTicks == [TowerDamaged |-> 1, TowerHealed |-> 1, TowerDestroyed |-> 2]

Gains == [TowerDamaged |-> 1, TowerHealed |-> 1, TowerDestroyed |-> 2]
(* A unit that is destroyed shows more, and longer, than one that appears.  *)
Sizes == [weak |-> 1, strong |-> 2]
Lives == [weak |-> 1, strong |-> 1]

Fades == [damage |-> 1, heal |-> 1]
=============================================================================
