----------------------------- MODULE MCTowerWar -----------------------------
(***************************************************************************)
(* The small games TLC plays.  A duel is rich in unit kinds, in kinds of   *)
(* command and in lane length, with two towers; a melee has three towers,  *)
(* so that the round goes on after the first fall.                         *)
(***************************************************************************)
EXTENDS TowerWar

(* A frame moves a unit by one tick.                                        *)
OneTick == {1}

(* A frame moves a unit by one tick or by two: with ContactRange = 1 the    *)
(* long frame lets units that run at each other pass.                       *)
ShortOrLong == {1, 2}

(* A network volley of two units: larger than a key's, larger than the room *)
(* the cap may leave, and long enough to cross a slot of the streak.        *)
DuelCounts == {2}

(* A network volley of one unit, as large as a key's.                       *)
MeleeCounts == {1}
=============================================================================
