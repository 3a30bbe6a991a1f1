------------------------------ MODULE MCPositions ------------------------------
(* Instances of Positions for TLC: users compete for the leading post of    *)
(* one unit and the unique post of one headquarters.                        *)
EXTENDS Positions, TLC

(* Sign-up as a fighter or the commander of the unit, or, as for work in a  *)
(* headquarters, with neither post nor unit.                                *)
FewPlaces == {NoPlace} \cup [post : Posts, unit : Units]

Symmetry == Permutations(Users) \cup Permutations(Changes) \cup Permutations(Reviews)
=============================================================================
