------------------------------ MODULE MCCohorts ------------------------------
(* Cohorts on a chain of three steps: caps of one, two and three for three *)
(* users, and the shipped caps for four users.                             *)
EXTENDS Cohorts, TLC

CONSTANTS u1, u2, u3, u4

ThreeUsers == {u1, u2, u3}
FourUsers == {u1, u2, u3, u4}
SmallCaps == <<1, 2, 3>>
ShippedCaps == <<2, 3, 15>>
UserSymmetry == Permutations(ThreeUsers)
=============================================================================
