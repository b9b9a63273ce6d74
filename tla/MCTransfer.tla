------------------------------ MODULE MCTransfer ------------------------------
(* A small instance of Transfer for TLC: int64 ends at 4, and every size,  *)
(* limit and count has a negative, a zero and a largest value somewhere.   *)
EXTENDS Transfer

MCLimits == {-1, 0, 2, 3, 4}
MCDefaults == {-1, 3}
MCAsked == {-1, 1, 3}
MCCounts == {-1, 0, 2, 3}
=============================================================================
