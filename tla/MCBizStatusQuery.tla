--------------------------- MODULE MCBizStatusQuery ---------------------------
(* Instances of BizStatusQuery for TLC: two bases and overlapping calls.   *)
EXTENDS BizStatusQuery

CONSTANTS a, b, x, y, z
=============================================================================
