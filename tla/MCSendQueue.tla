----------------------------- MODULE MCSendQueue -----------------------------
(* Values for model-checking SendQueue: 4-bit gints, so that every pair of *)
(* priorities wraps exactly as 32-bit ones do.                             *)
EXTENDS SendQueue

MCSourceIds == 1 .. 3
===============================================================================
