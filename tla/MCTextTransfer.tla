---------------------------- MODULE MCTextTransfer ----------------------------
(* TextTransfer for TLC: lengths in proportion to the real 510, 100 and 9. *)
EXTENDS TextTransfer

MCHeaderLength == 
    [t \in Types |-> CASE t = "NORMAL" -> 3 [] t = "ACTION" -> 5 [] OTHER -> 2]
MCNicks == {"me", "you", "longer"}
MCNickLength == [me |-> 1, you |-> 1, longer |-> 2]
===============================================================================
