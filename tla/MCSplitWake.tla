---------------------------- MODULE MCSplitWake ----------------------------
(* Two attempts at one message, one at another, and a message that has no  *)
(* request.                                                                *)
EXTENDS SplitWake, TLC

CONSTANTS w1, w2, w3, w4

MCWake == {w1, w2, w3, w4}
MCMessageOf == (w1 :> "m1" @@ w2 :> "m1" @@ w3 :> "m2" @@ w4 :> "m3")
=============================================================================
