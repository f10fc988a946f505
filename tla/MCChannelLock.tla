--------------------------- MODULE MCChannelLock ---------------------------
(* Instances of ChannelLock.  p1, p2 and p4 have a pid of their own and    *)
(* may run side by side.  p3 reuses p1's pid with another start time, p5   *)
(* reuses it with the same start time, which Linux (ticks since boot) can  *)
(* only report in a later boot.                                            *)
EXTENDS ChannelLock

CONSTANTS p1, p2, p3, p4, p5

MCPidOf == [p \in Proc |-> CASE p = p2 -> "pid2" [] p = p4 -> "pid3" [] OTHER -> "pid1"]
MCStartOf == [p \in Proc |-> IF p = p3 THEN "tick2" ELSE "tick1"]
============================================================================
