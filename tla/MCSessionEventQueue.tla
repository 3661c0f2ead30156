------------------------ MODULE MCSessionEventQueue ------------------------
(* Instances of SessionEventQueue for TLC.                                 *)
EXTENDS SessionEventQueue, TLC

CONSTANTS r2, t1, s1, s2, c1, c2

(* r2 is a reader thread that feeds s2, t1 an SSH receive task.            *)
TwoSessions == [p \in Producers |-> IF p = r2 THEN s2 ELSE s1]

(* Consumers are interchangeable: nothing tells one from another.          *)
ConsumerSymmetry == Permutations({c1, c2})
=============================================================================
