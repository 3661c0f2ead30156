-------------------------- MODULE MCSshShellWorker --------------------------
(* Instances of SshShellWorker for TLC: the worker of session s1, and a    *)
(* reader thread r2 of another session.                                    *)
EXTENDS SshShellWorker

CONSTANTS r2, s1, s2

OneWorker == [p \in Producers |-> IF p \in Futures THEN s1 ELSE s2]
=============================================================================
