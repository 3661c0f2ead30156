--------------------------- MODULE MCSnapshotSync ---------------------------
(* Two devices share one remote. *)
EXTENDS SnapshotSync, TLC

CONSTANTS Desktop, Laptop

DeviceSymmetry == Permutations({Desktop, Laptop})

=============================================================================
