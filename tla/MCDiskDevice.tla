---------------------------- MODULE MCDiskDevice ----------------------------
(* Model-checking instances of DiskDevice. *)
EXTENDS DiskDevice, TLC

\* One drive: read-ahead of three records through one slot.
OneDrive == {0} \X (0 .. RecordCount - 1)

\* A record on each of two drives that share a slot, and addresses past the
\* last drive and the last record.
TwoDrives == (0 .. DriveCount) \X (0 .. RecordCount)

\* Records of equal words: a mixture of two is a torn copy.
Uniform == {[i \in Index |-> w] : w \in Words}

WordSymmetry == Permutations(Words)
=============================================================================
