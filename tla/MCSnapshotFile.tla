--------------------------- MODULE MCSnapshotFile ---------------------------
(* SnapshotFile with two snapshots of different lengths; the writers are      *)
(* interchangeable.                                                           *)
EXTENDS SnapshotFile, TLC

CONSTANTS short, long

MCLength == (short :> 5) @@ (long :> 6)
MCRawLen == (short :> 2) @@ (long :> 5)

\* Readers change nothing that another one sees: one of them at a time is enough.
OneReader == \A r, s \in Readers : rpc[r] # "idle" /\ rpc[s] # "idle" => r = s

WriterSymmetry == Permutations(Writers)

=============================================================================
