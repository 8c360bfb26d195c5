----------------------------- MODULE MCBlobCache -----------------------------
(* Instances of BlobCache for TLC. *)
EXTENDS BlobCache, FiniteSets, TLC

CONSTANTS w1, w2, p1, p2

\* Each worker in a process of its own; or both in p1.
TwoProcesses == (w1 :> p1) @@ (w2 :> p2)
Together == (w1 :> p1) @@ (w2 :> p1)

\* The state without the names of inodes: which files coincide, and the bytes and the lock of
\* every file that still has a name or is open.
Bytes(i) == IF i = None THEN None ELSE <<content[i], synced[i], flock[i]>>
FilesView ==
  <<Bytes(partial), Bytes(blob),
    [w \in Workers |-> <<Bytes(file[w]), file[w] = partial, file[w] = blob,
                         {v \in Workers : file[v] = file[w]}>>],
    mutex, pc, call, sum, resumed, retry, res>>
=============================================================================
