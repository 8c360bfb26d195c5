--------------------------- MODULE MCBlobCacheLive ---------------------------
(* An instance of BlobCacheLive for TLC. *)
EXTENDS BlobCacheLive, TLC

CONSTANTS w1, w2, w3, p1, p2

\* Two goroutines of one process, whose calls meet at its mutex, and one of another process, which
\* they meet at the lock on the partial file.
TwoAndOne == (w1 :> p1) @@ (w2 :> p1) @@ (w3 :> p2)
=============================================================================
