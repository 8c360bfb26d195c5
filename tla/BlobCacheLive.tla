---------------------------- MODULE BlobCacheLive ----------------------------
(***************************************************************************)
(* Liveness of the cache.  The processes that share a cache are runs of a  *)
(* command, and together they make finitely many calls, MaxCalls.         *)
(* The steps a goroutine takes by itself are weakly fair (a lock or mutex  *)
(* that stays free is taken, a source answers each ReadAt); errors,        *)
(* cancellations and crashes happen or do not.                             *)
(***************************************************************************)
EXTENDS BlobCache

CONSTANT MaxCalls     \* calls of all workers together (bound)
VARIABLE calls        \* the calls begun so far

liveVars == <<vars, calls>>

LiveInit == Init /\ calls = 0

\* A file that w creates gets the least of the inodes that are free: which one it gets changes
\* nothing else.  So here Inodes are numbers.
LeastInode(w) ==
  LET least == {i \in Inodes : \A j \in Inodes : Unused(j) => i <= j}
  IN  file'[w] \in least \cup {None, file[w], partial, blob}

BeginCall(w) ==
  /\ calls < MaxCalls
  /\ Begin(w)
  /\ LeastInode(w)
  /\ calls' = calls + 1

OwnStep(w) == Step(w) /\ LeastInode(w) /\ UNCHANGED calls

LiveNext ==
  \/ \E w \in Workers : BeginCall(w) \/ OwnStep(w)
  \/ \E w \in Workers : Fault(w) /\ UNCHANGED calls
  \/ \E p \in Processes : Crash(p) /\ UNCHANGED calls

LiveSpec == LiveInit /\ [][LiveNext]_liveVars
              /\ \A w \in Workers : WF_liveVars(OwnStep(w))

\* Every call comes to an end (blobcache.go:244): the holder of a mutex may wait for the lock on a
\* partial file, and find the file replaced and open it again, while another goroutine waits for its
\* mutex; nobody is left waiting, whoever fails or dies.
CallsReturn == \A w \in Workers : pc[w] # "idle" ~> pc[w] = "idle"
=============================================================================
