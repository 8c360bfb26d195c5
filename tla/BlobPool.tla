------------------------------ MODULE BlobPool ------------------------------
(***************************************************************************)
(* What package blobcache promises of one digest, with the files, locks    *)
(* and retries left out: the digest's entry goes from absent to valid, and *)
(* never back nor to anything else; a call that succeeds found or made the *)
(* entry valid; a call may fail, or die with its process, at any time.     *)
(* BlobCache.tla is the detailed specification that implements this one.   *)
(***************************************************************************)

CONSTANT Workers          \* the goroutines that use the cache

VARIABLES
  stored,                 \* the entry: "absent", "valid" (whole and on disk) or "damaged"
  outcome                 \* outcome[w]: what the caller w knows of its call

poolVars == <<stored, outcome>>

PoolTypeOK ==
  /\ stored \in {"absent", "valid", "damaged"}
  /\ outcome \in [Workers -> {"idle", "pending", "ok", "failed"}]

PoolInit ==
  /\ stored = "absent"
  /\ outcome = [w \in Workers |-> "idle"]

Move(w, from, to) ==
  /\ outcome[w] = from
  /\ outcome' = [outcome EXCEPT ![w] = to]

Begin(w) == Move(w, "idle", "pending") /\ UNCHANGED stored

\* The entry changes only in one way: a pending call makes it valid, before it returns ...
Store(w) ==
  /\ outcome[w] = "pending"
  /\ stored' = "valid"
  /\ UNCHANGED outcome

\* ... or as it returns.
Succeed(w) ==
  /\ Move(w, "pending", "ok")
  /\ stored' = "valid"

Fail(w) == Move(w, "pending", "failed") /\ UNCHANGED stored

Return(w) ==
  /\ outcome[w] \in {"ok", "failed"}
  /\ outcome' = [outcome EXCEPT ![w] = "idle"]
  /\ UNCHANGED stored

\* A process dies, or the machine loses power: the calls of K end unanswered.
Kill(K) ==
  /\ outcome' = [w \in Workers |-> IF w \in K THEN "idle" ELSE outcome[w]]
  /\ UNCHANGED stored

PoolNext ==
  \/ \E w \in Workers :
       Begin(w) \/ Store(w) \/ Succeed(w) \/ Fail(w) \/ Return(w)
  \/ \E K \in SUBSET Workers : Kill(K)

PoolSpec == PoolInit /\ [][PoolNext]_poolVars
=============================================================================
