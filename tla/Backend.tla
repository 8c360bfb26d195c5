------------------------------- MODULE Backend -------------------------------
(***************************************************************************)
(* What store.Backend promises (store.go, type Backend) and Store.tla is   *)
(* written against: an entry comes into being in one step, with content    *)
(* that was checked against its digest, only while the name is absent;     *)
(* and it never changes.  A crash may lose the answer, not the entry.      *)
(***************************************************************************)
CONSTANTS
  Names, Writers, Bodies, None,
  Fitting       \* <<n, b>>: b is what the digest given with name n names, when there is one

VARIABLES
  entries,      \* entries[n]: the content at name n, or None
  answer        \* answer[w]: the unfinished Create of w, with its result once it is decided

backendVars == <<entries, answer>>

BackendInit ==
  /\ entries = [n \in Names |-> None]
  /\ answer = [w \in Writers |-> None]

Decided(w, n, b, r) == answer' = [answer EXCEPT ![w] = [name |-> n, body |-> b, res |-> r]]

Create(w, n, b) ==
  /\ answer[w] = None
  /\ entries[n] = None
  /\ <<n, b>> \in Fitting
  /\ entries' = [entries EXCEPT ![n] = b]
  /\ Decided(w, n, b, "ok")

\* fs.ErrExist: there is an entry.
Refuse(w, n, b) ==
  /\ answer[w] = None
  /\ entries[n] # None
  /\ Decided(w, n, b, "exist")
  /\ UNCHANGED entries

Fail(w, n, b) ==
  /\ answer[w] = None
  /\ Decided(w, n, b, "error")
  /\ UNCHANGED entries

\* The caller has its answer, or dies before.
Return(w) ==
  /\ answer' = [answer EXCEPT ![w] = None]
  /\ UNCHANGED entries

BackendNext ==
  \E w \in Writers :
    \/ \E n \in Names, b \in Bodies : Create(w, n, b) \/ Refuse(w, n, b) \/ Fail(w, n, b)
    \/ Return(w)
=============================================================================
