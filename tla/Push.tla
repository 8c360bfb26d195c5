--------------------------------- MODULE Push ---------------------------------
(***************************************************************************)
(* Package transfer: processes that each plan a push (PlanPush, Diff) and  *)
(* execute it (Push) into one store, at any time relative to each other.   *)
(* A pusher commits as a caller of Store.tla; its upload goroutines are    *)
(* the callers Uploaders[w], one per place of the semaphore.               *)
(***************************************************************************)
EXTENDS Store

CONSTANTS
  Pushers,      \* processes that push; w is also the caller that commits
  Uploaders,    \* Uploaders[w]: Options.Concurrency upload goroutines
  Resolved      \* Resolved[w]: what w's image set may resolve to, each a sequence of
                \* [leaf, manifest]; an image that does not resolve or diff is left out

ASSUME PushAssumption ==
  /\ Pushers \subseteq Callers
  /\ Uploaders \in [Pushers -> SUBSET (Callers \ Pushers)]
  /\ \A v, w \in Pushers : v # w => Uploaders[v] \cap Uploaders[w] = {}
  /\ Resolved \in [Pushers -> SUBSET Seq([leaf : Leaves, manifest : Manifests])]

VARIABLES
  phase,        \* phase[w]: "idle", "plan", "upload", "commit" or "done"
  plan,         \* plan[w]: the entries, each [leaf, manifest, missing]
  at,           \* at[w]: the entry and the blob of it that Diff looks up next
  todo,         \* todo[w]: the blobs to upload that no goroutine took yet
  failed,       \* failed[w]: the blobs whose upload failed
  outcome,      \* outcome[w]: the answers to the commits, in the order of the plan
  cancelled     \* cancelled[w]: the context of w is cancelled

pushLocals == <<phase, plan, at, todo, failed, outcome, cancelled>>
pushVars == <<storeVars, pushLocals>>

Phases == {"idle", "plan", "upload", "commit", "done"}
Entry == [leaf : Leaves, manifest : Manifests, missing : SUBSET Blobs]

PushTypeOK ==
  /\ TypeOK
  /\ phase \in [Pushers -> Phases]
  /\ plan \in [Pushers -> Seq(Entry)]
  /\ at \in [Pushers -> [entry : Nat \ {0}, blob : Nat \ {0}]]
  /\ todo \in [Pushers -> SUBSET Blobs]
  /\ failed \in [Pushers -> SUBSET Blobs]
  /\ outcome \in [Pushers -> Seq((Answers \ {"none"}) \cup {"cancelled"})]
  /\ cancelled \in [Pushers -> BOOLEAN]

First == [entry |-> 1, blob |-> 1]

PushInit ==
  /\ Init
  /\ phase = [w \in Pushers |-> "idle"]
  /\ plan = [w \in Pushers |-> <<>>]
  /\ at = [w \in Pushers |-> First]
  /\ todo = [w \in Pushers |-> {}]
  /\ failed = [w \in Pushers |-> {}]
  /\ outcome = [w \in Pushers |-> <<>>]
  /\ cancelled = [w \in Pushers |-> FALSE]

Enter(w, from, to) ==
  /\ phase[w] = from
  /\ phase' = [phase EXCEPT ![w] = to]

\* ImageBlobs: "layers, config and manifest descriptors, dependencies first".
ImageBlobs(m) == Layers[m] \o <<ConfigOf[m], m>>

-----------------------------------------------------------------------------
(* PlanPush and Diff.                                                       *)

PlanPush(w) ==
  /\ Enter(w, "idle", "plan")
  /\ \E s \in Resolved[w] :
       plan' = [plan EXCEPT ![w] = [i \in DOMAIN s |->
                 [leaf |-> s[i].leaf, manifest |-> s[i].manifest, missing |-> {}]]]
  /\ UNCHANGED <<storeVars, at, todo, failed, outcome, cancelled>>

\* HasBlob of one blob of one entry; other pushers write between two of them.
Diff(w) ==
  /\ phase[w] = "plan"
  /\ at[w].entry <= Len(plan[w])
  /\ LET i == at[w].entry
         all == ImageBlobs(plan[w][i].manifest)
         b == all[at[w].blob]
     IN  /\ plan' = IF b \in stored THEN plan
                    ELSE [plan EXCEPT ![w][i].missing = @ \cup {b}]
         /\ at' = [at EXCEPT ![w] =
                     IF at[w].blob < Len(all) THEN [entry |-> i, blob |-> at[w].blob + 1]
                                              ELSE [entry |-> i + 1, blob |-> 1]]
  /\ UNCHANGED <<storeVars, phase, todo, failed, outcome, cancelled>>

-----------------------------------------------------------------------------
(* Push: the uploads.                                                       *)

\* The missing blobs of all entries, each digest once.
BeginPush(w) ==
  /\ Enter(w, "plan", "upload")
  /\ at[w].entry > Len(plan[w])
  /\ todo' = [todo EXCEPT ![w] = UNION {plan[w][i].missing : i \in DOMAIN plan[w]}]
  /\ UNCHANGED <<storeVars, plan, at, failed, outcome, cancelled>>

\* b comes before d among the missing blobs of the plan: in an earlier entry, or earlier in the
\* first entry that lacks them.
Precedes(w, b, d) ==
  \E i \in DOMAIN plan[w] :
    LET all == ImageBlobs(plan[w][i].manifest)
    IN  /\ b \in plan[w][i].missing
        /\ \A j \in 1..(i - 1) : d \notin plan[w][j].missing
        /\ d \in plan[w][i].missing =>
             \E p \in DOMAIN all : all[p] = b /\ \A q \in 1..p : all[q] # d

\* A goroutine for the next upload, once the semaphore has a place.
StartUpload(w, c) ==
  /\ phase[w] = "upload"
  /\ \E b \in todo[w] :
       /\ \A d \in todo[w] \ {b} : Precedes(w, b, d)
       /\ PutBegin(c, b)
       /\ todo' = [todo EXCEPT ![w] = @ \ {b}]
  /\ UNCHANGED <<phase, plan, at, failed, outcome, cancelled>>

\* Mutant: the place is given back only when the upload succeeded.
PlaceLost(w, c) ==
  /\ stage[c] = "done"
  /\ res[c] = "ok"
  /\ Return(c)
  /\ UNCHANGED pushLocals

\* It ends: the error is recorded, the place given back.
EndUpload(w, c) ==
  /\ Return(c)
  /\ failed' = IF res[c] = "ok" THEN failed
               ELSE [failed EXCEPT ![w] = @ \cup {call[c].blob}]
  /\ UNCHANGED <<phase, plan, at, todo, outcome, cancelled>>

\* Mutant: the commits do not wait for the uploads.
WaitSkipped(w) ==
  /\ Enter(w, "upload", "commit")
  /\ todo[w] = {}
  /\ UNCHANGED <<storeVars, plan, at, todo, failed, outcome, cancelled>>

\* wg.Wait
WaitUploads(w) ==
  /\ Enter(w, "upload", "commit")
  /\ todo[w] = {}
  /\ \A c \in Uploaders[w] : stage[c] = "idle"
  /\ UNCHANGED <<storeVars, plan, at, todo, failed, outcome, cancelled>>

-----------------------------------------------------------------------------
(* Push: the commits.                                                       *)

Committed(w) == Len(outcome[w])

Conclude(w, r) == outcome' = [outcome EXCEPT ![w] = Append(@, r)]

BeginCommit(w) ==
  /\ phase[w] = "commit"
  /\ Committed(w) < Len(plan[w])
  /\ ~cancelled[w]
  /\ LET e == plan[w][Committed(w) + 1] IN CommitBegin(w, e.leaf, e.manifest)
  /\ UNCHANGED pushLocals

\* Mutant: the answer is read before the call returned.
EndCommitEarly(w) ==
  /\ stage[w] # "idle"
  /\ Kill({w})
  /\ Conclude(w, res[w])
  /\ UNCHANGED <<phase, plan, at, todo, failed, cancelled>>

EndCommit(w) ==
  /\ Return(w)
  /\ Conclude(w, res[w])
  /\ UNCHANGED <<phase, plan, at, todo, failed, cancelled>>

\* Mutant: a cancelled entry is skipped without an error.
CancelledIsOk(w) ==
  /\ phase[w] = "commit"
  /\ Committed(w) < Len(plan[w])
  /\ stage[w] = "idle"
  /\ cancelled[w]
  /\ Conclude(w, "ok")
  /\ UNCHANGED <<storeVars, phase, plan, at, todo, failed, cancelled>>

\* "A cancelled entry is reported like a failed one."
SkipCancelled(w) ==
  /\ phase[w] = "commit"
  /\ Committed(w) < Len(plan[w])
  /\ stage[w] = "idle"
  /\ cancelled[w]
  /\ Conclude(w, "cancelled")
  /\ UNCHANGED <<storeVars, phase, plan, at, todo, failed, cancelled>>

EndPush(w) ==
  /\ Enter(w, "commit", "done")
  /\ Committed(w) = Len(plan[w])
  /\ UNCHANGED <<storeVars, plan, at, todo, failed, outcome, cancelled>>

-----------------------------------------------------------------------------

\* The process is done with the answer, or dies: its locals are gone.
Reset(w) ==
  /\ phase' = [phase EXCEPT ![w] = "idle"]
  /\ plan' = [plan EXCEPT ![w] = <<>>]
  /\ at' = [at EXCEPT ![w] = First]
  /\ todo' = [todo EXCEPT ![w] = {}]
  /\ failed' = [failed EXCEPT ![w] = {}]
  /\ outcome' = [outcome EXCEPT ![w] = <<>>]
  /\ cancelled' = [cancelled EXCEPT ![w] = FALSE]

Exit(w) == phase[w] = "done" /\ Reset(w) /\ UNCHANGED storeVars

Goroutines(w) == {w} \cup Uploaders[w]

CrashPush(w) ==
  /\ phase[w] # "idle"
  /\ Kill(Goroutines(w))
  /\ Reset(w)

\* The context is cancelled.  (Before the uploads, a cancellation leaves entries out of the plan.)
Cancel(w) ==
  /\ phase[w] \in {"upload", "commit"}
  /\ ~cancelled[w]
  /\ cancelled' = [cancelled EXCEPT ![w] = TRUE]
  /\ UNCHANGED <<storeVars, phase, plan, at, todo, failed, outcome>>

\* A backend call.  Once the context is cancelled a call fails, but for a write that had begun.
BackendCall(w, c) ==
  /\ IF cancelled[w] /\ stage[c] \notin {"create", "markers", "layout", "dirs", "index"}
     THEN Fail(c) ELSE Step(c)
  /\ UNCHANGED pushLocals

\* What w does by itself, once begun.
OwnStep(w) ==
  \/ Diff(w) \/ BeginPush(w) \/ WaitUploads(w)
  \/ \E c \in Uploaders[w] : StartUpload(w, c) \/ EndUpload(w, c)
  \/ BeginCommit(w) \/ EndCommit(w) \/ SkipCancelled(w) \/ EndPush(w)
  \/ \E c \in Goroutines(w) : BackendCall(w, c)

FaultOf(w) == \E c \in Goroutines(w) : Fault(c) /\ UNCHANGED pushLocals

PushNext ==
  \E w \in Pushers :
    PlanPush(w) \/ OwnStep(w) \/ FaultOf(w) \/ Cancel(w) \/ Exit(w) \/ CrashPush(w)

PushSpec == PushInit /\ [][PushNext]_pushVars

\* A goroutine that can run does; the backend answers.  Nobody has to fail, cancel or push again.
LivePushSpec == PushSpec /\ \A w \in Pushers : WF_pushVars(OwnStep(w))

-----------------------------------------------------------------------------
(* Properties.                                                              *)

\* The entry an upload's error is reported against.
FirstNeeding(w, b) ==
  CHOOSE i \in DOMAIN plan[w] :
    /\ b \in plan[w][i].missing
    /\ \A j \in 1..(i - 1) : b \notin plan[w][j].missing

\* Push returned an EntryError for entry i.
Reported(w, i) ==
  \/ outcome[w][i] # "ok"
  \/ \E b \in failed[w] : FirstNeeding(w, b) = i

\* "No entry looks committed" that is not (transfer.go:231): when Push returns, each entry
\* without an EntryError has its leaf, on this manifest, with every blob it needs - although
\* other pushers write the same blobs and leaves, uploads fail and the context is cancelled.
SilenceMeansCommitted ==
  \A w \in Pushers : phase[w] = "done" =>
    \A i \in DOMAIN plan[w] : ~Reported(w, i) =>
      /\ index[plan[w][i].leaf] = plan[w][i].manifest
      /\ Needs(plan[w][i].manifest) \subseteq stored

\* "An entry failure does not stop other entries" (transfer.go:183-185): a commit finds a blob
\* absent only when an upload of this very push failed for a blob the entry lacked, and that
\* failure is reported against this entry or an earlier one.  So a plan that is out of date by
\* the time it runs loses nothing.
AbsentIsBlamed ==
  \A w \in Pushers : \A i \in DOMAIN outcome[w] : outcome[w][i] = "absent" =>
    \E b \in failed[w] \cap plan[w][i].missing : FirstNeeding(w, b) <= i

\* Push returns: the semaphore's places come back, whichever uploads fail.
PushEnds == \A w \in Pushers : phase[w] = "plan" ~> phase[w] \in {"done", "idle"}

-----------------------------------------------------------------------------
(* The inductive invariant, next to IInv of the store.                      *)

\* The commit that runs is the next entry's, and an entry concluded "ok" has its leaf.
CommitOf(w) ==
  /\ Committed(w) <= Len(plan[w])
  /\ phase[w] \notin {"commit", "done"} => Committed(w) = 0
  /\ phase[w] = "done" => Committed(w) = Len(plan[w])
  /\ stage[w] # "idle" =>
       /\ phase[w] = "commit" /\ Committed(w) < Len(plan[w])
       /\ Leaf(w) = plan[w][Committed(w) + 1].leaf
       /\ Blob(w) = plan[w][Committed(w) + 1].manifest
  /\ \A i \in DOMAIN outcome[w] : outcome[w][i] = "ok" =>
       index[plan[w][i].leaf] = plan[w][i].manifest

CommitInv == \A w \in Pushers : CommitOf(w)

\* Diff looks up a blob of the entry it is at.
PlanInv ==
  \A w \in Pushers :
    /\ phase[w] = "idle" => at[w] = First
    /\ at[w].entry <= Len(plan[w]) =>
         at[w].blob <= Len(ImageBlobs(plan[w][at[w].entry].manifest))

\* Diff has looked up blob j of entry i.
LookedUp(w, i, j) == i < at[w].entry \/ (i = at[w].entry /\ j < at[w].blob)

\* The goroutine that uploads b.
Uploads(w, b) == {c \in Uploaders[w] : stage[c] # "idle" /\ Blob(c) = b}

\* What Diff found stays found, as blobs are never removed.
FoundOf(w) ==
  /\ \A i \in DOMAIN plan[w] : \A j \in DOMAIN ImageBlobs(plan[w][i].manifest) :
       LookedUp(w, i, j) => ImageBlobs(plan[w][i].manifest)[j] \in stored \cup plan[w][i].missing
  /\ phase[w] \in {"upload", "commit", "done"} => at[w].entry > Len(plan[w])

\* What it did not find waits, is under way, failed or is there; after wg.Wait one of the last two.
MissingOf(w) ==
  /\ \A c \in Uploaders[w] : stage[c] # "idle" => phase[w] = "upload" /\ Leaf(c) = None
  /\ phase[w] \in {"upload", "commit", "done"} =>
       \A i \in DOMAIN plan[w] : \A b \in plan[w][i].missing :
         \/ b \in failed[w] \cup stored
         \/ phase[w] = "upload" /\ (b \in todo[w] \/ Uploads(w, b) # {})

\* A commit that found a blob absent lacked one whose upload failed.
AbsentOf(w) ==
  /\ stage[w] = "done" /\ res[w] = "absent" =>
       failed[w] \cap plan[w][Committed(w) + 1].missing # {}
  /\ \A i \in DOMAIN outcome[w] : outcome[w][i] = "absent" =>
       failed[w] \cap plan[w][i].missing # {}

BlameInv == \A w \in Pushers : FoundOf(w) /\ MissingOf(w) /\ AbsentOf(w)

PushInv == IInv /\ PushTypeOK /\ PlanInv /\ CommitInv /\ BlameInv
=============================================================================
