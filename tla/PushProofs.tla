----------------------------- MODULE PushProofs -----------------------------
(***************************************************************************)
(* Proofs about Push, for every set of pushers, goroutines, images and     *)
(* plans.  Each step of a pusher is a step of Store or leaves it alone     *)
(* (Simulates), so all that StoreProofs shows of the store holds here; the *)
(* rest follows the commits of one pusher (CommitInv).                     *)
(***************************************************************************)
EXTENDS Push, StoreProofs, Induction, FiniteSetTheorems

LEMMA Owners ==
  /\ \A w \in Pushers : w \in Callers
  /\ \A w \in Pushers : \A c \in Uploaders[w] : c \in Callers /\ c \notin Pushers
  BY PushAssumption

\* What a pusher does to the store, the store allows.
LEMMA Simulates == PushTypeOK /\ [PushNext]_pushVars => [Next]_storeVars
  <1> SUFFICES ASSUME PushTypeOK, [PushNext]_pushVars PROVE [Next]_storeVars
    OBVIOUS
  <1>1. ASSUME NEW w \in Pushers,
               PlanPush(w) \/ Diff(w) \/ BeginPush(w) \/ WaitUploads(w) \/ SkipCancelled(w)
                 \/ EndPush(w) \/ Cancel(w) \/ Exit(w)
        PROVE  UNCHANGED storeVars
    BY <1>1 DEF PlanPush, Diff, BeginPush, WaitUploads, SkipCancelled, EndPush, Cancel, Exit
  <1>2. ASSUME NEW w \in Pushers, NEW c \in Uploaders[w], StartUpload(w, c) PROVE Next
    <2>1. \E b \in Blobs : PutBegin(c, b)
      BY <1>2 DEF StartUpload, PushTypeOK
    <2> QED
      BY <2>1, Owners DEF Next
  <1>3. ASSUME NEW w \in Pushers, NEW c \in Uploaders[w], EndUpload(w, c) PROVE Next
    BY <1>3, Owners DEF EndUpload, Next
  <1>4. ASSUME NEW w \in Pushers, BeginCommit(w) PROVE Next
    <2>1. Committed(w) + 1 \in 1..Len(plan[w])
      BY <1>4 DEF BeginCommit, Committed, PushTypeOK
    <2>2. plan[w][Committed(w) + 1] \in Entry
      BY <2>1 DEF PushTypeOK
    <2>3. \E l \in Leaves, m \in Manifests : CommitBegin(w, l, m)
      BY <1>4, <2>2 DEF BeginCommit, Entry
    <2> QED
      BY <2>3, Owners, StoreAssumption DEF Next
  <1>5. ASSUME NEW w \in Pushers, EndCommit(w) PROVE Next
    BY <1>5, Owners DEF EndCommit, Next
  <1>6. ASSUME NEW w \in Pushers, NEW c \in Goroutines(w), BackendCall(w, c) \/ Fault(c) PROVE Next
    BY <1>6, Owners DEF BackendCall, Goroutines, Fault, Next
  <1>7. ASSUME NEW w \in Pushers, CrashPush(w) PROVE Next
    <2>1. Goroutines(w) \in SUBSET Callers
      BY Owners DEF Goroutines
    <2> QED
      BY <1>7, <2>1 DEF CrashPush, Next
  <1>8. CASE UNCHANGED pushVars
    BY <1>8 DEF pushVars
  <1> QED
    BY <1>1, <1>2, <1>3, <1>4, <1>5, <1>6, <1>7, <1>8 DEF PushNext, OwnStep, FaultOf

-----------------------------------------------------------------------------
(* The types.                                                               *)

LEMMA ImageBlobsType ==
  ASSUME NEW m \in Manifests
  PROVE  /\ ImageBlobs(m) \in Seq(Blobs)
         /\ Len(ImageBlobs(m)) \in Nat /\ Len(ImageBlobs(m)) >= 2
         /\ \A j \in 1..Len(ImageBlobs(m)) : ImageBlobs(m)[j] \in Blobs
  <1>1. Layers[m] \in Seq(Blobs) /\ <<ConfigOf[m], m>> \in Seq(Blobs)
    BY NeedsAreBlobs
  <1>2. Len(ImageBlobs(m)) = Len(Layers[m]) + 2 /\ Len(Layers[m]) \in Nat
    BY <1>1 DEF ImageBlobs
  <1>3. ImageBlobs(m) \in Seq(Blobs)
    BY <1>1 DEF ImageBlobs
  <1> QED
    BY <1>2, <1>3

LEMMA PushTypeInit == PushInit => PushTypeOK /\ PlanInv /\ CommitInv
  <1> SUFFICES ASSUME PushInit PROVE PushTypeOK /\ PlanInv /\ CommitInv
    OBVIOUS
  <1>1. TypeOK
    BY TypeInit DEF PushInit
  <1>2. PushTypeOK
    BY <1>1 DEF PushInit, PushTypeOK, Phases, First
  <1>3. PlanInv
    BY DEF PushInit, PlanInv, First
  <1>4. CommitInv
    BY Owners DEF PushInit, Init, CommitInv, CommitOf, Committed
  <1> QED
    BY <1>2, <1>3, <1>4

\* One step of Diff stays inside the plan.
LEMMA DiffType ==
  ASSUME PushTypeOK, PlanInv, NEW w \in Pushers, Diff(w)
  PROVE  /\ plan' \in [Pushers -> Seq(Entry)]
         /\ at' \in [Pushers -> [entry : Nat \ {0}, blob : Nat \ {0}]]
         /\ Len(plan'[w]) = Len(plan[w])
         /\ at'[w].entry <= Len(plan'[w]) =>
              at'[w].blob <= Len(ImageBlobs(plan'[w][at'[w].entry].manifest))
         /\ \A v \in Pushers \ {w} : plan'[v] = plan[v] /\ at'[v] = at[v]
         /\ \A j \in 1..Len(plan[w]) : /\ plan'[w][j].manifest = plan[w][j].manifest
                                       /\ plan[w][j].missing \subseteq plan'[w][j].missing
         /\ at[w].entry \in 1..Len(plan[w])
         /\ ImageBlobs(plan[w][at[w].entry].manifest)[at[w].blob]
              \in stored \cup plan'[w][at[w].entry].missing
  <1> DEFINE i == at[w].entry
             all == ImageBlobs(plan[w][i].manifest)
             b == all[at[w].blob]
  <1>1. /\ i \in 1..Len(plan[w]) /\ at[w].blob \in Nat \ {0} /\ Len(plan[w]) \in Nat
        /\ at[w].blob <= Len(all) /\ plan[w] \in Seq(Entry)
    BY DEF Diff, PushTypeOK, PlanInv
  <1>2. \A j \in 1..Len(plan[w]) : plan[w][j] \in Entry
    BY <1>1
  <1>3. b \in Blobs /\ Len(all) \in Nat
    BY <1>1, <1>2, ImageBlobsType DEF Entry
  <1> DEFINE e == [plan[w][i] EXCEPT !.missing = @ \cup {b}]
             q == [plan[w] EXCEPT ![i] = e]
  <1>4. /\ e \in Entry /\ e.manifest = plan[w][i].manifest
        /\ plan[w][i].missing \subseteq e.missing /\ b \in e.missing
    BY <1>1, <1>2, <1>3 DEF Entry
  <1>5. /\ q \in Seq(Entry) /\ Len(q) = Len(plan[w])
        /\ \A j \in 1..Len(plan[w]) : /\ q[j].manifest = plan[w][j].manifest
                                      /\ plan[w][j].missing \subseteq q[j].missing
        /\ b \in q[i].missing
    <2> HIDE DEF e
    <2>1. q \in Seq(Entry) /\ Len(q) = Len(plan[w])
      BY <1>1, <1>4
    <2>2. \A j \in 1..Len(plan[w]) : q[j] = IF j = i THEN e ELSE plan[w][j]
      BY <1>1
    <2> QED
      BY <1>1, <1>4, <2>1, <2>2
  <1>6. (plan' = plan /\ b \in stored) \/ plan' = [plan EXCEPT ![w] = q]
    BY DEF Diff
  <1>7. /\ plan' \in [Pushers -> Seq(Entry)] /\ Len(plan'[w]) = Len(plan[w])
        /\ \A j \in 1..Len(plan[w]) : /\ plan'[w][j].manifest = plan[w][j].manifest
                                      /\ plan[w][j].missing \subseteq plan'[w][j].missing
        /\ \A v \in Pushers \ {w} : plan'[v] = plan[v]
        /\ b \in stored \cup plan'[w][i].missing
    <2> HIDE DEF q, b
    <2> QED
      BY <1>5, <1>6 DEF PushTypeOK
  <1>8. at' = [at EXCEPT ![w] =
                IF at[w].blob < Len(all) THEN [entry |-> i, blob |-> at[w].blob + 1]
                                         ELSE [entry |-> i + 1, blob |-> 1]]
    BY DEF Diff
  <1>9. /\ at' \in [Pushers -> [entry : Nat \ {0}, blob : Nat \ {0}]]
        /\ \A v \in Pushers \ {w} : at'[v] = at[v]
    <2>1. at \in [Pushers -> [entry : Nat \ {0}, blob : Nat \ {0}]]
      BY DEF PushTypeOK
    <2>2. [entry |-> i, blob |-> at[w].blob + 1] \in [entry : Nat \ {0}, blob : Nat \ {0}]
      BY <1>1
    <2>3. [entry |-> i + 1, blob |-> 1] \in [entry : Nat \ {0}, blob : Nat \ {0}]
      BY <1>1
    <2> QED
      BY <1>8, <2>1, <2>2, <2>3
  <1>10. at'[w].entry <= Len(plan'[w]) =>
              at'[w].blob <= Len(ImageBlobs(plan'[w][at'[w].entry].manifest))
    <2>1. CASE at[w].blob < Len(all)
      <3>1. at'[w].entry = i /\ at'[w].blob = at[w].blob + 1
        BY <1>8, <2>1 DEF PushTypeOK
      <3> QED
        BY <1>1, <1>3, <1>7, <2>1, <3>1
    <2>2. CASE ~(at[w].blob < Len(all))
      <3>1. at'[w].entry = i + 1 /\ at'[w].blob = 1
        BY <1>8, <2>2 DEF PushTypeOK
      <3> SUFFICES ASSUME i + 1 <= Len(plan[w])
                   PROVE  1 <= Len(ImageBlobs(plan[w][i + 1].manifest))
        BY <1>1, <1>7, <3>1
      <3>2. plan[w][i + 1].manifest \in Manifests
        BY <1>1, <1>2 DEF Entry
      <3> QED
        BY <3>2, ImageBlobsType
    <2> QED
      BY <2>1, <2>2
  <1> QED
    BY <1>1, <1>7, <1>9, <1>10

\* What a sequence over S holds is in S.
LEMMA SeqElement == \A S : \A s \in Seq(S) : \A i \in 1..Len(s) : s[i] \in S
  OBVIOUS

\* The entries a plan starts with.
LEMMA PlanType ==
  ASSUME PushTypeOK, PlanInv, NEW w \in Pushers, PlanPush(w)
  PROVE  /\ plan' \in [Pushers -> Seq(Entry)]
         /\ at'[w].entry <= Len(plan'[w]) =>
              at'[w].blob <= Len(ImageBlobs(plan'[w][at'[w].entry].manifest))
         /\ \A v \in Pushers \ {w} : plan'[v] = plan[v]
  <1>1. PICK s \in Resolved[w] : plan' = [plan EXCEPT ![w] = [i \in DOMAIN s |->
                 [leaf |-> s[i].leaf, manifest |-> s[i].manifest, missing |-> {}]]]
    BY DEF PlanPush
  <1> DEFINE q == [i \in DOMAIN s |->
                 [leaf |-> s[i].leaf, manifest |-> s[i].manifest, missing |-> {}]]
  <1>2. s \in Seq([leaf : Leaves, manifest : Manifests])
    BY PushAssumption
  <1>3. /\ DOMAIN s = 1..Len(s) /\ Len(s) \in Nat
        /\ \A i \in 1..Len(s) : s[i].leaf \in Leaves /\ s[i].manifest \in Manifests
    <2>1. DOMAIN s = 1..Len(s) /\ Len(s) \in Nat
      BY <1>2
    <2> SUFFICES ASSUME NEW i \in 1..Len(s)
                 PROVE  s[i].leaf \in Leaves /\ s[i].manifest \in Manifests
      BY <2>1
    <2>2. s[i] \in [leaf : Leaves, manifest : Manifests]
      BY <1>2, SeqElement, Zenon
    <2> QED
      BY <2>2
  <1>4. \A i \in 1..Len(s) : q[i] \in Entry
    BY <1>3 DEF Entry
  <1>5. q \in Seq(Entry) /\ Len(q) = Len(s)
    BY <1>3, <1>4
  <1>6. /\ plan'[w] = q /\ plan' \in [Pushers -> Seq(Entry)]
        /\ \A v \in Pushers \ {w} : plan'[v] = plan[v]
    BY <1>1, <1>5 DEF PushTypeOK
  <1>7. at'[w] = First
    BY DEF PlanPush, Enter, PlanInv
  <1>8. 1 <= Len(plan'[w]) => 1 <= Len(ImageBlobs(plan'[w][1].manifest))
    <2> SUFFICES ASSUME 1 <= Len(q) PROVE 1 <= Len(ImageBlobs(q[1].manifest))
      BY <1>6
    <2>1. q[1] \in Entry
      BY <1>3, <1>4, <1>5
    <2> QED
      BY <2>1, ImageBlobsType DEF Entry
  <1> QED
    BY <1>6, <1>7, <1>8 DEF First

\* What the other steps of w change of the locals of the pushers.
LEMMA PushTypeNext == PushInv /\ [PushNext]_pushVars => PushTypeOK' /\ PlanInv'
  <1> SUFFICES ASSUME PushInv, [PushNext]_pushVars PROVE PushTypeOK' /\ PlanInv'
    OBVIOUS
  <1>0. PushTypeOK /\ PlanInv /\ IInv
    BY DEF PushInv
  <1>t. TypeOK'
    BY <1>0, Simulates, InvNext DEF IInv
  <1>1. ASSUME NEW w \in Pushers, PlanPush(w) PROVE PushTypeOK' /\ PlanInv'
    <2>1. PushTypeOK'
      BY <1>0, <1>t, <1>1, PlanType DEF PlanPush, Enter, PushTypeOK, Phases
    <2>2. PlanInv'
      BY <1>0, <1>1, PlanType DEF PlanPush, Enter, PushTypeOK, PlanInv
    <2> QED
      BY <2>1, <2>2
  <1>2. ASSUME NEW w \in Pushers, Diff(w) PROVE PushTypeOK' /\ PlanInv'
    <2>1. PushTypeOK'
      BY <1>0, <1>t, <1>2, DiffType DEF Diff, PushTypeOK
    <2>2. PlanInv'
      BY <1>0, <1>2, DiffType DEF Diff, PlanInv
    <2> QED
      BY <2>1, <2>2
  <1>3. ASSUME plan' = plan, at' = at, \A v \in Pushers : phase'[v] = "idle" => phase[v] = "idle"
        PROVE  PlanInv'
    BY <1>0, <1>3 DEF PlanInv
  <1>4. ASSUME NEW w \in Pushers, BeginPush(w) PROVE PushTypeOK' /\ PlanInv'
    <2>1. UNION {plan[w][i].missing : i \in DOMAIN plan[w]} \subseteq Blobs
      <3>1. \A i \in DOMAIN plan[w] : plan[w][i] \in Entry
        BY <1>0 DEF PushTypeOK
      <3> QED
        BY <3>1 DEF Entry
    <2> QED
      BY <1>0, <1>t, <1>3, <1>4, <2>1 DEF BeginPush, Enter, PushTypeOK, Phases
  <1>5. ASSUME NEW w \in Pushers, NEW c \in Uploaders[w], StartUpload(w, c)
        PROVE  PushTypeOK' /\ PlanInv'
    BY <1>0, <1>t, <1>3, <1>5 DEF StartUpload, PushTypeOK
  <1>6. ASSUME NEW w \in Pushers, NEW c \in Uploaders[w], EndUpload(w, c)
        PROVE  PushTypeOK' /\ PlanInv'
    <2>1. call[c].blob \in Blobs
      BY <1>0, <1>6, Owners DEF EndUpload, Return, IInv, CallerInv, CallOf, Blob
    <2> QED
      BY <1>0, <1>t, <1>3, <1>6, <2>1 DEF EndUpload, PushTypeOK
  <1>7. ASSUME NEW w \in Pushers, WaitUploads(w) \/ EndPush(w) PROVE PushTypeOK' /\ PlanInv'
    BY <1>0, <1>t, <1>3, <1>7 DEF WaitUploads, EndPush, Enter, PushTypeOK, Phases
  <1>8. ASSUME NEW w \in Pushers, EndCommit(w) \/ SkipCancelled(w) PROVE PushTypeOK' /\ PlanInv'
    <2>1. \E r \in (Answers \ {"none"}) \cup {"cancelled"} : Conclude(w, r)
      BY <1>0, <1>8, Owners
         DEF EndCommit, SkipCancelled, Return, IInv, CallerInv, CallOf, TypeOK
    <2>2. outcome' \in [Pushers -> Seq((Answers \ {"none"}) \cup {"cancelled"})]
      BY <1>0, <2>1 DEF Conclude, PushTypeOK
    <2> QED
      BY <1>0, <1>t, <1>3, <1>8, <2>2 DEF EndCommit, SkipCancelled, PushTypeOK
  <1>9. ASSUME NEW w \in Pushers, Cancel(w) PROVE PushTypeOK' /\ PlanInv'
    BY <1>0, <1>t, <1>3, <1>9 DEF Cancel, PushTypeOK
  <1>10. ASSUME NEW w \in Pushers, Reset(w) PROVE PushTypeOK' /\ PlanInv'
    <2>1. PushTypeOK'
      BY <1>0, <1>t, <1>10 DEF Reset, PushTypeOK, Phases, First
    <2>2. PlanInv'
      BY <1>0, <1>10 DEF Reset, PlanInv, PushTypeOK, First
    <2> QED
      BY <2>1, <2>2
  <1>11. ASSUME UNCHANGED pushLocals PROVE PushTypeOK' /\ PlanInv'
    BY <1>0, <1>t, <1>3, <1>11 DEF pushLocals, PushTypeOK
  <1> QED
    BY <1>1, <1>2, <1>4, <1>5, <1>6, <1>7, <1>8, <1>9, <1>10, <1>11
       DEF PushNext, OwnStep, FaultOf, BeginCommit, BackendCall, Exit, CrashPush, pushVars

-----------------------------------------------------------------------------
(* The commits.                                                             *)

\* A pusher whose plan, answers and own call stay keeps its CommitOf while the store grows.
LEMMA CommitKept ==
  ASSUME PushTypeOK, IInv, Grows, NEW v \in Pushers, CommitOf(v),
         phase'[v] = phase[v], plan'[v] = plan[v], outcome'[v] = outcome[v],
         Same(v) \/ stage'[v] = "idle"
  PROVE  CommitOf(v)'
  <1>1. stage'[v] # "idle" => stage'[v] = stage[v] /\ Leaf(v)' = Leaf(v) /\ Blob(v)' = Blob(v)
    BY DEF Same, Leaf, Blob
  <1>2. \A i \in DOMAIN outcome[v] : outcome[v][i] = "ok" =>
          index'[plan[v][i].leaf] = plan[v][i].manifest
    <2> SUFFICES ASSUME NEW i \in DOMAIN outcome[v], outcome[v][i] = "ok"
                 PROVE  index'[plan[v][i].leaf] = plan[v][i].manifest
      OBVIOUS
    <2>1. i \in 1..Len(plan[v])
      BY DEF CommitOf, Committed, PushTypeOK
    <2>2. plan[v][i].leaf \in Leaves /\ plan[v][i].manifest \in Manifests
      <3>1. plan[v][i] \in Entry
        BY <2>1 DEF PushTypeOK
      <3> QED
        BY <3>1 DEF Entry
    <2>3. plan[v][i].manifest # None
      BY <2>2, StoreAssumption
    <2> QED
      BY <2>2, <2>3 DEF CommitOf, Grows
  <1> QED
    BY <1>1, <1>2 DEF CommitOf, Committed

\* A goroutine's steps leave the calls of the other pushers alone.
LEMMA OwnerAlone ==
  ASSUME IInv, NEW w \in Pushers, NEW v \in Pushers, NEW c \in Goroutines(w), v # w \/ c # w,
         Step(c) \/ Fault(c) \/ Return(c) \/ \E b \in Blobs : PutBegin(c, b)
  PROVE  Same(v)
  <1>1. c \in Callers /\ v \in Callers /\ c # v
    BY Owners DEF Goroutines
  <1>2. CASE Step(c) \/ Fault(c)
    BY <1>1, <1>2, StepMoves, OthersSame DEF IInv
  <1>3. CASE Return(c)
    BY <1>1, <1>3 DEF Return, Kill, Same
  <1>4. CASE \E b \in Blobs : PutBegin(c, b)
    BY <1>1, <1>4 DEF PutBegin, Begin, Same, IInv, TypeOK
  <1> QED
    BY <1>2, <1>3, <1>4

LEMMA CommitNext == PushInv /\ [PushNext]_pushVars => CommitInv'
  <1> SUFFICES ASSUME PushInv, [PushNext]_pushVars PROVE CommitInv'
    OBVIOUS
  <1>0. PushTypeOK /\ IInv /\ TypeOK /\ \A v \in Pushers : CommitOf(v)
    BY DEF PushInv, CommitInv, IInv
  <1>g. Grows
    BY <1>0, Simulates, TreeGrows
  <1>s. PushTypeOK'
    BY PushTypeNext
  \* The pushers that do not act.
  <1>o. ASSUME NEW w \in Pushers,
               \A v \in Pushers \ {w} : /\ phase'[v] = phase[v] /\ plan'[v] = plan[v]
                                        /\ outcome'[v] = outcome[v] /\ Same(v),
               CommitOf(w)'
        PROVE  CommitInv'
    BY <1>0, <1>g, <1>o, CommitKept DEF CommitInv
  <1>u. UNCHANGED storeVars => \A v \in Pushers : Same(v)
    BY DEF storeVars, Same
  <1>1. ASSUME NEW w \in Pushers, PlanPush(w) \/ Diff(w) PROVE CommitInv'
    <2>1. UNCHANGED storeVars /\ outcome' = outcome /\ phase[w] \in {"idle", "plan"}
          /\ phase'[w] = "plan" /\ \A v \in Pushers \ {w} : phase'[v] = phase[v]
      BY <1>0, <1>1 DEF PlanPush, Diff, Enter, PushTypeOK
    <2>2. \A v \in Pushers \ {w} : plan'[v] = plan[v]
      BY <1>0, <1>1, PlanType, DiffType DEF PushInv
    <2>3. Committed(w) = 0 /\ stage[w] = "idle" /\ outcome[w] = <<>>
      BY <1>0, <2>1 DEF CommitOf, Committed, PushTypeOK
    <2>4. CommitOf(w)'
      <3>1. Committed(w)' = 0 /\ stage'[w] = "idle" /\ Len(plan'[w]) \in Nat
        BY <1>s, <2>1, <2>3 DEF Committed, storeVars, PushTypeOK
      <3> QED
        BY <2>1, <2>3, <3>1 DEF CommitOf
    <2> QED
      BY <1>o, <1>u, <2>1, <2>2, <2>4
  <1>2. ASSUME NEW w \in Pushers, BeginPush(w) \/ WaitUploads(w) \/ EndPush(w) \/ Cancel(w)
        PROVE  CommitInv'
    <2>1. /\ UNCHANGED <<storeVars, plan, outcome>>
          /\ \A v \in Pushers \ {w} : phase'[v] = phase[v]
          /\ \/ phase'[w] = phase[w]
             \/ phase[w] \in {"plan", "upload"} /\ phase'[w] \in {"upload", "commit"}
             \/ phase[w] = "commit" /\ phase'[w] = "done" /\ Committed(w) = Len(plan[w])
      BY <1>0, <1>2 DEF BeginPush, WaitUploads, EndPush, Cancel, Enter, PushTypeOK
    <2>2. CommitOf(w)'
      BY <1>0, <2>1 DEF CommitOf, Committed, storeVars, tree, Leaf, Blob, PushTypeOK
    <2> QED
      BY <1>o, <1>u, <2>1, <2>2
  <1>3. ASSUME NEW w \in Pushers, NEW c \in Uploaders[w], StartUpload(w, c) \/ EndUpload(w, c)
        PROVE  CommitInv'
    <2>1. UNCHANGED <<phase, plan, outcome>> /\ c \in Goroutines(w) /\ c # w
      BY <1>3, Owners DEF StartUpload, EndUpload, Goroutines
    <2>2. Return(c) \/ \E b \in Blobs : PutBegin(c, b)
      BY <1>0, <1>3 DEF StartUpload, EndUpload, PushTypeOK
    <2>3. \A v \in Pushers : Same(v)
      BY <1>0, <2>1, <2>2, OwnerAlone
    <2> QED
      BY <1>0, <1>g, <2>1, <2>3, CommitKept DEF CommitInv
  <1>4. ASSUME NEW w \in Pushers, BeginCommit(w) PROVE CommitInv'
    <2>1. UNCHANGED <<phase, plan, outcome, index>> /\ phase[w] = "commit"
          /\ Committed(w) < Len(plan[w]) /\ stage[w] = "idle"
          /\ Leaf(w)' = plan[w][Committed(w) + 1].leaf
          /\ Blob(w)' = plan[w][Committed(w) + 1].manifest
      BY <1>0, <1>4, Owners
         DEF BeginCommit, CommitBegin, Begin, pushLocals, tree, Leaf, Blob, TypeOK
    <2>2. \A v \in Pushers \ {w} : Same(v)
      BY <1>0, <1>4, Owners DEF BeginCommit, CommitBegin, Begin, Same, TypeOK
    <2>3. CommitOf(w)'
      BY <1>0, <2>1 DEF CommitOf, Committed
    <2> QED
      BY <1>o, <2>1, <2>2, <2>3
  <1>5. ASSUME NEW w \in Pushers, EndCommit(w) \/ SkipCancelled(w) PROVE CommitInv'
    <2> DEFINE n == Committed(w) + 1
               e == plan[w][n]
    <2>1. PICK r : Conclude(w, r) /\ (r = "ok" => EndCommit(w) /\ res[w] = "ok")
      BY <1>5 DEF EndCommit, SkipCancelled
    <2>2. /\ phase[w] = "commit" /\ Committed(w) < Len(plan[w])
          /\ UNCHANGED <<phase, plan, index>> /\ stage'[w] = "idle"
          /\ \A v \in Pushers \ {w} : Same(v)
      <3>1. CASE EndCommit(w)
        <4>1. stage[w] = "done" /\ Return(w)
          BY <3>1 DEF EndCommit, Return
        <4>2. stage'[w] = "idle" /\ index' = index
          BY <4>1, Owners DEF Return, Kill, tree
        <4>3. \A v \in Pushers \ {w} : Same(v)
          BY <1>0, <4>1, OwnerAlone DEF Goroutines
        <4> QED
          BY <1>0, <3>1, <4>1, <4>2, <4>3 DEF EndCommit, CommitOf
      <3>2. CASE SkipCancelled(w)
        BY <1>u, <3>2 DEF SkipCancelled, storeVars, tree
      <3> QED
        BY <1>5, <3>1, <3>2
    <2>3. r = "ok" => index[e.leaf] = e.manifest
      <3> SUFFICES ASSUME r = "ok" PROVE index[e.leaf] = e.manifest
        OBVIOUS
      <3>1. stage[w] = "done" /\ res[w] = "ok" /\ Leaf(w) = e.leaf /\ Blob(w) = e.manifest
        BY <1>0, <2>1 DEF EndCommit, Return, CommitOf
      <3>2. e.leaf # None
        <4>1. n \in 1..Len(plan[w])
          BY <1>0, <2>2 DEF Committed, PushTypeOK
        <4>2. e \in Entry
          BY <1>0, <4>1 DEF PushTypeOK
        <4> QED
          BY <4>2, StoreAssumption DEF Entry
      <3> QED
        BY <1>0, <3>1, <3>2, Owners DEF IInv, AnswersTrue, AnswerTrue
    <2>4. /\ outcome[w] \in Seq((Answers \ {"none"}) \cup {"cancelled"})
          /\ outcome'[w] = Append(outcome[w], r)
          /\ \A v \in Pushers \ {w} : outcome'[v] = outcome[v]
      BY <1>0, <2>1 DEF Conclude, PushTypeOK
    <2>5. /\ Len(outcome'[w]) = n /\ DOMAIN outcome'[w] = 1..n /\ n \in Nat
          /\ DOMAIN outcome[w] = 1..Committed(w) /\ Committed(w) \in Nat
          /\ outcome'[w][n] = r
          /\ \A i \in 1..Committed(w) : outcome'[w][i] = outcome[w][i]
      BY <2>4 DEF Committed
    <2>6. \A i \in DOMAIN outcome'[w] : outcome'[w][i] = "ok" =>
            index[plan[w][i].leaf] = plan[w][i].manifest
      <3> SUFFICES ASSUME NEW i \in 1..n, outcome'[w][i] = "ok"
                   PROVE  index[plan[w][i].leaf] = plan[w][i].manifest
        BY <2>5
      <3>1. CASE i = n
        BY <2>3, <2>5, <3>1
      <3>2. CASE i # n
        <4>1. i \in 1..Committed(w)
          BY <2>5, <3>2
        <4> QED
          BY <1>0, <2>5, <4>1 DEF CommitOf
      <3> QED
        BY <3>1, <3>2
    <2>7. CommitOf(w)'
      <3>1. Committed(w)' = n /\ n <= Len(plan[w])
        BY <1>0, <2>2, <2>5 DEF Committed, PushTypeOK
      <3> QED
        BY <2>2, <2>6, <3>1 DEF CommitOf
    <2> QED
      BY <1>o, <2>2, <2>4, <2>7
  <1>6. ASSUME NEW w \in Pushers, Exit(w) PROVE CommitInv'
    <2>1. stage[w] = "idle"
      BY <1>0, <1>6 DEF Exit, CommitOf
    <2>2. /\ phase'[w] = "idle" /\ plan'[w] = <<>> /\ outcome'[w] = <<>> /\ UNCHANGED storeVars
          /\ \A v \in Pushers \ {w} : /\ phase'[v] = phase[v] /\ plan'[v] = plan[v]
                                       /\ outcome'[v] = outcome[v]
      BY <1>0, <1>6 DEF Exit, Reset, PushTypeOK
    <2>3. CommitOf(w)'
      BY <2>1, <2>2 DEF CommitOf, Committed, storeVars
    <2> QED
      BY <1>o, <1>u, <2>2, <2>3
  <1>7. ASSUME NEW w \in Pushers, CrashPush(w) PROVE CommitInv'
    <2>1. /\ phase'[w] = "idle" /\ plan'[w] = <<>> /\ outcome'[w] = <<>> /\ stage'[w] = "idle"
          /\ \A v \in Pushers \ {w} : /\ phase'[v] = phase[v] /\ plan'[v] = plan[v]
                                       /\ outcome'[v] = outcome[v]
      BY <1>0, <1>7, Owners DEF CrashPush, Reset, Kill, Goroutines, PushTypeOK
    <2>2. \A v \in Pushers \ {w} : Same(v)
      BY <1>7, Owners DEF CrashPush, Kill, Goroutines, Same
    <2>3. CommitOf(w)'
      BY <2>1 DEF CommitOf, Committed
    <2> QED
      BY <1>o, <2>1, <2>2, <2>3
  <1>8. ASSUME NEW w \in Pushers, NEW c \in Goroutines(w), Step(c) \/ Fault(c), UNCHANGED pushLocals
        PROVE  CommitInv'
    <2>1. c \in Callers /\ Moves(c) /\ stage[c] # "idle"
      BY <1>0, <1>8, Owners, StepMoves
         DEF Goroutines, Step, PutStep, PutHas, PutCreate, CommitStep, ReadManifest, ReadConfig,
             CheckLayer, WriteMarker, WriteLayout, MakeDir, WriteIndex, Compare, Fault, Fail,
             LoseAnswer, Answer, Goto, CommitStages
    <2>2. \A v \in Pushers \ {c} : Same(v)
      BY <1>0, <2>1, OthersSame, Owners
    <2>3. ASSUME c \in Pushers PROVE CommitOf(c)'
      <3>1. /\ Leaf(c)' = Leaf(c) /\ Blob(c)' = Blob(c)
        BY <2>1 DEF Moves, Leaf, Blob
      <3>2. /\ phase[c] = "commit" /\ Committed(c) < Len(plan[c])
            /\ Leaf(c) = plan[c][Committed(c) + 1].leaf
            /\ Blob(c) = plan[c][Committed(c) + 1].manifest
        BY <1>0, <2>1, <2>3 DEF CommitOf
      <3>3. \A i \in DOMAIN outcome[c] : outcome[c][i] = "ok" =>
              index'[plan[c][i].leaf] = plan[c][i].manifest
        <4> SUFFICES ASSUME NEW i \in DOMAIN outcome[c], outcome[c][i] = "ok"
                     PROVE  index'[plan[c][i].leaf] = plan[c][i].manifest
          OBVIOUS
        <4>1. i \in 1..Len(plan[c])
          BY <1>0, <2>3 DEF CommitOf, Committed, PushTypeOK
        <4>2. plan[c][i] \in Entry
          BY <1>0, <2>3, <4>1 DEF PushTypeOK
        <4>3. plan[c][i].leaf \in Leaves /\ plan[c][i].manifest # None
          BY <4>2, StoreAssumption DEF Entry
        <4>4. index[plan[c][i].leaf] = plan[c][i].manifest
          BY <1>0, <2>3 DEF CommitOf
        <4> QED
          BY <1>g, <4>3, <4>4 DEF Grows
      <3> QED
        BY <1>0, <1>8, <2>3, <3>1, <3>2, <3>3 DEF CommitOf, Committed, pushLocals
    <2>4. ASSUME NEW v \in Pushers, v # c PROVE CommitOf(v)'
      BY <1>0, <1>8, <1>g, <2>2, <2>4, CommitKept DEF pushLocals
    <2> QED
      BY <2>3, <2>4 DEF CommitInv
  <1>9. ASSUME UNCHANGED pushVars PROVE CommitInv'
    BY <1>0, <1>9, <1>g, <1>u, CommitKept DEF pushVars, pushLocals, CommitInv
  <1> QED
    BY <1>1, <1>2, <1>3, <1>4, <1>5, <1>6, <1>7, <1>8, <1>9
       DEF PushNext, OwnStep, FaultOf, BackendCall, Fault

-----------------------------------------------------------------------------
(* The blame for an absent blob.                                            *)

BlameOf(w) == FoundOf(w) /\ MissingOf(w) /\ AbsentOf(w)

\* ImageBlobs lists all that the image needs.
LEMMA NeedsListed ==
  ASSUME NEW m \in Manifests, NEW b \in Needs(m)
  PROVE  \E j \in DOMAIN ImageBlobs(m) : ImageBlobs(m)[j] = b
  <1>1. /\ Layers[m] \in Seq(Blobs) /\ Len(Layers[m]) \in Nat
        /\ DOMAIN Layers[m] = 1..Len(Layers[m]) /\ <<ConfigOf[m], m>> \in Seq(Blobs)
    BY NeedsAreBlobs
  <1> DEFINE n == Len(Layers[m])
  <1>2. /\ DOMAIN ImageBlobs(m) = 1..(n + 2)
        /\ \A i \in 1..n : ImageBlobs(m)[i] = Layers[m][i]
        /\ ImageBlobs(m)[n + 1] = ConfigOf[m] /\ ImageBlobs(m)[n + 2] = m
    BY <1>1 DEF ImageBlobs
  <1>3. CASE b = m
    BY <1>1, <1>2, <1>3
  <1>4. CASE b = ConfigOf[m]
    BY <1>1, <1>2, <1>4
  <1>5. CASE \E i \in DOMAIN Layers[m] : b = Layers[m][i]
    <2>1. PICK i \in 1..n : b = Layers[m][i]
      BY <1>1, <1>5
    <2>2. i \in 1..(n + 2)
      BY <1>1
    <2> QED
      BY <1>2, <2>1, <2>2
  <1> QED
    BY <1>3, <1>4, <1>5 DEF Needs

\* A call that began goes on or answers, until it returns.
LEMMA StepStays ==
  ASSUME TypeOK, NEW c \in Callers, Step(c) \/ Fault(c)
  PROVE  stage[c] \notin {"idle", "done"} /\ stage'[c] # "idle"
  BY DEF Step, PutStep, PutHas, PutCreate, CommitStep, ReadManifest, ReadConfig, CheckLayer,
         WriteMarker, WriteLayout, MakeDir, WriteIndex, Compare, Fault, Fail, LoseAnswer, Answer,
         Goto, CommitStages, TypeOK

\* "absent" is answered of a blob that the image needs and the store lacks.
LEMMA AbsentNeeds ==
  ASSUME TypeOK, NEW c \in Callers, Knows(c), Blob(c) \in Manifests, Step(c) \/ Fault(c),
         stage'[c] = "done", res'[c] = "absent"
  PROVE  \E b \in Needs(Blob(c)) : b \notin stored
  <1> USE DEF Answer, Goto, TypeOK
  <1>1. CASE ReadManifest(c)
    BY <1>1 DEF ReadManifest, Needs
  <1>2. CASE ReadConfig(c)
    BY <1>2 DEF ReadConfig, Needs
  <1>3. CASE CheckLayer(c)
    <2>1. /\ stage[c] = "layers" /\ k[c] <= Len(Layers[Blob(c)])
          /\ Layers[Blob(c)][k[c]] \notin stored
      BY <1>3 DEF CheckLayer
    <2>2. k[c] \in 1..Len(Layers[Blob(c)])
      BY <2>1, NeedsAreBlobs DEF Knows, Found, AfterConfig
    <2> QED
      BY <2>1, <2>2, NeedsAreBlobs DEF Needs
  <1>4. CASE PutStep(c)
    BY <1>4 DEF PutStep, PutHas, PutCreate
  <1>5. CASE WriteMarker(c) \/ WriteLayout(c) \/ MakeDir(c) \/ WriteIndex(c) \/ Compare(c)
    BY <1>5 DEF WriteMarker, WriteLayout, MakeDir, WriteIndex, Compare
  <1>6. CASE Fault(c)
    BY <1>6 DEF Fault, Fail, LoseAnswer
  <1> QED
    BY <1>1, <1>2, <1>3, <1>4, <1>5, <1>6 DEF Step, CommitStep

\* A pusher whose locals and calls stay keeps its blame while the store grows.
LEMMA BlameKept ==
  ASSUME Grows, NEW v \in Pushers, BlameOf(v),
         phase'[v] = phase[v], plan'[v] = plan[v], at'[v] = at[v], todo'[v] = todo[v],
         failed'[v] = failed[v], outcome'[v] = outcome[v],
         \A c \in Goroutines(v) : Same(c)
  PROVE  BlameOf(v)'
  <1>1. \A c \in Goroutines(v) : /\ stage'[c] = stage[c] /\ res'[c] = res[c]
                                 /\ Leaf(c)' = Leaf(c) /\ Blob(c)' = Blob(c)
    BY DEF Same, Leaf, Blob
  <1>2. \A b : Uploads(v, b)' = Uploads(v, b)
    BY <1>1 DEF Uploads, Goroutines
  <1>3. FoundOf(v)'
    BY DEF BlameOf, FoundOf, LookedUp, Grows
  <1>4. MissingOf(v)'
    BY <1>1, <1>2 DEF BlameOf, MissingOf, Goroutines, Grows
  <1>5. AbsentOf(v)'
    BY <1>1 DEF BlameOf, AbsentOf, Committed, Goroutines
  <1> QED
    BY <1>3, <1>4, <1>5 DEF BlameOf

\* What a goroutine of w does leaves the calls of the other pushers' goroutines alone.
LEMMA OwnersAlone ==
  ASSUME IInv, NEW w \in Pushers, NEW c \in Goroutines(w),
         Step(c) \/ Fault(c) \/ Return(c)
           \/ (\E b \in Blobs : PutBegin(c, b)) \/ (\E l, b : CommitBegin(c, l, b))
  PROVE  /\ \A d \in Callers \ {c} : Same(d)
         /\ \A v \in Pushers \ {w} : \A d \in Goroutines(v) : d \in Callers \ {c}
  <1>1. c \in Callers
    BY Owners DEF Goroutines
  <1>2. \A v \in Pushers \ {w} : \A d \in Goroutines(v) : d \in Callers \ {c}
    BY Owners, PushAssumption DEF Goroutines
  <1>3. CASE Step(c) \/ Fault(c)
    BY <1>1, <1>2, <1>3, StepMoves, OthersSame DEF IInv
  <1>4. CASE Return(c)
    BY <1>1, <1>2, <1>4 DEF Return, Kill, Same
  <1>5. CASE (\E b \in Blobs : PutBegin(c, b)) \/ (\E l, b : CommitBegin(c, l, b))
    BY <1>1, <1>2, <1>5 DEF PutBegin, CommitBegin, Begin, Same, IInv, TypeOK
  <1> QED
    BY <1>3, <1>4, <1>5

\* What an entry of a plan is.
LEMMA PlanElement ==
  ASSUME NEW p \in [Pushers -> Seq(Entry)], NEW w \in Pushers
  PROVE  /\ DOMAIN p[w] = 1..Len(p[w]) /\ Len(p[w]) \in Nat
         /\ \A i \in DOMAIN p[w] : /\ i \in Nat /\ i >= 1 /\ p[w][i] \in Entry
                                  /\ p[w][i].manifest \in Manifests
                                  /\ p[w][i].missing \subseteq Blobs
  <1>1. p[w] \in Seq(Entry)
    OBVIOUS
  <1>2. DOMAIN p[w] = 1..Len(p[w]) /\ Len(p[w]) \in Nat
    BY <1>1
  <1>3. \A i \in 1..Len(p[w]) : p[w][i] \in Entry
    BY <1>1, SeqElement, Zenon
  <1> QED
    BY <1>2, <1>3 DEF Entry

LEMMA BlameNext == PushInv /\ [PushNext]_pushVars => BlameInv'
  <1> SUFFICES ASSUME PushInv, [PushNext]_pushVars PROVE BlameInv'
    OBVIOUS
  <1>0. /\ PushTypeOK /\ IInv /\ TypeOK
        /\ \A v \in Pushers : CommitOf(v) /\ BlameOf(v)
        /\ \A c \in Callers : Knows(c)
    BY DEF PushInv, CommitInv, BlameInv, BlameOf, IInv, CallerInv, AnswersTrue, Knows
  <1>g. Grows
    BY <1>0, Simulates, TreeGrows
  <1>s. PushTypeOK'
    BY PushTypeNext
  <1>u. UNCHANGED storeVars => \A c \in Callers : Same(c) /\ Leaf(c)' = Leaf(c) /\ Blob(c)' = Blob(c)
    BY DEF storeVars, Same, Leaf, Blob
  <1>c. \A v \in Pushers : Goroutines(v) \subseteq Callers
    BY Owners DEF Goroutines
  \* The pushers that do not act.
  <1>o. ASSUME NEW w \in Pushers,
               \A v \in Pushers \ {w} :
                 /\ phase'[v] = phase[v] /\ plan'[v] = plan[v] /\ at'[v] = at[v]
                 /\ todo'[v] = todo[v] /\ failed'[v] = failed[v] /\ outcome'[v] = outcome[v]
                 /\ \A c \in Goroutines(v) : Same(c),
               FoundOf(w)' /\ MissingOf(w)' /\ AbsentOf(w)'
        PROVE  BlameInv'
    <2>1. \A v \in Pushers \ {w} : BlameOf(v)'
      BY <1>0, <1>g, <1>o, BlameKept
    <2> QED
      BY <1>o, <2>1 DEF BlameInv, BlameOf
  <1>1. ASSUME NEW w \in Pushers, PlanPush(w) PROVE BlameInv'
    <2>1. /\ UNCHANGED <<storeVars, at, todo, failed, outcome>>
          /\ phase[w] = "idle" /\ phase'[w] = "plan" /\ at[w] = First
          /\ \A v \in Pushers \ {w} : phase'[v] = phase[v] /\ plan'[v] = plan[v]
      BY <1>0, <1>1, PlanType DEF PlanPush, Enter, PushTypeOK, PushInv, PlanInv
    <2>2. FoundOf(w)'
      <3>1. \A i \in DOMAIN plan'[w] : i \in Nat /\ i >= 1 /\ plan'[w][i].manifest \in Manifests
        BY <1>s, PlanElement DEF PushTypeOK
      <3>2. \A i \in DOMAIN plan'[w] : \A j \in DOMAIN ImageBlobs(plan'[w][i].manifest) :
              j \in Nat /\ j >= 1
        BY <3>1, ImageBlobsType
      <3> QED
        BY <2>1, <3>1, <3>2 DEF FoundOf, LookedUp, First
    <2>3. MissingOf(w)'
      BY <1>0, <1>u, <1>c, <2>1 DEF MissingOf, BlameOf, Goroutines, Same
    <2>4. AbsentOf(w)'
      <3>1. stage[w] = "idle" /\ outcome[w] = <<>>
        BY <1>0, <2>1 DEF CommitOf, Committed, PushTypeOK
      <3> QED
        BY <2>1, <3>1 DEF AbsentOf, storeVars
    <2> QED
      BY <1>o, <1>u, <1>c, <2>1, <2>2, <2>3, <2>4
  <1>2. ASSUME NEW w \in Pushers, Diff(w) PROVE BlameInv'
    <2> DEFINE i == at[w].entry
               all == ImageBlobs(plan[w][i].manifest)
    <2>1. UNCHANGED <<storeVars, phase, todo, failed, outcome>> /\ phase[w] = "plan"
      BY <1>2 DEF Diff
    <2>2. /\ \A v \in Pushers \ {w} : plan'[v] = plan[v] /\ at'[v] = at[v]
          /\ Len(plan'[w]) = Len(plan[w]) /\ i \in 1..Len(plan[w])
          /\ \A j \in 1..Len(plan[w]) : /\ plan'[w][j].manifest = plan[w][j].manifest
                                        /\ plan[w][j].missing \subseteq plan'[w][j].missing
          /\ all[at[w].blob] \in stored \cup plan'[w][i].missing
      BY <1>0, <1>2, DiffType DEF PushInv
    <2>3. /\ DOMAIN plan'[w] = 1..Len(plan[w]) /\ DOMAIN plan[w] = 1..Len(plan[w])
          /\ Len(plan[w]) \in Nat /\ at[w].blob \in Nat
          /\ \A j \in 1..Len(plan[w]) : plan[w][j].manifest \in Manifests
      <3>1. plan \in [Pushers -> Seq(Entry)] /\ plan' \in [Pushers -> Seq(Entry)]
        BY <1>0, <1>s DEF PushTypeOK
      <3>2. at[w].blob \in Nat
        BY <1>0 DEF PushTypeOK
      <3>3. /\ DOMAIN plan[w] = 1..Len(plan[w]) /\ Len(plan[w]) \in Nat
            /\ \A j \in DOMAIN plan[w] : plan[w][j].manifest \in Manifests
        BY <3>1, PlanElement
      <3>4. DOMAIN plan'[w] = 1..Len(plan'[w])
        BY <3>1, PlanElement
      <3> QED
        BY <2>2, <3>2, <3>3, <3>4
    <2>4. at'[w] = IF at[w].blob < Len(all) THEN [entry |-> i, blob |-> at[w].blob + 1]
                                            ELSE [entry |-> i + 1, blob |-> 1]
      BY <1>0, <1>2 DEF Diff, PushTypeOK
    <2>5. FoundOf(w)'
      <3> SUFFICES ASSUME NEW h \in 1..Len(plan[w]),
                          NEW j \in DOMAIN ImageBlobs(plan[w][h].manifest), LookedUp(w, h, j)'
                   PROVE  ImageBlobs(plan[w][h].manifest)[j] \in stored \cup plan'[w][h].missing
        BY <2>1, <2>2, <2>3 DEF FoundOf, storeVars, tree
      <3>1. j \in Nat /\ j >= 1 /\ j <= Len(ImageBlobs(plan[w][h].manifest))
            /\ Len(ImageBlobs(plan[w][h].manifest)) \in Nat
        BY <2>3, ImageBlobsType
      <3>2. LookedUp(w, h, j) \/ (h = i /\ j = at[w].blob)
        <4>1. CASE at[w].blob < Len(all)
          BY <2>3, <2>4, <3>1, <4>1 DEF LookedUp
        <4>2. CASE ~(at[w].blob < Len(all))
          <5>1. LookedUp(w, h, j)' <=> (h < i + 1 \/ (h = i + 1 /\ j < 1))
            BY <2>4, <4>2 DEF LookedUp
          <5>2. h < i \/ h = i
            BY <2>2, <3>1, <5>1
          <5>3. h = i => j <= at[w].blob
            <6> SUFFICES ASSUME h = i PROVE j <= at[w].blob
              OBVIOUS
            <6>1. j <= Len(all) /\ Len(all) \in Nat
              BY <3>1
            <6> HIDE DEF all, i
            <6> QED
              BY <2>3, <3>1, <4>2, <6>1
          <5> QED
            BY <2>3, <3>1, <5>2, <5>3 DEF LookedUp
        <4> QED
          BY <4>1, <4>2
      <3>3. CASE LookedUp(w, h, j)
        BY <1>0, <2>2, <2>3, <3>3 DEF BlameOf, FoundOf
      <3>4. CASE h = i /\ j = at[w].blob
        BY <2>2, <3>4
      <3> QED
        BY <3>2, <3>3, <3>4
    <2>6. MissingOf(w)'
      BY <1>0, <1>u, <1>c, <2>1 DEF MissingOf, BlameOf, Goroutines, Same
    <2>7. AbsentOf(w)'
      <3>1. stage[w] = "idle" /\ outcome[w] = <<>>
        BY <1>0, <2>1 DEF CommitOf, Committed, PushTypeOK
      <3> QED
        BY <2>1, <3>1 DEF AbsentOf, storeVars
    <2> QED
      BY <1>o, <1>u, <1>c, <2>1, <2>2, <2>5, <2>6, <2>7
  <1>3. ASSUME NEW w \in Pushers, BeginPush(w) PROVE BlameInv'
    <2>1. /\ UNCHANGED <<storeVars, plan, at, failed, outcome>>
          /\ phase[w] = "plan" /\ phase'[w] = "upload" /\ at[w].entry > Len(plan[w])
          /\ todo'[w] = UNION {plan[w][i].missing : i \in DOMAIN plan[w]}
          /\ \A v \in Pushers \ {w} : phase'[v] = phase[v] /\ todo'[v] = todo[v]
      BY <1>0, <1>3 DEF BeginPush, Enter, PushTypeOK
    <2>2. FoundOf(w)'
      BY <1>0, <2>1 DEF BlameOf, FoundOf, LookedUp, storeVars, tree
    <2>3. MissingOf(w)'
      <3>1. \A i \in DOMAIN plan[w] : \A b \in plan[w][i].missing : b \in todo'[w]
        BY <2>1
      <3> QED
        BY <1>0, <1>u, <1>c, <2>1, <3>1 DEF BlameOf, MissingOf, Goroutines, Same
    <2>4. AbsentOf(w)'
      BY <1>0, <1>u, <2>1, Owners DEF BlameOf, AbsentOf, Committed, Same
    <2> QED
      BY <1>o, <1>u, <1>c, <2>1, <2>2, <2>3, <2>4
  <1>4. ASSUME NEW w \in Pushers, NEW c \in Uploaders[w], StartUpload(w, c) PROVE BlameInv'
    <2>1. PICK b \in todo[w] : PutBegin(c, b) /\ todo' = [todo EXCEPT ![w] = @ \ {b}]
      BY <1>4 DEF StartUpload
    <2>2. /\ UNCHANGED <<phase, plan, at, failed, outcome, stored>> /\ phase[w] = "upload"
          /\ stage[c] = "idle" /\ stage'[c] = "has" /\ Leaf(c)' = None /\ Blob(c)' = b
          /\ todo'[w] = todo[w] \ {b} /\ \A v \in Pushers \ {w} : todo'[v] = todo[v]
      BY <1>0, <1>4, <2>1, Owners
         DEF StartUpload, PutBegin, Begin, tree, Leaf, Blob, TypeOK, PushTypeOK
    <2>3. b \in Blobs /\ c \in Goroutines(w)
      BY <1>0, <2>1 DEF PushTypeOK, Goroutines
    <2>4. /\ \A d \in Callers \ {c} : Same(d)
          /\ \A v \in Pushers \ {w} : \A d \in Goroutines(v) : d \in Callers \ {c}
      BY <1>0, <2>1, <2>3, OwnersAlone
    <2>5. FoundOf(w)'
      BY <1>0, <2>2 DEF BlameOf, FoundOf, LookedUp
    <2>6. MissingOf(w)'
      <3>1. \A d \in Uploaders[w] \ {c} :
              stage'[d] = stage[d] /\ Leaf(d)' = Leaf(d) /\ Blob(d)' = Blob(d)
        BY <2>4, Owners DEF Same, Leaf, Blob
      <3>2. \A d : Uploads(w, d) \subseteq Uploads(w, d)'
        BY <2>2, <3>1 DEF Uploads
      <3>3. c \in Uploads(w, b)'
        BY <2>2 DEF Uploads
      <3>4. \A d \in Uploaders[w] : stage'[d] # "idle" => phase'[w] = "upload" /\ Leaf(d)' = None
        BY <1>0, <2>2, <3>1 DEF BlameOf, MissingOf
      <3>5. \A i \in DOMAIN plan[w] : \A d \in plan[w][i].missing :
              d \in failed[w] \cup stored \/ d \in todo'[w] \/ Uploads(w, d)' # {}
        BY <1>0, <2>2, <3>2, <3>3 DEF BlameOf, MissingOf
      <3> QED
        BY <2>2, <3>4, <3>5 DEF MissingOf
    <2>7. AbsentOf(w)'
      BY <1>0, <2>2, <2>4, Owners DEF BlameOf, AbsentOf, Committed, Same
    <2> QED
      BY <1>o, <2>2, <2>4, <2>5, <2>6, <2>7
  <1>5. ASSUME NEW w \in Pushers, NEW c \in Uploaders[w], EndUpload(w, c) PROVE BlameInv'
    <2>1. /\ UNCHANGED <<phase, plan, at, todo, outcome, stored>>
          /\ stage[c] = "done" /\ stage'[c] = "idle" /\ Return(c)
          /\ failed' = IF res[c] = "ok" THEN failed
                       ELSE [failed EXCEPT ![w] = @ \cup {Blob(c)}]
      BY <1>5, Owners DEF EndUpload, Return, Kill, tree, Blob
    <2>2. /\ Blob(c) \in failed'[w] \cup stored /\ failed[w] \subseteq failed'[w]
          /\ \A v \in Pushers \ {w} : failed'[v] = failed[v]
      BY <1>0, <2>1, Owners DEF BlameOf, MissingOf, Knows, AnswerTrue, PushTypeOK
    <2>3. c \in Goroutines(w)
      BY DEF Goroutines
    <2>4. /\ \A d \in Callers \ {c} : Same(d)
          /\ \A v \in Pushers \ {w} : \A d \in Goroutines(v) : d \in Callers \ {c}
      BY <1>0, <2>1, <2>3, OwnersAlone
    <2>5. FoundOf(w)'
      BY <1>0, <2>1 DEF BlameOf, FoundOf, LookedUp
    <2>6. MissingOf(w)'
      <3>1. \A d \in Uploaders[w] \ {c} :
              stage'[d] = stage[d] /\ Leaf(d)' = Leaf(d) /\ Blob(d)' = Blob(d)
        BY <2>4, Owners DEF Same, Leaf, Blob
      <3>2. \A d : Uploads(w, d) \subseteq Uploads(w, d)' \/ d = Blob(c)
        BY <3>1 DEF Uploads
      <3>3. \A d \in Uploaders[w] : stage'[d] # "idle" => phase'[w] = "upload" /\ Leaf(d)' = None
        BY <1>0, <2>1, <3>1 DEF BlameOf, MissingOf
      <3>4. phase[w] \in {"upload", "commit", "done"} =>
              \A i \in DOMAIN plan[w] : \A d \in plan[w][i].missing :
                \/ d \in failed'[w] \cup stored
                \/ phase[w] = "upload" /\ (d \in todo[w] \/ Uploads(w, d)' # {})
        BY <1>0, <2>2, <3>2 DEF BlameOf, MissingOf
      <3> QED
        BY <2>1, <3>3, <3>4 DEF MissingOf
    <2>7. AbsentOf(w)'
      <3>1. stage'[w] = stage[w] /\ res'[w] = res[w]
        BY <2>4, Owners DEF Same
      <3> QED
        BY <1>0, <2>1, <2>2, <3>1 DEF BlameOf, AbsentOf, Committed
    <2> QED
      BY <1>o, <2>1, <2>2, <2>4, <2>5, <2>6, <2>7
  <1>6. ASSUME NEW w \in Pushers, WaitUploads(w) \/ EndPush(w) \/ Cancel(w) PROVE BlameInv'
    <2>1. /\ UNCHANGED <<storeVars, plan, at, todo, failed, outcome>>
          /\ \A v \in Pushers \ {w} : phase'[v] = phase[v]
          /\ \/ phase'[w] = phase[w]
             \/ /\ phase[w] = "upload" /\ phase'[w] = "commit"
                /\ todo[w] = {} /\ \A c \in Uploaders[w] : stage[c] = "idle"
             \/ phase[w] = "commit" /\ phase'[w] = "done"
      BY <1>0, <1>6 DEF WaitUploads, EndPush, Cancel, Enter, PushTypeOK
    <2>2. \A c \in Goroutines(w) : Same(c) /\ Leaf(c)' = Leaf(c) /\ Blob(c)' = Blob(c)
      BY <1>u, <1>c, <2>1
    <2>3. \A b : Uploads(w, b)' = Uploads(w, b)
      BY <2>2 DEF Uploads, Goroutines, Same
    <2>4. FoundOf(w)'
      BY <1>0, <2>1 DEF BlameOf, FoundOf, LookedUp, storeVars, tree
    <2>5. MissingOf(w)'
      <3>1. stored' = stored /\ \A c \in Uploaders[w] : stage'[c] = stage[c] /\ Leaf(c)' = Leaf(c)
        BY <2>1, <2>2 DEF storeVars, tree, Same, Goroutines
      <3>2. CASE phase'[w] = phase[w]
        BY <1>0, <2>1, <2>3, <3>1, <3>2 DEF BlameOf, MissingOf
      <3>3. CASE phase[w] = "upload" /\ phase'[w] = "commit"
        <4>1. \A b : Uploads(w, b) = {}
          BY <2>1, <3>3 DEF Uploads
        <4> QED
          BY <1>0, <2>1, <3>1, <3>3, <4>1 DEF BlameOf, MissingOf
      <3>4. CASE phase[w] = "commit" /\ phase'[w] = "done"
        BY <1>0, <2>1, <3>1, <3>4 DEF BlameOf, MissingOf
      <3> QED
        BY <2>1, <3>2, <3>3, <3>4
    <2>6. AbsentOf(w)'
      BY <1>0, <2>1, <2>2 DEF BlameOf, AbsentOf, Committed, Goroutines, Same
    <2> QED
      BY <1>o, <1>u, <1>c, <2>1, <2>4, <2>5, <2>6
  <1>7. ASSUME NEW w \in Pushers, BeginCommit(w) PROVE BlameInv'
    <2>1. /\ UNCHANGED <<phase, plan, at, todo, failed, outcome, stored>>
          /\ stage'[w] = "manifest" /\ \E l, b : CommitBegin(w, l, b)
      BY <1>0, <1>7, Owners DEF BeginCommit, CommitBegin, Begin, pushLocals, tree, TypeOK
    <2>2. w \in Goroutines(w) /\ w \notin Uploaders[w]
      BY Owners DEF Goroutines
    <2>3. /\ \A d \in Callers \ {w} : Same(d)
          /\ \A v \in Pushers \ {w} : \A d \in Goroutines(v) : d \in Callers \ {w}
      BY <1>0, <2>1, <2>2, OwnersAlone
    <2>4. FoundOf(w)'
      BY <1>0, <2>1 DEF BlameOf, FoundOf, LookedUp
    <2>5. MissingOf(w)'
      <3>1. \A d \in Uploaders[w] :
              stage'[d] = stage[d] /\ Leaf(d)' = Leaf(d) /\ Blob(d)' = Blob(d)
        BY <2>2, <2>3, Owners DEF Same, Leaf, Blob
      <3>2. \A b : Uploads(w, b)' = Uploads(w, b)
        BY <3>1 DEF Uploads
      <3> QED
        BY <1>0, <2>1, <3>1, <3>2 DEF BlameOf, MissingOf
    <2>6. AbsentOf(w)'
      BY <1>0, <2>1 DEF BlameOf, AbsentOf
    <2> QED
      BY <1>o, <2>1, <2>3, <2>4, <2>5, <2>6
  <1>8. ASSUME NEW w \in Pushers, EndCommit(w) \/ SkipCancelled(w) PROVE BlameInv'
    <2> DEFINE n == Committed(w) + 1
    <2>1. PICK r : /\ Conclude(w, r) /\ stage'[w] = "idle"
                   /\ r = "absent" => stage[w] = "done" /\ res[w] = "absent"
      <3>1. CASE EndCommit(w)
        BY <3>1, Owners DEF EndCommit, Return, Kill
      <3>2. CASE SkipCancelled(w)
        BY <3>2 DEF SkipCancelled, storeVars
      <3> QED
        BY <1>8, <3>1, <3>2
    <2>2. UNCHANGED <<phase, plan, at, todo, failed, stored>>
      BY <1>8 DEF EndCommit, SkipCancelled, Return, Kill, storeVars, tree
    <2>3. w \in Goroutines(w) /\ w \notin Uploaders[w]
      BY Owners DEF Goroutines
    <2>4. /\ \A d \in Callers \ {w} : Same(d)
          /\ \A v \in Pushers \ {w} : \A d \in Goroutines(v) : d \in Callers \ {w}
      <3>1. CASE EndCommit(w)
        BY <1>0, <2>3, <3>1, OwnersAlone DEF EndCommit
      <3>2. CASE SkipCancelled(w)
        BY <1>u, <3>2, Owners, PushAssumption DEF SkipCancelled, Goroutines
      <3> QED
        BY <1>8, <3>1, <3>2
    <2>5. FoundOf(w)'
      BY <1>0, <2>2 DEF BlameOf, FoundOf, LookedUp
    <2>6. MissingOf(w)'
      <3>1. \A d \in Uploaders[w] :
              stage'[d] = stage[d] /\ Leaf(d)' = Leaf(d) /\ Blob(d)' = Blob(d)
        BY <2>3, <2>4, Owners DEF Same, Leaf, Blob
      <3>2. \A b : Uploads(w, b)' = Uploads(w, b)
        BY <3>1 DEF Uploads
      <3> QED
        BY <1>0, <2>2, <3>1, <3>2 DEF BlameOf, MissingOf
    <2>7. /\ outcome[w] \in Seq((Answers \ {"none"}) \cup {"cancelled"})
          /\ outcome'[w] = Append(outcome[w], r)
          /\ \A v \in Pushers \ {w} : outcome'[v] = outcome[v]
      BY <1>0, <2>1 DEF Conclude, PushTypeOK
    <2>8. /\ DOMAIN outcome'[w] = 1..n /\ n \in Nat
          /\ DOMAIN outcome[w] = 1..Committed(w) /\ Committed(w) \in Nat
          /\ outcome'[w][n] = r
          /\ \A i \in 1..Committed(w) : outcome'[w][i] = outcome[w][i]
      BY <2>7 DEF Committed
    <2>9. AbsentOf(w)'
      <3> SUFFICES ASSUME NEW i \in 1..n, outcome'[w][i] = "absent"
                   PROVE  failed[w] \cap plan[w][i].missing # {}
        BY <2>1, <2>2, <2>8 DEF AbsentOf
      <3>1. CASE i = n
        BY <1>0, <2>1, <2>8, <3>1 DEF BlameOf, AbsentOf
      <3>2. CASE i # n
        <4>1. i \in 1..Committed(w)
          BY <2>8, <3>2
        <4> QED
          BY <1>0, <2>8, <4>1 DEF BlameOf, AbsentOf
      <3> QED
        BY <3>1, <3>2
    <2> QED
      BY <1>o, <2>2, <2>4, <2>5, <2>6, <2>7, <2>9
  <1>9. ASSUME NEW w \in Pushers, Reset(w), \A c \in Goroutines(w) : stage'[c] = "idle",
               \A v \in Pushers \ {w} : \A c \in Goroutines(v) : Same(c)
        PROVE  BlameInv'
    <2>1. /\ phase'[w] = "idle" /\ plan'[w] = <<>> /\ at'[w] = First /\ outcome'[w] = <<>>
          /\ \A v \in Pushers \ {w} :
               /\ phase'[v] = phase[v] /\ plan'[v] = plan[v] /\ at'[v] = at[v]
               /\ todo'[v] = todo[v] /\ failed'[v] = failed[v] /\ outcome'[v] = outcome[v]
      BY <1>0, <1>9 DEF Reset, PushTypeOK
    <2>2. FoundOf(w)' /\ MissingOf(w)' /\ AbsentOf(w)'
      BY <1>9, <2>1 DEF FoundOf, MissingOf, AbsentOf, Goroutines
    <2> QED
      BY <1>9, <1>o, <2>1, <2>2
  <1>10. ASSUME NEW w \in Pushers, Exit(w) PROVE BlameInv'
    <2>1. \A c \in Goroutines(w) : stage[c] = "idle"
      BY <1>0, <1>10 DEF Exit, CommitOf, BlameOf, MissingOf, Goroutines
    <2> QED
      BY <1>9, <1>10, <1>u, <1>c, <2>1 DEF Exit, Same
  <1>11. ASSUME NEW w \in Pushers, CrashPush(w) PROVE BlameInv'
    <2>1. Reset(w) /\ \A c \in Goroutines(w) : stage'[c] = "idle"
      BY <1>11, <1>c DEF CrashPush, Kill
    <2>2. \A v \in Pushers \ {w} : \A c \in Goroutines(v) : c \in Callers /\ c \notin Goroutines(w)
      BY Owners, PushAssumption DEF Goroutines
    <2>3. \A v \in Pushers \ {w} : \A c \in Goroutines(v) : Same(c)
      BY <1>11, <2>2 DEF CrashPush, Kill, Same
    <2> QED
      BY <1>9, <2>1, <2>3
  <1>12. ASSUME NEW w \in Pushers, NEW c \in Goroutines(w), Step(c) \/ Fault(c),
                UNCHANGED pushLocals
         PROVE  BlameInv'
    <2>1. /\ \A d \in Callers \ {c} : Same(d)
          /\ \A v \in Pushers \ {w} : \A d \in Goroutines(v) : d \in Callers \ {c}
      BY <1>0, <1>12, OwnersAlone
    <2>2. UNCHANGED <<phase, plan, at, todo, failed, outcome>>
      BY <1>12 DEF pushLocals
    <2>3. /\ c \in Callers /\ Leaf(c)' = Leaf(c) /\ Blob(c)' = Blob(c)
          /\ stage[c] \notin {"idle", "done"} /\ stage'[c] # "idle"
      BY <1>0, <1>12, <1>c, StepMoves, StepStays DEF Moves, Leaf, Blob
    <2>4. \A d \in Callers : /\ Leaf(d)' = Leaf(d) /\ Blob(d)' = Blob(d)
                             /\ stage'[d] = "idle" <=> stage[d] = "idle"
      BY <2>1, <2>3 DEF Same, Leaf, Blob
    <2>5. FoundOf(w)'
      BY <1>0, <1>g, <2>2 DEF BlameOf, FoundOf, LookedUp, Grows
    <2>6. MissingOf(w)'
      <3>1. \A b : Uploads(w, b)' = Uploads(w, b)
        BY <2>4, Owners DEF Uploads
      <3> QED
        BY <1>0, <1>g, <2>2, <2>4, <3>1, Owners DEF BlameOf, MissingOf, Grows
    <2>7. AbsentOf(w)'
      <3>1. ASSUME c = w, stage'[w] = "done", res'[w] = "absent"
            PROVE  failed[w] \cap plan[w][Committed(w) + 1].missing # {}
        <4> DEFINE i == Committed(w) + 1
        <4>1. /\ phase[w] = "commit" /\ Committed(w) < Len(plan[w])
              /\ Blob(w) = plan[w][i].manifest
          BY <1>0, <2>3, <3>1 DEF CommitOf
        <4>2. i \in 1..Len(plan[w]) /\ DOMAIN plan[w] = 1..Len(plan[w]) /\ Len(plan[w]) \in Nat
          BY <1>0, <4>1 DEF Committed, PushTypeOK
        <4>3. plan[w][i].manifest \in Manifests
          BY <1>0, <4>2, PlanElement DEF PushTypeOK
        <4>4. PICK b \in Needs(Blob(w)) : b \notin stored
          BY <1>0, <1>12, <3>1, <4>1, <4>3, AbsentNeeds, Owners
        <4>5. PICK j \in DOMAIN ImageBlobs(plan[w][i].manifest) :
                ImageBlobs(plan[w][i].manifest)[j] = b
          BY <4>1, <4>3, <4>4, NeedsListed
        <4>6. LookedUp(w, i, j)
          BY <1>0, <4>1, <4>2 DEF BlameOf, FoundOf, LookedUp, PushTypeOK
        <4>7. b \in plan[w][i].missing
          BY <1>0, <4>2, <4>4, <4>5, <4>6 DEF BlameOf, FoundOf
        <4>8. b \in failed[w]
          BY <1>0, <4>1, <4>2, <4>4, <4>7 DEF BlameOf, MissingOf
        <4> QED
          BY <4>7, <4>8
      <3>2. c # w => stage'[w] = stage[w] /\ res'[w] = res[w]
        BY <2>1, Owners DEF Same
      <3> QED
        BY <1>0, <2>2, <3>1, <3>2 DEF BlameOf, AbsentOf, Committed
    <2> QED
      BY <1>o, <2>1, <2>2, <2>5, <2>6, <2>7
  <1>13. ASSUME UNCHANGED pushVars PROVE BlameInv'
    <2>1. ASSUME NEW v \in Pushers PROVE BlameOf(v)'
      BY <1>0, <1>13, <1>g, <1>u, <1>c, BlameKept DEF pushVars, pushLocals
    <2> QED
      BY <2>1 DEF BlameInv, BlameOf
  <1> QED
    BY <1>1, <1>2, <1>3, <1>4, <1>5, <1>6, <1>7, <1>8, <1>10, <1>11, <1>12, <1>13
       DEF PushNext, OwnStep, FaultOf, BackendCall, Fault

-----------------------------------------------------------------------------
(* The theorems.                                                            *)

\* What a pusher concluded stays true of the store.
THEOREM PushInvariance == PushSpec => []PushInv
  <1>1. PushInit => PushInv
    <2>1. PushInit => BlameInv
      BY Owners DEF PushInit, Init, BlameInv, FoundOf, MissingOf, AbsentOf
    <2> QED
      BY <2>1, InvInit, PushTypeInit DEF PushInit, PushInv
  <1>2. PushInv /\ [PushNext]_pushVars => PushInv'
    BY Simulates, InvNext, PushTypeNext, CommitNext, BlameNext DEF PushInv
  <1> QED
    BY <1>1, <1>2, PTL DEF PushSpec

\* The variables of the pushers keep their types.
THEOREM PushTypeCorrect == PushSpec => []PushTypeOK
  BY PushInvariance, PTL DEF PushInv

\* The pushers, with their plans, goroutines, cancellations and crashes, are callers as Store
\* describes them: every behaviour of Push is one of Store.
THEOREM PushRefinesStore == PushSpec => Spec
  <1>1. PushInit => Init
    BY DEF PushInit
  <1> QED
    BY <1>1, Simulates, PushTypeCorrect, PTL DEF PushSpec, Spec

\* So pushing implements ImageCatalog as well: however pushers of the same leaves overlap, fail,
\* are cancelled or die, blobs are only added and a leaf is published once, complete.
THEOREM PushImplementsCatalog == PushSpec => ImplementsCatalog
  BY PushRefinesStore, Refinement

\* Whatever the pushers do, a leaf is a complete image.
THEOREM PushedLeavesAreComplete == PushSpec => []LeafComplete
  BY PushInvariance, PTL DEF PushInv, IInv

\* When Push returns, an entry without an EntryError has its leaf, with every blob it needs.
THEOREM SilenceIsTrue == PushSpec => []SilenceMeansCommitted
  <1>1. PushInv => SilenceMeansCommitted
    <2> SUFFICES ASSUME PushInv, NEW w \in Pushers, phase[w] = "done", NEW i \in DOMAIN plan[w],
                        ~Reported(w, i)
                 PROVE  /\ index[plan[w][i].leaf] = plan[w][i].manifest
                        /\ Needs(plan[w][i].manifest) \subseteq stored
      BY DEF SilenceMeansCommitted
    <2>1. plan[w][i] \in Entry /\ i \in 1..Len(plan[w])
      BY DEF PushInv, PushTypeOK
    <2>2. i \in DOMAIN outcome[w] /\ outcome[w][i] = "ok"
      BY <2>1 DEF PushInv, CommitInv, CommitOf, Committed, PushTypeOK, Reported
    <2>3. index[plan[w][i].leaf] = plan[w][i].manifest
      BY <2>2 DEF PushInv, CommitInv, CommitOf
    <2> QED
      BY <2>1, <2>3, StoreAssumption DEF PushInv, IInv, LeafComplete, Whole, Entry
  <1> QED
    BY <1>1, PushInvariance, PTL

\* The entry that an upload's error is reported against is the first that lacks the blob.
LEMMA FirstNeedingIsFirst ==
  ASSUME PushTypeOK, NEW w \in Pushers, NEW i \in DOMAIN plan[w], NEW b \in plan[w][i].missing
  PROVE  /\ FirstNeeding(w, b) \in DOMAIN plan[w] /\ FirstNeeding(w, b) <= i
         /\ b \in plan[w][FirstNeeding(w, b)].missing
  <1> DEFINE T == {j \in DOMAIN plan[w] : b \in plan[w][j].missing}
  <1>1. DOMAIN plan[w] \subseteq Nat /\ DOMAIN plan[w] = 1..Len(plan[w]) /\ Len(plan[w]) \in Nat
    BY PlanElement DEF PushTypeOK
  <1>2. T \subseteq Nat /\ T # {}
    BY <1>1
  <1>3. PICK j \in T : \A h \in T : j <= h
    <2> HIDE DEF T
    <2> QED
      BY <1>2, LeastElement
  <1>4. \A h \in 1..(j - 1) : b \notin plan[w][h].missing
    <2> SUFFICES ASSUME NEW h \in 1..(j - 1), b \in plan[w][h].missing PROVE FALSE
      OBVIOUS
    <2>1. h \in T /\ h < j
      BY <1>1, <1>3
    <2> QED
      BY <1>1, <1>3, <2>1
  <1>5. \E h \in DOMAIN plan[w] :
          b \in plan[w][h].missing /\ \A g \in 1..(h - 1) : b \notin plan[w][g].missing
    BY <1>3, <1>4
  <1> DEFINE f == FirstNeeding(w, b)
  <1>6. /\ f \in DOMAIN plan[w] /\ b \in plan[w][f].missing
        /\ \A g \in 1..(f - 1) : b \notin plan[w][g].missing
    BY <1>5 DEF FirstNeeding
  <1>7. f <= i
    <2> HIDE DEF f
    <2>1. i \in 1..(f - 1) \/ f <= i
      BY <1>1, <1>6
    <2> QED
      BY <1>6, <2>1
  <1> QED
    BY <1>6, <1>7

\* A commit that finds a blob absent is this push's own failure: an upload of it failed, for a
\* blob that the entry lacked, and the error is reported against this entry or an earlier one.
THEOREM AbsenceIsBlamed == PushSpec => []AbsentIsBlamed
  <1>1. PushInv => AbsentIsBlamed
    <2> SUFFICES ASSUME PushInv, NEW w \in Pushers, NEW i \in DOMAIN outcome[w],
                        outcome[w][i] = "absent"
                 PROVE  \E b \in failed[w] \cap plan[w][i].missing : FirstNeeding(w, b) <= i
      BY DEF AbsentIsBlamed
    <2>1. i \in DOMAIN plan[w]
      BY PlanElement DEF PushInv, CommitInv, CommitOf, Committed, PushTypeOK
    <2>2. PICK b \in failed[w] \cap plan[w][i].missing : TRUE
      BY DEF PushInv, BlameInv, AbsentOf
    <2> QED
      BY <2>1, <2>2, FirstNeedingIsFirst DEF PushInv
  <1> QED
    BY <1>1, PushInvariance, PTL

-----------------------------------------------------------------------------
(* Progress.                                                                *)
(*                                                                          *)
(* What is ahead of a pusher, in four sets: the phases it has to enter, the *)
(* blobs Diff has to look up, the calls its uploads and its commits have to *)
(* make.  Each of its own steps takes something away from them, and nobody  *)
(* else adds to them: no pusher works for ever, whatever the others do.     *)

PhasesAhead(w) ==
  CASE phase[w] = "plan" -> {"upload", "commit", "done"}
    [] phase[w] = "upload" -> {"commit", "done"}
    [] phase[w] = "commit" -> {"done"}
    [] OTHER -> {}

LookupsAhead(w) ==
  {t \in (1..Len(plan[w])) \X Nat :
     t[2] \in 1..Len(ImageBlobs(plan[w][t[1]].manifest)) /\ ~LookedUp(w, t[1], t[2])}

\* The calls of an upload, and of a commit; the last one is the return.
PutCall(s) == CASE s = "has" -> 1 [] s = "create" -> 2 [] OTHER -> 3
CommitCall(s) ==
  CASE s = "idle" -> 0 [] s = "manifest" -> 1 [] s = "config" -> 2 [] s = "layers" -> 3
    [] s = "markers" -> 4 [] s = "layout" -> 5 [] s = "dirs" -> 6 [] s = "index" -> 7
    [] s = "compare" -> 8 [] OTHER -> 9

UploadAhead(w, b, n) ==
  \/ phase[w] = "plan"
  \/ b \in todo[w]
  \/ \E c \in Uploads(w, b) : n > PutCall(stage[c])
UploadsAhead(w) == {t \in Blobs \X (1..4) : UploadAhead(w, t[1], t[2])}

\* Call s of the commit of entry i, or, at n > 0, its n-th layer.
CommitAhead(w, i, s, n) ==
  /\ i > Committed(w)
  /\ n <= Len(Layers[plan[w][i].manifest])
  /\ i = Committed(w) + 1 =>
       \/ s > CommitCall(stage[w])
       \/ s = CommitCall(stage[w]) /\ stage[w] \in {"layers", "markers"} /\ n >= k[w]
CommitsAhead(w) ==
  {t \in (1..Len(plan[w])) \X ((1..10) \X Nat) : CommitAhead(w, t[1], t[2][1], t[2][2])}

Ahead(w) == <<PhasesAhead(w), LookupsAhead(w), UploadsAhead(w), CommitsAhead(w)>>

NothingAdded(w) ==
  /\ PhasesAhead(w)' \subseteq PhasesAhead(w)
  /\ LookupsAhead(w)' \subseteq LookupsAhead(w)
  /\ UploadsAhead(w)' \subseteq UploadsAhead(w)
  /\ CommitsAhead(w)' \subseteq CommitsAhead(w)

Advances(w) == NothingAdded(w) /\ Ahead(w)' # Ahead(w)

\* Each digest once (seen, transfer.go:199-200): no two uploads of a push are of one blob.
OnceOf(w) ==
  \A c \in Uploaders[w] : stage[c] # "idle" =>
    /\ Blob(c) \notin todo[w]
    /\ \A d \in Uploaders[w] : stage[d] # "idle" /\ Blob(d) = Blob(c) => d = c
UploadsOnce == \A w \in Pushers : OnceOf(w)

\* The uploads of w that are under way were, and nothing new is to be uploaded.
UploadsKeep(w) ==
  /\ todo'[w] \subseteq todo[w]
  /\ \A c \in Uploaders[w] : stage'[c] # "idle" => stage[c] # "idle" /\ call'[c] = call[c]

LEMMA OnceKept ==
  ASSUME NEW w \in Pushers, OnceOf(w), UploadsKeep(w)
  PROVE  OnceOf(w)'
  BY DEF OnceOf, UploadsKeep, Blob

LEMMA OnceNext == PushInv /\ UploadsOnce /\ [PushNext]_pushVars => UploadsOnce'
  <1> SUFFICES ASSUME PushInv, UploadsOnce, [PushNext]_pushVars, NEW v \in Pushers PROVE OnceOf(v)'
    BY DEF UploadsOnce
  <1>0. PushTypeOK /\ IInv /\ TypeOK /\ OnceOf(v) /\ BlameInv
    BY DEF PushInv, UploadsOnce, IInv
  <1>c. \A w \in Pushers : Goroutines(w) \subseteq Callers /\ Uploaders[w] \subseteq Goroutines(w)
    BY Owners DEF Goroutines
  <1>u. ASSUME UNCHANGED storeVars, todo'[v] \subseteq todo[v] PROVE OnceOf(v)'
    BY <1>0, <1>u, OnceKept DEF UploadsKeep, storeVars
  \* A goroutine c of w goes on, or begins.
  <1>g. ASSUME NEW w \in Pushers, NEW c \in Goroutines(w), todo'[v] \subseteq todo[v],
               Step(c) \/ Fault(c) \/ Return(c)
        PROVE  OnceOf(v)'
    <2>1. \A d \in Callers \ {c} : Same(d)
      BY <1>0, <1>g, OwnersAlone
    <2>2. stage'[c] # "idle" => stage[c] # "idle" /\ call'[c] = call[c]
      <3>1. CASE Step(c) \/ Fault(c)
        BY <1>0, <1>c, <3>1, StepStays, StepMoves DEF Moves
      <3>2. CASE Return(c)
        BY <1>0, <1>c, <3>2 DEF Return, Kill, TypeOK
      <3> QED
        BY <1>g, <3>1, <3>2
    <2> QED
      BY <1>0, <1>c, <1>g, <2>1, <2>2, OnceKept DEF UploadsKeep, Same
  <1>1. ASSUME NEW w \in Pushers, PlanPush(w) \/ Diff(w) \/ WaitUploads(w) \/ SkipCancelled(w)
                 \/ EndPush(w) \/ Cancel(w) \/ Exit(w)
        PROVE  OnceOf(v)'
    BY <1>0, <1>1, <1>u DEF PlanPush, Diff, WaitUploads, SkipCancelled, EndPush, Cancel, Exit, Reset,
       PushTypeOK
  <1>2. ASSUME NEW w \in Pushers, BeginPush(w) PROVE OnceOf(v)'
    <2>1. CASE v = w
      <3>1. \A c \in Uploaders[w] : stage[c] = "idle"
        BY <1>0, <1>2 DEF BeginPush, Enter, BlameInv, MissingOf
      <3> QED
        BY <1>2, <2>1, <3>1 DEF BeginPush, OnceOf, storeVars
    <2>2. CASE v # w
      BY <1>0, <1>2, <1>u, <2>2 DEF BeginPush, PushTypeOK
    <2> QED
      BY <2>1, <2>2
  <1>3. ASSUME NEW w \in Pushers, NEW c \in Uploaders[w], StartUpload(w, c) PROVE OnceOf(v)'
    <2>1. PICK b \in todo[w] : PutBegin(c, b) /\ todo' = [todo EXCEPT ![w] = @ \ {b}]
      BY <1>3 DEF StartUpload
    <2>2. b \in Blobs /\ c \in Callers /\ c \in Goroutines(w)
      BY <1>0, <1>c, <2>1 DEF PushTypeOK
    <2>3. /\ \A d \in Callers \ {c} : Same(d)
          /\ v # w => \A d \in Goroutines(v) : d \in Callers \ {c}
      BY <1>0, <2>1, <2>2, OwnersAlone
    <2>4. CASE v # w
      BY <1>0, <1>c, <2>1, <2>3, <2>4, OnceKept DEF UploadsKeep, Same, PushTypeOK
    <2>5. CASE v = w
      <3>1. call'[c].blob = b /\ todo'[w] = todo[w] \ {b}
        BY <1>0, <2>1, <2>2 DEF PutBegin, Begin, TypeOK, PushTypeOK
      <3>2. \A d \in Uploaders[w] \ {c} : stage'[d] = stage[d] /\ call'[d] = call[d]
        BY <1>c, <2>3 DEF Same
      <3> QED
        BY <1>0, <2>1, <2>5, <3>1, <3>2 DEF OnceOf, Blob
    <2> QED
      BY <2>4, <2>5
  <1>4. ASSUME NEW w \in Pushers, NEW c \in Uploaders[w], EndUpload(w, c) PROVE OnceOf(v)'
    BY <1>c, <1>4, <1>g DEF EndUpload
  <1>5. ASSUME NEW w \in Pushers, EndCommit(w) PROVE OnceOf(v)'
    BY <1>5, <1>g DEF EndCommit, Goroutines
  <1>6. ASSUME NEW w \in Pushers, BeginCommit(w) PROVE OnceOf(v)'
    <2>1. w \in Goroutines(w) /\ \E l, b : CommitBegin(w, l, b)
      BY <1>6 DEF BeginCommit, Goroutines
    <2>2. \A d \in Callers \ {w} : Same(d)
      BY <1>0, <2>1, OwnersAlone
    <2>3. \A c \in Uploaders[v] : c \in Callers \ {w}
      BY Owners
    <2>4. todo' = todo
      BY <1>6 DEF BeginCommit, pushLocals
    <2> QED
      BY <1>0, <2>2, <2>3, <2>4, OnceKept DEF UploadsKeep, Same
  <1>7. ASSUME NEW w \in Pushers, NEW c \in Goroutines(w),
               BackendCall(w, c) \/ (Fault(c) /\ UNCHANGED pushLocals)
        PROVE  OnceOf(v)'
    BY <1>7, <1>g DEF BackendCall, Fault, pushLocals
  <1>8. ASSUME NEW w \in Pushers, CrashPush(w) PROVE OnceOf(v)'
    <2>1. todo'[v] \subseteq todo[v]
      BY <1>0, <1>8 DEF CrashPush, Reset, PushTypeOK
    <2>2. \A c \in Callers : stage'[c] # "idle" => stage'[c] = stage[c] /\ call'[c] = call[c]
      BY <1>8 DEF CrashPush, Kill
    <2> QED
      BY <1>0, <1>c, <2>1, <2>2, OnceKept DEF UploadsKeep
  <1>9. CASE UNCHANGED pushVars
    BY <1>9, <1>u DEF pushVars, pushLocals
  <1> QED
    BY <1>1, <1>2, <1>3, <1>4, <1>5, <1>6, <1>7, <1>8, <1>9 DEF PushNext, OwnStep, FaultOf

-----------------------------------------------------------------------------
(* The calls go on.                                                         *)

LEMMA PutMoves ==
  ASSUME TypeOK, NEW c \in Callers, CallOf(c), Leaf(c) = None, Step(c) \/ Fault(c)
  PROVE  stage[c] \in {"has", "create"} /\ PutCall(stage'[c]) > PutCall(stage[c])
  <1>1. stage[c] \notin CommitStages
    BY StoreAssumption DEF CallOf
  <1>2. CASE PutStep(c)
    BY <1>2 DEF PutStep, PutHas, PutCreate, Answer, Goto, TypeOK, PutCall
  <1>3. CASE CommitStep(c)
    BY <1>1, <1>3 DEF CommitStep, ReadManifest, ReadConfig, CheckLayer, WriteMarker, WriteLayout, MakeDir,
       WriteIndex, Compare, Answer, Goto, CommitStages
  <1>4. CASE Fault(c)
    BY <1>1, <1>4 DEF Fault, Fail, LoseAnswer, Answer, CommitStages, TypeOK, PutCall
  <1> QED
    BY <1>2, <1>3, <1>4 DEF Step

LEMMA CommitMoves ==
  ASSUME TypeOK, NEW c \in Callers, CallOf(c), Found(c), Leaf(c) # None, Step(c) \/ Fault(c)
  PROVE  /\ stage[c] \in CommitStages
         /\ \/ /\ CommitCall(stage'[c]) > CommitCall(stage[c])
               /\ stage'[c] \in {"layers", "markers"} => k'[c] = 1
            \/ /\ stage[c] \in {"layers", "markers"} /\ stage'[c] = stage[c]
               /\ k[c] \in 1..Len(Layers[Blob(c)]) /\ k'[c] = k[c] + 1
  <1> USE DEF Answer, Goto, TypeOK, CommitCall, CommitStages
  <1>1. CASE PutStep(c)
    BY <1>1 DEF PutStep, PutHas, PutCreate, CallOf
  <1>2. CASE ReadManifest(c) \/ ReadConfig(c)
    BY <1>2 DEF ReadManifest, ReadConfig
  <1>3. CASE CheckLayer(c)
    <2>1. stage[c] = "layers" /\ k[c] \in Nat /\ k[c] >= 1 /\ Blob(c) \in Manifests
      BY <1>3 DEF CheckLayer, Found, AfterConfig
    <2>2. Len(Layers[Blob(c)]) \in Nat
      BY <2>1, NeedsAreBlobs
    <2> QED
      BY <1>3, <2>1, <2>2 DEF CheckLayer
  <1>4. CASE WriteMarker(c)
    <2>1. stage[c] = "markers" /\ k[c] \in Nat /\ k[c] >= 1 /\ Blob(c) \in Manifests
      BY <1>4 DEF WriteMarker, Found, AfterConfig
    <2>2. Len(Layers[Blob(c)]) \in Nat
      BY <2>1, NeedsAreBlobs
    <2> QED
      BY <1>4, <2>1, <2>2 DEF WriteMarker
  <1>5. CASE WriteLayout(c) \/ MakeDir(c) \/ WriteIndex(c) \/ Compare(c)
    BY <1>5 DEF WriteLayout, MakeDir, WriteIndex, Compare
  <1>6. CASE Fault(c)
    BY <1>6 DEF Fault, Fail, LoseAnswer, CallOf
  <1> QED
    BY <1>1, <1>2, <1>3, <1>4, <1>5, <1>6 DEF Step, CommitStep

-----------------------------------------------------------------------------
(* What a step leaves ahead.                                                *)

\* The plan of w names the same manifests.
PlanSame(w) ==
  /\ Len(plan'[w]) = Len(plan[w])
  /\ \A i \in 1..Len(plan[w]) : plan'[w][i].manifest = plan[w][i].manifest

LEMMA LookupsSame ==
  ASSUME NEW w \in Pushers, PlanSame(w), at'[w] = at[w]
  PROVE  LookupsAhead(w)' = LookupsAhead(w)
  BY DEF LookupsAhead, LookedUp, PlanSame

LEMMA UploadsFewer ==
  ASSUME NEW w \in Pushers, \A b \in Blobs : \A n \in 1..4 : UploadAhead(w, b, n)' => UploadAhead(w, b, n)
  PROVE  UploadsAhead(w)' \subseteq UploadsAhead(w)
  BY DEF UploadsAhead

LEMMA UploadsSame ==
  ASSUME NEW w \in Pushers, phase'[w] = phase[w], todo'[w] = todo[w], \A c \in Uploaders[w] : Same(c)
  PROVE  UploadsAhead(w)' \subseteq UploadsAhead(w)
  BY UploadsFewer DEF UploadAhead, Uploads, Same, Blob

LEMMA CommitsFewer ==
  ASSUME NEW w \in Pushers, PlanSame(w),
         \A i \in 1..Len(plan[w]) : \A s \in 1..10 : \A n \in Nat :
           CommitAhead(w, i, s, n)' => CommitAhead(w, i, s, n)
  PROVE  CommitsAhead(w)' \subseteq CommitsAhead(w)
  BY DEF CommitsAhead, PlanSame

LEMMA CommitsSame ==
  ASSUME NEW w \in Pushers, PlanSame(w), outcome'[w] = outcome[w], stage'[w] = stage[w], k'[w] = k[w]
  PROVE  CommitsAhead(w)' \subseteq CommitsAhead(w)
  BY CommitsFewer DEF CommitAhead, Committed, PlanSame

\* What w has ahead of it is up to w alone.
LEMMA NothingNew ==
  ASSUME NEW w \in Pushers, phase'[w] = phase[w], PlanSame(w), at'[w] = at[w], todo'[w] = todo[w],
         outcome'[w] = outcome[w], \A c \in Goroutines(w) : Same(c)
  PROVE  NothingAdded(w)
  <1>1. PhasesAhead(w)' = PhasesAhead(w)
    BY DEF PhasesAhead
  <1>2. UploadsAhead(w)' \subseteq UploadsAhead(w) /\ CommitsAhead(w)' \subseteq CommitsAhead(w)
    BY UploadsSame, CommitsSame DEF Goroutines, Same
  <1> QED
    BY <1>1, <1>2, LookupsSame DEF NothingAdded

LEMMA PlanUnchanged ==
  ASSUME PushTypeOK, NEW w \in Pushers, plan'[w] = plan[w]
  PROVE  PlanSame(w)
  BY DEF PlanSame

-----------------------------------------------------------------------------
(* The steps of w, one by one.                                              *)

LEMMA DiffAdvances ==
  ASSUME PushInv, NEW w \in Pushers, Diff(w)
  PROVE  Advances(w)
  \* i, j and all stand for their values before the step.
  <1>0. \E i, j, all : i = at[w].entry /\ j = at[w].blob /\ all = ImageBlobs(plan[w][i].manifest)
    OBVIOUS
  <1>p. PICK i, j, all : i = at[w].entry /\ j = at[w].blob /\ all = ImageBlobs(plan[w][i].manifest)
    BY <1>0, Zenon
  <1>1. /\ PlanSame(w) /\ plan' \in [Pushers -> Seq(Entry)]
        /\ i \in 1..Len(plan[w])
    BY <1>p, DiffType DEF PushInv, PlanSame
  <1>2. Len(all) \in Nat /\ j \in 1..Len(all)
    <2>1. plan[w][i].manifest \in Manifests
      <3>1. plan[w] \in Seq(Entry)
        BY DEF PushInv, PushTypeOK
      <3>2. plan[w][i] \in Entry
        BY <1>1, <3>1
      <3> QED
        BY <3>2 DEF Entry
    <2>2. Len(all) \in Nat
      BY <1>p, <2>1, ImageBlobsType
    <2> QED
      BY <1>p, <1>1, <2>2 DEF PushInv, PlanInv, PushTypeOK
  <1>3. at'[w] = IF j < Len(all) THEN [entry |-> i, blob |-> j + 1] ELSE [entry |-> i + 1, blob |-> 1]
    BY <1>p DEF Diff, PushInv, PushTypeOK
  <1>4. UNCHANGED <<storeVars, phase, todo, outcome>>
    BY DEF Diff
  <1>5. /\ LookedUp(w, i, j)' /\ ~LookedUp(w, i, j)
        /\ \A p \in Nat, q \in Nat : LookedUp(w, p, q) => LookedUp(w, p, q)' \/ (p = i /\ q > Len(all))
    BY <1>p, <1>1, <1>2, <1>3 DEF LookedUp
  <1>6. PhasesAhead(w)' = PhasesAhead(w)
    BY <1>4 DEF PhasesAhead
  <1>7. UploadsAhead(w)' \subseteq UploadsAhead(w) /\ CommitsAhead(w)' \subseteq CommitsAhead(w)
    BY <1>1, <1>4, UploadsSame, CommitsSame DEF storeVars, Same
  <1>8. LookupsAhead(w)' \subseteq LookupsAhead(w)
    <2> SUFFICES ASSUME NEW t \in LookupsAhead(w)' PROVE t \in LookupsAhead(w)
      OBVIOUS
    <2>1. /\ t \in (1..Len(plan[w])) \X Nat
          /\ t[2] \in 1..Len(ImageBlobs(plan[w][t[1]].manifest))
          /\ ~LookedUp(w, t[1], t[2])'
      BY <1>1 DEF LookupsAhead, PlanSame
    <2>2. t[1] \in Nat /\ t[2] \in Nat /\ Len(plan[w]) \in Nat
      BY <2>1 DEF PushInv, PushTypeOK
    <2>3. t[1] = i => t[2] <= Len(all)
      BY <1>p, <2>1
    <2>4. ~LookedUp(w, t[1], t[2])
      BY <1>2, <1>5, <2>1, <2>2, <2>3
    <2> QED
      BY <2>1, <2>4 DEF LookupsAhead
  <1>9. <<i, j>> \in LookupsAhead(w) /\ <<i, j>> \notin LookupsAhead(w)'
    BY <1>p, <1>1, <1>2, <1>5 DEF LookupsAhead
  <1> QED
    BY <1>6, <1>7, <1>8, <1>9 DEF Advances, NothingAdded, Ahead

LEMMA PhaseAdvances ==
  ASSUME PushInv, NEW w \in Pushers, BeginPush(w) \/ WaitUploads(w) \/ EndPush(w)
  PROVE  Advances(w)
  <1>1. /\ UNCHANGED <<storeVars, plan, at, outcome>>
        /\ \/ phase[w] = "plan" /\ phase'[w] = "upload"
           \/ phase[w] = "upload" /\ phase'[w] = "commit" /\ todo' = todo
           \/ phase[w] = "commit" /\ phase'[w] = "done" /\ todo' = todo
    BY DEF BeginPush, WaitUploads, EndPush, Enter, PushInv, PushTypeOK
  <1>2. PlanSame(w)
    BY <1>1, PlanUnchanged DEF PushInv
  <1>3. PhasesAhead(w)' \subseteq PhasesAhead(w) /\ PhasesAhead(w)' # PhasesAhead(w)
    BY <1>1 DEF PhasesAhead
  <1>4. UploadsAhead(w)' \subseteq UploadsAhead(w)
    BY <1>1, UploadsFewer DEF UploadAhead, Uploads, Blob, storeVars
  <1>5. CommitsAhead(w)' \subseteq CommitsAhead(w)
    BY <1>1, <1>2, CommitsSame DEF storeVars
  <1>6. LookupsAhead(w)' = LookupsAhead(w)
    BY <1>1, <1>2, LookupsSame
  <1> QED
    BY <1>3, <1>4, <1>5, <1>6 DEF Advances, NothingAdded, Ahead

\* A step of an uploader: only the uploads change.
LEMMA UploaderOnly ==
  ASSUME PushInv, NEW w \in Pushers, NEW c \in Uploaders[w],
         UNCHANGED <<phase, plan, at, outcome>>, \A d \in Callers \ {c} : Same(d),
         UploadsAhead(w)' \subseteq UploadsAhead(w), UploadsAhead(w)' # UploadsAhead(w)
  PROVE  Advances(w)
  <1>1. PlanSame(w)
    BY PlanUnchanged DEF PushInv
  <1>2. stage'[w] = stage[w] /\ k'[w] = k[w]
    BY Owners DEF Same
  <1>3. PhasesAhead(w)' = PhasesAhead(w)
    BY DEF PhasesAhead
  <1> QED
    BY <1>1, <1>2, <1>3, LookupsSame, CommitsSame DEF Advances, NothingAdded, Ahead

LEMMA StartAdvances ==
  ASSUME PushInv, NEW w \in Pushers, OnceOf(w), NEW c \in Uploaders[w], StartUpload(w, c)
  PROVE  Advances(w)
  <1>1. PICK b \in todo[w] : PutBegin(c, b) /\ todo' = [todo EXCEPT ![w] = @ \ {b}]
    BY DEF StartUpload
  <1>2. b \in Blobs /\ c \in Callers /\ c \in Goroutines(w) /\ IInv /\ TypeOK /\ PushTypeOK
    BY <1>1, Owners DEF Goroutines, PushInv, PushTypeOK
  <1>3. \A d \in Callers \ {c} : Same(d)
    BY <1>1, <1>2, OwnersAlone
  <1>4. /\ UNCHANGED <<phase, plan, at, outcome>> /\ phase[w] = "upload"
        /\ todo'[w] = todo[w] \ {b}
    BY <1>1, <1>2 DEF StartUpload, PushTypeOK
  <1>5. stage[c] = "idle" /\ stage'[c] = "has" /\ Blob(c)' = b
    BY <1>1, <1>2 DEF PutBegin, Begin, TypeOK, Blob
  <1>6. \A d \in Uploaders[w] : d # c => stage'[d] = stage[d] /\ Blob(d)' = Blob(d)
    BY <1>3, Owners DEF Same, Blob
  <1>7. UploadsAhead(w)' \subseteq UploadsAhead(w)
    <2> SUFFICES ASSUME NEW a \in Blobs, NEW n \in 1..4, UploadAhead(w, a, n)' PROVE UploadAhead(w, a, n)
      BY UploadsFewer
    <2>1. CASE a = b
      BY <1>1, <2>1 DEF UploadAhead
    <2>2. CASE a # b
      BY <1>4, <1>5, <1>6, <2>2 DEF UploadAhead, Uploads
    <2> QED
      BY <2>1, <2>2
  <1>8. <<b, 1>> \in UploadsAhead(w) /\ <<b, 1>> \notin UploadsAhead(w)'
    <2>1. UploadAhead(w, b, 1)
      BY <1>1 DEF UploadAhead
    <2>2. Uploads(w, b)' \subseteq {c}
      BY <1>1, <1>6 DEF Uploads, OnceOf
    <2>3. ~UploadAhead(w, b, 1)'
      BY <1>4, <1>5, <2>2 DEF UploadAhead, PutCall
    <2> QED
      BY <1>2, <2>1, <2>3 DEF UploadsAhead
  <1> QED
    BY <1>3, <1>4, <1>7, <1>8, UploaderOnly

\* The upload of goroutine c goes on, or ends.
LEMMA UploadAdvances ==
  ASSUME PushInv, NEW w \in Pushers, OnceOf(w), NEW c \in Uploaders[w],
         Step(c) \/ Fault(c) \/ Return(c), UNCHANGED <<phase, plan, at, todo, outcome>>
  PROVE  Advances(w)
  <1>1. c \in Callers /\ c \in Goroutines(w) /\ IInv /\ TypeOK /\ CallOf(c) /\ MissingOf(w)
    BY Owners DEF Goroutines, PushInv, IInv, CallerInv, BlameInv
  <1>2. \A d \in Callers \ {c} : Same(d)
    BY <1>1, OwnersAlone
  <1>3. \A d \in Uploaders[w] : d # c => stage'[d] = stage[d] /\ Blob(d)' = Blob(d)
    BY <1>2, Owners DEF Same, Blob
  <1>4. stage[c] # "idle" /\ phase[w] = "upload" /\ Leaf(c) = None
    BY <1>1, StepStays DEF Return, MissingOf
  \* b and p stand for their values before the step.
  <1>q. \E b, p : b = Blob(c) /\ p = PutCall(stage[c])
    OBVIOUS
  <1>p. PICK b, p : b = Blob(c) /\ p = PutCall(stage[c])
    BY <1>q, Zenon
  <1>5. b \notin todo[w] /\ (\A d \in Uploaders[w] : stage[d] # "idle" /\ Blob(d) = b => d = c)
    BY <1>p, <1>4 DEF OnceOf
  <1>6. b \in Blobs /\ p \in 1..3
    BY <1>p, <1>1, <1>4, PutMoves DEF CallOf, PutCall, Return
  <1>7. stage'[c] # "idle" => Blob(c)' = b /\ PutCall(stage'[c]) > p
    <2>1. CASE Step(c) \/ Fault(c)
      BY <1>p, <1>1, <1>4, <2>1, PutMoves, StepMoves DEF Moves, Blob
    <2>2. CASE Return(c)
      BY <1>1, <2>2 DEF Return, Kill
    <2> QED
      BY <2>1, <2>2
  <1>8. UploadsAhead(w)' \subseteq UploadsAhead(w)
    <2> SUFFICES ASSUME NEW a \in Blobs, NEW n \in 1..4, UploadAhead(w, a, n)' PROVE UploadAhead(w, a, n)
      BY UploadsFewer
    <2>1. CASE a \in todo[w]
      BY <2>1 DEF UploadAhead
    <2>2. CASE a \notin todo[w]
      <3>1. PICK d \in Uploaders[w] : stage'[d] # "idle" /\ Blob(d)' = a /\ n > PutCall(stage'[d])
        BY <1>4, <2>2 DEF UploadAhead, Uploads
      <3>2. stage[d] # "idle" /\ Blob(d) = a /\ n > PutCall(stage[d])
        <4>1. CASE d # c
          BY <1>3, <3>1, <4>1
        <4>2. CASE d = c
          <5>1. PutCall(stage'[c]) \in Nat
            BY DEF PutCall
          <5> QED
            BY <1>p, <1>4, <1>6, <1>7, <3>1, <4>2, <5>1
        <4> QED
          BY <4>1, <4>2
      <3> QED
        BY <3>2 DEF UploadAhead, Uploads
    <2> QED
      BY <2>1, <2>2
  <1>9. <<b, p + 1>> \in UploadsAhead(w) /\ <<b, p + 1>> \notin UploadsAhead(w)'
    <2>1. UploadAhead(w, b, p + 1)
      <3>1. c \in Uploads(w, b)
        BY <1>p, <1>4 DEF Uploads
      <3> QED
        BY <1>p, <1>6, <3>1 DEF UploadAhead
    <2>2. \A d \in Uploads(w, b)' : d = c
      BY <1>3, <1>5 DEF Uploads
    <2>3. c \in Uploads(w, b)' => ~(p + 1 > PutCall(stage'[c]))
      <3>1. PutCall(stage'[c]) \in Nat
        BY DEF PutCall
      <3> QED
        BY <1>6, <1>7, <3>1 DEF Uploads
    <2>4. ~UploadAhead(w, b, p + 1)'
      BY <1>4, <1>5, <2>2, <2>3 DEF UploadAhead
    <2> QED
      BY <1>6, <2>1, <2>4 DEF UploadsAhead
  <1> QED
    BY <1>2, <1>8, <1>9, UploaderOnly

\* A step of the commits: only the commits change.
LEMMA CommitOnly ==
  ASSUME PushInv, NEW w \in Pushers,
         UNCHANGED <<phase, plan, at, todo>>, \A d \in Callers \ {w} : Same(d),
         CommitsAhead(w)' \subseteq CommitsAhead(w), CommitsAhead(w)' # CommitsAhead(w)
  PROVE  Advances(w)
  <1>1. PlanSame(w)
    BY PlanUnchanged DEF PushInv
  <1>2. \A d \in Uploaders[w] : Same(d)
    BY Owners
  <1>3. PhasesAhead(w)' = PhasesAhead(w)
    BY DEF PhasesAhead
  <1> QED
    BY <1>1, <1>2, <1>3, LookupsSame, UploadsSame DEF Advances, NothingAdded, Ahead

\* The layers of the manifest of an entry.
LEMMA EntryLayers ==
  ASSUME PushTypeOK, NEW w \in Pushers, NEW i \in 1..Len(plan[w])
  PROVE  Len(plan[w]) \in Nat /\ Len(Layers[plan[w][i].manifest]) \in Nat
  <1>1. plan[w] \in Seq(Entry)
    BY DEF PushTypeOK
  <1>2. plan[w][i] \in Entry
    BY <1>1
  <1>3. plan[w][i].manifest \in Manifests
    BY <1>2 DEF Entry
  <1> QED
    BY <1>1, <1>3, NeedsAreBlobs

LEMMA BeginCommitAdvances ==
  ASSUME PushInv, NEW w \in Pushers, BeginCommit(w)
  PROVE  Advances(w)
  <1>1. w \in Callers /\ w \in Goroutines(w) /\ IInv /\ TypeOK /\ PushTypeOK
    BY Owners DEF Goroutines, PushInv, IInv
  <1>2. PICK l, b : CommitBegin(w, l, b)
    BY DEF BeginCommit
  <1>3. \A d \in Callers \ {w} : Same(d)
    BY <1>1, <1>2, OwnersAlone
  <1>4. /\ UNCHANGED pushLocals
        /\ stage[w] = "idle" /\ stage'[w] = "manifest"
    BY <1>1, <1>2 DEF BeginCommit, CommitBegin, Begin, TypeOK
  <1>5. PICK i \in 1..Len(plan[w]) : i = Committed(w) + 1
    BY <1>1 DEF BeginCommit, Committed, PushTypeOK
  <1>6. Committed(w) \in Nat /\ Committed(w)' = Committed(w) /\ PlanSame(w)
    BY <1>1, <1>4, PlanUnchanged DEF Committed, PushTypeOK, pushLocals
  <1>7. CommitCall(stage[w]) = 0 /\ CommitCall(stage'[w]) = 1 /\ stage'[w] \notin {"layers", "markers"}
    BY <1>4 DEF CommitCall
  <1>8. CommitsAhead(w)' \subseteq CommitsAhead(w)
    <2>1. \A j \in 1..Len(plan[w]) : \A s \in 1..10 : \A n \in Nat :
            CommitAhead(w, j, s, n)' => CommitAhead(w, j, s, n)
      BY <1>4, <1>6, <1>7 DEF CommitAhead, PlanSame
    <2> QED
      BY <1>6, <2>1, CommitsFewer
  <1>9. <<i, <<1, 0>>>> \in CommitsAhead(w) /\ <<i, <<1, 0>>>> \notin CommitsAhead(w)'
    <2>1. CommitAhead(w, i, 1, 0)
      BY <1>1, <1>5, <1>6, <1>7, EntryLayers DEF CommitAhead
    <2>2. ~CommitAhead(w, i, 1, 0)'
      BY <1>4, <1>5, <1>6, <1>7 DEF CommitAhead
    <2> QED
      BY <2>1, <2>2 DEF CommitsAhead
  <1> QED
    BY <1>3, <1>4, <1>8, <1>9, CommitOnly DEF pushLocals

\* The commit of the next entry is over, or skipped.
LEMMA ConcludeAdvances ==
  ASSUME PushInv, NEW w \in Pushers, EndCommit(w) \/ SkipCancelled(w)
  PROVE  Advances(w)
  <1>1. w \in Callers /\ w \in Goroutines(w) /\ IInv /\ TypeOK /\ PushTypeOK /\ CommitOf(w)
    BY Owners DEF Goroutines, PushInv, IInv, CommitInv
  <1>2. \A d \in Callers \ {w} : Same(d)
    <2>1. CASE EndCommit(w)
      BY <1>1, <2>1, OwnersAlone DEF EndCommit
    <2>2. CASE SkipCancelled(w)
      BY <2>2 DEF SkipCancelled, storeVars, Same
    <2> QED
      BY <2>1, <2>2
  <1>3. /\ UNCHANGED <<phase, plan, at, todo>>
        /\ stage[w] \in {"idle", "done"} /\ stage'[w] = "idle"
    BY <1>1 DEF EndCommit, SkipCancelled, Return, Kill, storeVars
  <1>4. PICK i \in 1..Len(plan[w]) : i = Committed(w) + 1
    <2>1. Committed(w) < Len(plan[w])
      BY <1>1 DEF EndCommit, SkipCancelled, Return, CommitOf
    <2> QED
      BY <1>1, <2>1 DEF Committed, PushTypeOK
  <1>5. Committed(w) \in Nat /\ Committed(w)' = Committed(w) + 1 /\ PlanSame(w)
    <2>1. \E r : outcome'[w] = Append(outcome[w], r)
      BY <1>1 DEF EndCommit, SkipCancelled, Conclude, PushTypeOK
    <2>2. outcome[w] \in Seq((Answers \ {"none"}) \cup {"cancelled"})
      BY <1>1 DEF PushTypeOK
    <2> QED
      BY <1>1, <1>3, <2>1, <2>2, PlanUnchanged DEF Committed
  <1>6. CommitCall(stage[w]) < 10 /\ CommitCall(stage'[w]) = 0 /\ stage[w] \notin {"layers", "markers"}
        /\ CommitCall(stage[w]) \in Nat
    BY <1>3 DEF CommitCall
  <1>7. CommitsAhead(w)' \subseteq CommitsAhead(w)
    <2>1. \A j \in 1..Len(plan[w]) : \A s \in 1..10 : \A n \in Nat :
            CommitAhead(w, j, s, n)' => CommitAhead(w, j, s, n)
      BY <1>1, <1>3, <1>5, <1>6, EntryLayers DEF CommitAhead, PlanSame
    <2> QED
      BY <1>5, <2>1, CommitsFewer
  <1>8. <<i, <<10, 0>>>> \in CommitsAhead(w) /\ <<i, <<10, 0>>>> \notin CommitsAhead(w)'
    <2>1. CommitAhead(w, i, 10, 0)
      BY <1>1, <1>4, <1>5, <1>6, EntryLayers DEF CommitAhead
    <2>2. ~CommitAhead(w, i, 10, 0)'
      BY <1>4, <1>5 DEF CommitAhead
    <2> QED
      BY <2>1, <2>2 DEF CommitsAhead
  <1> QED
    BY <1>2, <1>3, <1>7, <1>8, CommitOnly

LEMMA CommitAdvances ==
  ASSUME PushInv, NEW w \in Pushers, Step(w) \/ Fault(w), UNCHANGED pushLocals
  PROVE  Advances(w)
  <1>1. w \in Callers /\ w \in Goroutines(w) /\ IInv /\ TypeOK /\ PushTypeOK /\ CommitOf(w)
        /\ CallOf(w) /\ Found(w)
    BY Owners DEF Goroutines, PushInv, IInv, CommitInv, CallerInv
  <1>2. \A d \in Callers \ {w} : Same(d)
    BY <1>1, OwnersAlone
  <1>3. stage[w] # "idle" /\ UNCHANGED <<phase, plan, at, todo, outcome>>
    BY <1>1, StepStays DEF pushLocals
  <1>4. PICK i \in 1..Len(plan[w]) : i = Committed(w) + 1
    BY <1>1, <1>3 DEF CommitOf, Committed, PushTypeOK
  <1>5. Committed(w) \in Nat /\ Committed(w)' = Committed(w) /\ PlanSame(w)
    BY <1>1, <1>3, PlanUnchanged DEF Committed, PushTypeOK
  <1>6. Leaf(w) # None /\ Blob(w) = plan[w][i].manifest
    <2>1. plan[w] \in Seq(Entry)
      BY <1>1 DEF PushTypeOK
    <2>2. plan[w][i] \in Entry
      BY <2>1
    <2> QED
      BY <1>1, <1>3, <1>4, <2>2, StoreAssumption DEF CommitOf, Entry
  <1>7. /\ CommitCall(stage[w]) \in 1..8 /\ CommitCall(stage'[w]) \in 0..9
        /\ \/ /\ CommitCall(stage'[w]) > CommitCall(stage[w])
              /\ stage'[w] \in {"layers", "markers"} => k'[w] = 1
           \/ /\ stage[w] \in {"layers", "markers"} /\ stage'[w] = stage[w]
              /\ k[w] \in 1..Len(Layers[plan[w][i].manifest]) /\ k'[w] = k[w] + 1
    <2>1. stage[w] \in CommitStages
      BY <1>1, <1>6, CommitMoves
    <2>2. CommitCall(stage[w]) \in 1..8 /\ CommitCall(stage'[w]) \in 0..9
      BY <2>1 DEF CommitCall, CommitStages
    <2> QED
      BY <1>1, <1>6, <2>2, CommitMoves
  <1> DEFINE old == CommitCall(stage[w])
             new == CommitCall(stage'[w])
  <1>8. CommitsAhead(w)' \subseteq CommitsAhead(w)
    <2>1. ASSUME NEW j \in 1..Len(plan[w]), NEW s \in 1..10, NEW n \in Nat, CommitAhead(w, j, s, n)'
          PROVE  CommitAhead(w, j, s, n)
      <3>1. /\ j > Committed(w) /\ n <= Len(Layers[plan[w][j].manifest])
            /\ j = Committed(w) + 1 =>
                 s > new \/ (s = new /\ stage'[w] \in {"layers", "markers"} /\ n >= k'[w])
        BY <1>5, <2>1 DEF CommitAhead, PlanSame
      <3>2. s > new \/ (s = new /\ stage'[w] \in {"layers", "markers"} /\ n >= k'[w])
              => s > old \/ (s = old /\ stage[w] \in {"layers", "markers"} /\ n >= k[w])
        <4> HIDE DEF old, new
        <4>1. CASE new > old
          BY <1>7, <4>1 DEF old, new
        <4>2. CASE ~(new > old)
          BY <1>7, <4>2 DEF old, new
        <4> QED
          BY <4>1, <4>2
      <3> QED
        BY <3>1, <3>2 DEF CommitAhead
    <2> QED
      BY <1>5, <2>1, CommitsFewer
  <1>9. CommitsAhead(w)' # CommitsAhead(w)
    <2>1. CASE stage[w] \in {"layers", "markers"} /\ stage'[w] = stage[w]
      <3>1. PICK s \in 1..8, n \in 1..Len(Layers[plan[w][i].manifest]) : s = old /\ n = k[w] /\ k'[w] = n + 1
        BY <1>7, <2>1
      <3>2. n \in Nat /\ n <= Len(Layers[plan[w][i].manifest])
        BY <1>1, EntryLayers
      <3>3. CommitAhead(w, i, s, n)
        BY <1>4, <1>5, <2>1, <3>1, <3>2 DEF CommitAhead
      <3>4. ~CommitAhead(w, i, s, n)'
        BY <1>4, <1>5, <2>1, <3>1, <3>2 DEF CommitAhead
      <3>5. <<i, <<s, n>>>> \in CommitsAhead(w) /\ <<i, <<s, n>>>> \notin CommitsAhead(w)'
        BY <3>2, <3>3, <3>4 DEF CommitsAhead
      <3> QED
        BY <3>5
    <2>2. CASE ~(stage[w] \in {"layers", "markers"} /\ stage'[w] = stage[w])
      <3>1. PICK s \in 1..10 : s = new /\ s > old
        BY <1>7, <2>2
      <3>2. CommitAhead(w, i, s, 0)
        BY <1>1, <1>4, <1>5, <3>1, EntryLayers DEF CommitAhead
      <3>3. ~CommitAhead(w, i, s, 0)'
        <4>1. ~(s > new) /\ (stage'[w] \in {"layers", "markers"} => ~(0 >= k'[w]))
          BY <1>7, <2>2, <3>1
        <4> QED
          BY <1>4, <1>5, <4>1 DEF CommitAhead
      <3>4. <<i, <<s, 0>>>> \in CommitsAhead(w) /\ <<i, <<s, 0>>>> \notin CommitsAhead(w)'
        BY <3>2, <3>3 DEF CommitsAhead
      <3> QED
        BY <3>4
    <2> QED
      BY <2>1, <2>2
  <1> QED
    BY <1>2, <1>3, <1>8, <1>9, CommitOnly

LEMMA OwnAdvances ==
  ASSUME PushInv, UploadsOnce, NEW w \in Pushers, OwnStep(w) \/ FaultOf(w)
  PROVE  Advances(w)
  <1>0. OnceOf(w)
    BY DEF UploadsOnce
  <1>1. CASE Diff(w) \/ BeginPush(w) \/ WaitUploads(w) \/ EndPush(w)
    BY <1>1, DiffAdvances, PhaseAdvances
  <1>2. CASE BeginCommit(w) \/ EndCommit(w) \/ SkipCancelled(w)
    BY <1>2, BeginCommitAdvances, ConcludeAdvances
  <1>3. ASSUME NEW c \in Uploaders[w], StartUpload(w, c) \/ EndUpload(w, c) PROVE Advances(w)
    BY <1>0, <1>3, StartAdvances, UploadAdvances DEF EndUpload
  <1>4. ASSUME NEW c \in Goroutines(w), BackendCall(w, c) \/ (Fault(c) /\ UNCHANGED pushLocals)
        PROVE  Advances(w)
    <2>1. (Step(c) \/ Fault(c)) /\ UNCHANGED pushLocals
      BY <1>4 DEF BackendCall, Fault
    <2> QED
      BY <1>0, <2>1, UploadAdvances, CommitAdvances DEF Goroutines, pushLocals
  <1> QED
    BY <1>1, <1>2, <1>3, <1>4 DEF OwnStep, FaultOf

\* A step of another pusher, or one that w does not make by itself.
LEMMA OthersAddNothing ==
  ASSUME PushInv, UploadsOnce, [PushNext]_pushVars, NEW w \in Pushers,
         phase[w] # "idle", phase'[w] # "idle"
  PROVE  NothingAdded(w)
  <1>0. PushTypeOK /\ IInv
    BY DEF PushInv
  \* The locals of w and its goroutines' calls are as they were.
  <1>k. ASSUME phase'[w] = phase[w], plan'[w] = plan[w], at'[w] = at[w], todo'[w] = todo[w],
               outcome'[w] = outcome[w], \A c \in Goroutines(w) : Same(c)
        PROVE  NothingAdded(w)
    BY <1>0, <1>k, NothingNew, PlanUnchanged
  <1>u. UNCHANGED storeVars => \A c \in Goroutines(w) : Same(c)
    BY DEF storeVars, Same
  <1>1. CASE OwnStep(w) \/ FaultOf(w)
    BY <1>1, OwnAdvances DEF Advances
  <1>2. CASE PlanPush(w) \/ Exit(w) \/ CrashPush(w)
    BY <1>0, <1>2 DEF PlanPush, Enter, Exit, CrashPush, Reset, PushTypeOK
  <1>3. CASE Cancel(w)
    BY <1>3, <1>k, <1>u DEF Cancel
  <1>4. CASE UNCHANGED pushVars
    BY <1>4, <1>k, <1>u DEF pushVars, pushLocals
  <1>5. ASSUME NEW v \in Pushers \ {w},
               PlanPush(v) \/ OwnStep(v) \/ FaultOf(v) \/ Cancel(v) \/ Exit(v) \/ CrashPush(v)
        PROVE  NothingAdded(w)
    <2> DEFINE Locals == /\ phase'[w] = phase[w] /\ plan'[w] = plan[w] /\ at'[w] = at[w]
                         /\ todo'[w] = todo[w] /\ outcome'[w] = outcome[w]
    <2>1. CASE PlanPush(v) \/ Diff(v)
      <3>1. CASE PlanPush(v)
        BY <1>0, <1>k, <1>u, <3>1, PlanType DEF PlanPush, Enter, PushTypeOK, PushInv
      <3>2. CASE Diff(v)
        BY <1>0, <1>k, <1>u, <3>2, DiffType DEF Diff, PushInv
      <3> QED
        BY <2>1, <3>1, <3>2
    <2>2. CASE BeginPush(v) \/ WaitUploads(v) \/ EndPush(v) \/ Cancel(v) \/ SkipCancelled(v) \/ Exit(v)
      BY <1>0, <1>k, <1>u, <2>2 DEF BeginPush, WaitUploads, EndPush, Cancel, SkipCancelled, Conclude,
         Exit, Reset, Enter, PushTypeOK
    <2>3. ASSUME NEW c \in Uploaders[v], StartUpload(v, c) \/ EndUpload(v, c) PROVE NothingAdded(w)
      <3>1. Locals
        BY <1>0, <2>3 DEF StartUpload, EndUpload, PushTypeOK
      <3>2. c \in Goroutines(v) /\ (Return(c) \/ \E b \in Blobs : PutBegin(c, b))
        BY <1>0, <2>3 DEF StartUpload, EndUpload, PushTypeOK, Goroutines
      <3> QED
        BY <1>0, <1>k, <3>1, <3>2, OwnersAlone
    <2>4. CASE BeginCommit(v) \/ EndCommit(v)
      <3>1. Locals
        BY <1>0, <2>4 DEF BeginCommit, EndCommit, Conclude, PushTypeOK, pushLocals
      <3>2. v \in Goroutines(v) /\ (Return(v) \/ \E l, b : CommitBegin(v, l, b))
        BY <2>4 DEF BeginCommit, EndCommit, Goroutines
      <3> QED
        BY <1>0, <1>k, <3>1, <3>2, OwnersAlone
    <2>5. ASSUME NEW c \in Goroutines(v), BackendCall(v, c) \/ (Fault(c) /\ UNCHANGED pushLocals)
          PROVE  NothingAdded(w)
      <3>1. Locals /\ (Step(c) \/ Fault(c))
        BY <2>5 DEF BackendCall, Fault, pushLocals
      <3> QED
        BY <1>0, <1>k, <3>1, OwnersAlone
    <2>6. CASE CrashPush(v)
      <3>1. \A c \in Goroutines(w) : c \in Callers /\ c \notin Goroutines(v)
        BY Owners, PushAssumption DEF Goroutines
      <3>2. \A c \in Goroutines(w) : Same(c)
        BY <2>6, <3>1 DEF CrashPush, Kill, Same
      <3> QED
        BY <1>0, <1>k, <2>6, <3>2 DEF CrashPush, Reset, PushTypeOK
    <2> QED
      BY <1>5, <2>1, <2>2, <2>3, <2>4, <2>5, <2>6 DEF OwnStep, FaultOf
  <1> QED
    BY <1>1, <1>2, <1>3, <1>4, <1>5 DEF PushNext

-----------------------------------------------------------------------------
(* What is ahead is finite, so it can be counted.                           *)

LEMMA IntervalFinite == \A m, n \in Nat : IsFiniteSet(m..n)
  <1>1. Nat \subseteq Int
    OBVIOUS
  <1> QED
    BY <1>1, FS_Interval, Zenon

\* Finitely many finite sets, side by side.
LEMMA FamilyFinite ==
  ASSUME NEW n \in Nat, NEW G, \A i \in 1..n : IsFiniteSet(G[i]),
         NEW T, \A t \in T : \E i \in 1..n : \E x \in G[i] : t = <<i, x>>
  PROVE  IsFiniteSet(T)
  <1> DEFINE H == [i \in 1..n |-> {i} \X G[i]]
             R == {H[i] : i \in 1..n}
  <1>1. IsFiniteSet(1..n)
    BY IntervalFinite
  <1>2. H \in Surjection(1..n, R)
    BY DEF Surjection
  <1>3. IsFiniteSet(R)
    BY <1>1, <1>2, FS_Surjection
  <1>4. ASSUME NEW i \in 1..n PROVE IsFiniteSet(H[i])
    <2>1. IsFiniteSet({i})
      BY FS_Singleton
    <2> QED
      BY <1>4, <2>1, FS_Product
  <1>5. IsFiniteSet(UNION R)
    BY <1>3, <1>4, FS_UNION
  <1>6. T \in SUBSET UNION R
    <2> SUFFICES ASSUME NEW t \in T PROVE t \in UNION R
      OBVIOUS
    <2>1. PICK i \in 1..n : \E x \in G[i] : t = <<i, x>>
      OBVIOUS
    <2>2. t \in H[i] /\ H[i] \in R
      BY <2>1
    <2> QED
      BY <2>2
  <1> QED
    BY <1>5, <1>6, FS_Subset

LEMMA AheadIsFinite ==
  ASSUME IsFiniteSet(Blobs), PushTypeOK, NEW w \in Pushers
  PROVE  /\ IsFiniteSet(PhasesAhead(w)) /\ IsFiniteSet(LookupsAhead(w))
         /\ IsFiniteSet(UploadsAhead(w)) /\ IsFiniteSet(CommitsAhead(w))
  <1>1. Len(plan[w]) \in Nat /\ \A i \in 1..Len(plan[w]) :
          /\ Len(ImageBlobs(plan[w][i].manifest)) \in Nat
          /\ Len(Layers[plan[w][i].manifest]) \in Nat
    <2>1. plan[w] \in Seq(Entry)
      BY DEF PushTypeOK
    <2>2. ASSUME NEW i \in 1..Len(plan[w]) PROVE plan[w][i].manifest \in Manifests
      <3>1. plan[w][i] \in Entry
        BY <2>1
      <3> QED
        BY <3>1 DEF Entry
    <2> QED
      BY <2>1, <2>2, ImageBlobsType, NeedsAreBlobs
  <1>2. IsFiniteSet(PhasesAhead(w))
    <2>1. IsFiniteSet({"upload", "commit", "done"})
      <3>1. IsFiniteSet({"upload"}) /\ IsFiniteSet({"commit"}) /\ IsFiniteSet({"done"})
        BY FS_Singleton
      <3>2. IsFiniteSet({"upload"} \cup {"commit"})
        BY <3>1, FS_Union
      <3>3. IsFiniteSet(({"upload"} \cup {"commit"}) \cup {"done"})
        BY <3>1, <3>2, FS_Union
      <3>4. {"upload", "commit", "done"} = ({"upload"} \cup {"commit"}) \cup {"done"}
        OBVIOUS
      <3> QED
        BY <3>3, <3>4
    <2>2. PhasesAhead(w) \in SUBSET {"upload", "commit", "done"}
      BY DEF PhasesAhead
    <2> QED
      BY <2>1, <2>2, FS_Subset
  <1>3. IsFiniteSet(LookupsAhead(w))
    <2>0. \E G : G = [i \in 1..Len(plan[w]) |-> 1..Len(ImageBlobs(plan[w][i].manifest))]
      OBVIOUS
    <2>p. PICK G : G = [i \in 1..Len(plan[w]) |-> 1..Len(ImageBlobs(plan[w][i].manifest))]
      BY <2>0, Zenon
    <2>1. \A i \in 1..Len(plan[w]) : IsFiniteSet(G[i])
      BY <2>p, <1>1, IntervalFinite
    <2>2. \A t \in LookupsAhead(w) : \E i \in 1..Len(plan[w]) : \E x \in G[i] : t = <<i, x>>
      BY <2>p DEF LookupsAhead
    <2>3. /\ \A i \in 1..Len(plan[w]) : IsFiniteSet(G[i])
          /\ \A t \in LookupsAhead(w) : \E i \in 1..Len(plan[w]) : \E x \in G[i] : t = <<i, x>>
      BY <2>1, <2>2
    <2>4. Len(plan[w]) \in Nat
      BY <1>1
    <2>5. \A n \in Nat : \A H, T :
            /\ \A i \in 1..n : IsFiniteSet(H[i])
            /\ \A t \in T : \E i \in 1..n : \E x \in H[i] : t = <<i, x>>
            => IsFiniteSet(T)
      BY FamilyFinite
    <2>6. \A H, T :
            /\ \A i \in 1..Len(plan[w]) : IsFiniteSet(H[i])
            /\ \A t \in T : \E i \in 1..Len(plan[w]) : \E x \in H[i] : t = <<i, x>>
            => IsFiniteSet(T)
      BY <2>4, <2>5, Zenon
    <2>7. \A T :
            (\A t \in T : \E i \in 1..Len(plan[w]) : \E x \in G[i] : t = <<i, x>>)
            => IsFiniteSet(T)
      BY <2>3, <2>6, Zenon
    <2> QED
      BY <2>3, <2>7, Zenon
  <1>4. IsFiniteSet(UploadsAhead(w))
    <2>1. IsFiniteSet(1..4)
      BY IntervalFinite
    <2>2. IsFiniteSet(Blobs \X (1..4))
      BY <2>1, FS_Product
    <2>3. UploadsAhead(w) \in SUBSET (Blobs \X (1..4))
      BY DEF UploadsAhead
    <2> QED
      BY <2>2, <2>3, FS_Subset
  <1>5. IsFiniteSet(CommitsAhead(w))
    <2>0. \E G : G = [i \in 1..Len(plan[w]) |-> (1..10) \X (0..Len(Layers[plan[w][i].manifest]))]
      OBVIOUS
    <2>p. PICK G : G = [i \in 1..Len(plan[w]) |-> (1..10) \X (0..Len(Layers[plan[w][i].manifest]))]
      BY <2>0, Zenon
    <2>1. ASSUME NEW i \in 1..Len(plan[w]) PROVE IsFiniteSet(G[i])
      <3>1. IsFiniteSet(1..10) /\ IsFiniteSet(0..Len(Layers[plan[w][i].manifest]))
        BY <1>1, IntervalFinite
      <3> QED
        BY <2>p, <3>1, FS_Product
    <2>2. ASSUME NEW t \in CommitsAhead(w)
          PROVE  \E i \in 1..Len(plan[w]) : \E x \in G[i] : t = <<i, x>>
      <3>1. t[1] \in 1..Len(plan[w]) /\ t[2][1] \in 1..10 /\ t[2][2] \in Nat
            /\ t[2][2] <= Len(Layers[plan[w][t[1]].manifest])
            /\ t = <<t[1], t[2]>> /\ t[2] = <<t[2][1], t[2][2]>>
        BY DEF CommitsAhead, CommitAhead
      <3>2. t[2][2] \in 0..Len(Layers[plan[w][t[1]].manifest])
        BY <1>1, <3>1
      <3>3. t[2] \in G[t[1]]
        BY <2>p, <3>1, <3>2
      <3> QED
        BY <3>1, <3>3
    <2>3. /\ \A i \in 1..Len(plan[w]) : IsFiniteSet(G[i])
          /\ \A t \in CommitsAhead(w) : \E i \in 1..Len(plan[w]) : \E x \in G[i] : t = <<i, x>>
      BY <2>1, <2>2
    <2>4. Len(plan[w]) \in Nat
      BY <1>1
    <2>5. \A n \in Nat : \A H, T :
            /\ \A i \in 1..n : IsFiniteSet(H[i])
            /\ \A t \in T : \E i \in 1..n : \E x \in H[i] : t = <<i, x>>
            => IsFiniteSet(T)
      BY FamilyFinite
    <2>6. \A H, T :
            /\ \A i \in 1..Len(plan[w]) : IsFiniteSet(H[i])
            /\ \A t \in T : \E i \in 1..Len(plan[w]) : \E x \in H[i] : t = <<i, x>>
            => IsFiniteSet(T)
      BY <2>4, <2>5, Zenon
    <2>7. \A T :
            (\A t \in T : \E i \in 1..Len(plan[w]) : \E x \in G[i] : t = <<i, x>>)
            => IsFiniteSet(T)
      BY <2>3, <2>6, Zenon
    <2> QED
      BY <2>3, <2>7, Zenon
  <1> QED
    BY <1>2, <1>3, <1>4, <1>5

\* The number of things ahead of w.
Left(w) == Cardinality(PhasesAhead(w)) + Cardinality(LookupsAhead(w))
             + Cardinality(UploadsAhead(w)) + Cardinality(CommitsAhead(w))

LEMMA SmallerCount ==
  ASSUME NEW S, IsFiniteSet(S), NEW T \in SUBSET S
  PROVE  /\ Cardinality(S) \in Nat /\ Cardinality(T) \in Nat /\ Cardinality(T) <= Cardinality(S)
         /\ T # S => Cardinality(T) < Cardinality(S)
  <1>1. IsFiniteSet(T) /\ Cardinality(T) <= Cardinality(S) /\ (Cardinality(S) = Cardinality(T) => S = T)
    BY FS_Subset
  <1>2. Cardinality(S) \in Nat /\ Cardinality(T) \in Nat
    BY <1>1, FS_CardinalityType
  <1> QED
    BY <1>1, <1>2

LEMMA LeftFalls ==
  ASSUME IsFiniteSet(Blobs), PushTypeOK, NEW w \in Pushers, NothingAdded(w)
  PROVE  /\ Left(w) \in Nat /\ Left(w)' \in Nat /\ Left(w)' <= Left(w)
         /\ Advances(w) => Left(w)' < Left(w)
  <1> DEFINE Smaller(T, S) ==
               /\ Cardinality(S) \in Nat /\ Cardinality(T) \in Nat /\ Cardinality(T) <= Cardinality(S)
               /\ T # S => Cardinality(T) < Cardinality(S)
  <1>1. Smaller(PhasesAhead(w)', PhasesAhead(w))
    BY AheadIsFinite, SmallerCount DEF NothingAdded
  <1>2. Smaller(LookupsAhead(w)', LookupsAhead(w))
    BY AheadIsFinite, SmallerCount DEF NothingAdded
  <1>3. Smaller(UploadsAhead(w)', UploadsAhead(w))
    BY AheadIsFinite, SmallerCount DEF NothingAdded
  <1>4. Smaller(CommitsAhead(w)', CommitsAhead(w))
    BY AheadIsFinite, SmallerCount DEF NothingAdded
  <1> QED
    BY <1>1, <1>2, <1>3, <1>4 DEF Left, Advances, Ahead

\* Each digest is uploaded once (seen, transfer.go:199-200): no blob is in two uploads of a push,
\* or in one and in the list of those still to start.
THEOREM UploadsAreOnce == PushSpec => []UploadsOnce
  <1>1. PushInit => UploadsOnce
    BY Owners DEF PushInit, Init, UploadsOnce, OnceOf
  <1>2. PushInv /\ UploadsOnce /\ [PushNext]_pushVars => UploadsOnce'
    BY OnceNext
  <1> QED
    BY <1>1, <1>2, PushInvariance, PTL DEF PushSpec

\* No pusher works for ever: what is left of a push is a natural number that each of its own
\* steps lowers, a failing one too, and that no other process raises, whatever it writes to the
\* store meanwhile.  There are finitely many digests.
THEOREM PushesRunDown ==
  ASSUME IsFiniteSet(Blobs)
  PROVE  PushSpec => [][\A w \in Pushers :
           /\ Left(w) \in Nat
           /\ OwnStep(w) \/ FaultOf(w) => Left(w)' < Left(w)
           /\ phase[w] # "idle" /\ phase'[w] # "idle" => Left(w)' <= Left(w)]_pushVars
  <1>1. PushInv /\ UploadsOnce /\ [PushNext]_pushVars =>
          \A w \in Pushers :
           /\ Left(w) \in Nat
           /\ OwnStep(w) \/ FaultOf(w) => Left(w)' < Left(w)
           /\ phase[w] # "idle" /\ phase'[w] # "idle" => Left(w)' <= Left(w)
    <2> SUFFICES ASSUME PushInv, UploadsOnce, [PushNext]_pushVars, NEW w \in Pushers
                 PROVE  /\ Left(w) \in Nat
                        /\ OwnStep(w) \/ FaultOf(w) => Left(w)' < Left(w)
                        /\ phase[w] # "idle" /\ phase'[w] # "idle" => Left(w)' <= Left(w)
      OBVIOUS
    <2>1. PushTypeOK
      BY DEF PushInv
    <2>2. Left(w) \in Nat
      BY <2>1, AheadIsFinite, FS_CardinalityType DEF Left
    <2>3. OwnStep(w) \/ FaultOf(w) => Left(w)' < Left(w)
      BY <2>1, OwnAdvances, LeftFalls DEF Advances
    <2>4. phase[w] # "idle" /\ phase'[w] # "idle" => Left(w)' <= Left(w)
      BY <2>1, OthersAddNothing, LeftFalls
    <2> QED
      BY <2>2, <2>3, <2>4
  <1> QED
    BY <1>1, PushInvariance, UploadsAreOnce, PTL DEF PushSpec
=============================================================================
