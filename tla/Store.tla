-------------------------------- MODULE Store --------------------------------
(***************************************************************************)
(* Package store on a backend that creates an entry only when it is absent *)
(* (ocidir/fsdir, ocidir/s3dir): callers of any number of processes run    *)
(* PutBlob and Commit concurrently; each step below is one backend call.   *)
(*                                                                         *)
(* Blobs are names: Create verifies the content against the digest before  *)
(* the entry appears, so an entry at a blob's path has the blob's content. *)
(* A source that cannot deliver it is a call that fails.                   *)
(***************************************************************************)
EXTENDS Naturals, Sequences

CONSTANTS
  Callers,      \* goroutines that call the store
  Blobs,        \* digests
  Manifests,    \* those that name a single-platform image manifest
  Leaves,       \* leaf directories, one per reference and platform
  DiffIds,
  None,
  Layers,       \* Layers[m], ConfigOf[m]: what manifest m refers to
  ConfigOf,
  DiffIdsOf,    \* DiffIdsOf[m]: the diffIDs in m's config
  Foreign,      \* manifests with a non-distributable layer
  Fits,         \* <<l, m>> when the platform of l matches m's config
  HasDirs       \* the backend is a DirMaker (fsdir; s3dir is not)

ASSUME StoreAssumption ==
  /\ Manifests \subseteq Blobs
  /\ Layers \in [Manifests -> Seq(Blobs)]
  /\ ConfigOf \in [Manifests -> Blobs]
  /\ DiffIdsOf \in [Manifests -> Seq(DiffIds)]
  /\ None \notin Blobs \cup Leaves
  /\ HasDirs \in BOOLEAN

VARIABLES
  stored,       \* shared/blobs
  markers,      \* diff_ids: pairs <<diffID, blob>>
  layout,       \* leaves with an oci-layout
  dirs,         \* leaves with an empty blobs/
  index,        \* index[l]: the manifest that l's index.json points at, or None
  call,         \* call[c]: the leaf (None for PutBlob) and the blob of c's call
  stage,        \* stage[c]: the backend call c makes next
  k,            \* k[c]: the layer Commit is at
  res           \* res[c]: the answer, at stage "done"

tree == <<stored, markers, layout, dirs, index>>
storeVars == <<tree, call, stage, k, res>>

NoCall == [leaf |-> None, blob |-> None]

CommitStages == {"manifest", "config", "layers", "markers", "layout", "dirs",
                 "index", "compare"}
Stages == {"idle", "has", "create", "done"} \cup CommitStages
Answers == {"none", "ok", "absent", "refused", "conflict", "error"}

TypeOK ==
  /\ stored \subseteq Blobs
  /\ markers \subseteq DiffIds \X Blobs
  /\ layout \subseteq Leaves
  /\ dirs \subseteq Leaves
  /\ index \in [Leaves -> Blobs \cup {None}]
  /\ call \in [Callers -> [leaf : Leaves \cup {None}, blob : Blobs \cup {None}]]
  /\ stage \in [Callers -> Stages]
  /\ k \in [Callers -> Nat]
  /\ res \in [Callers -> Answers]

Init ==
  /\ stored = {}
  /\ markers = {}
  /\ layout = {}
  /\ dirs = {}
  /\ index = [l \in Leaves |-> None]
  /\ call = [c \in Callers |-> NoCall]
  /\ stage = [c \in Callers |-> "idle"]
  /\ k = [c \in Callers |-> 0]
  /\ res = [c \in Callers |-> "none"]

\* What an image of manifest m consists of.
Needs(m) == {m, ConfigOf[m]} \cup {Layers[m][i] : i \in DOMAIN Layers[m]}
MarkersOf(m) == {<<DiffIdsOf[m][i], Layers[m][i]>> : i \in DOMAIN Layers[m]}

Leaf(c) == call[c].leaf
Blob(c) == call[c].blob

Begin(c, l, b, to) ==
  /\ stage[c] = "idle"
  /\ call' = [call EXCEPT ![c] = [leaf |-> l, blob |-> b]]
  /\ stage' = [stage EXCEPT ![c] = to]
  /\ UNCHANGED <<tree, k, res>>

Goto(c, from, to) ==
  /\ stage[c] = from
  /\ stage' = [stage EXCEPT ![c] = to]
  /\ UNCHANGED <<call, res>>

Answer(c, from, r) ==
  /\ stage[c] = from
  /\ stage' = [stage EXCEPT ![c] = "done"]
  /\ res' = [res EXCEPT ![c] = r]
  /\ UNCHANGED call

-----------------------------------------------------------------------------
(* PutBlob.                                                                 *)

PutBegin(c, b) == Begin(c, None, b, "has")

PutHas(c) ==
  /\ IF Blob(c) \in stored THEN Answer(c, "has", "ok") ELSE Goto(c, "has", "create")
  /\ UNCHANGED <<tree, k>>

\* Mutant: Create's ErrExist is returned as it is.
ExistIsRaw(c) ==
  /\ stored' = stored \cup {Blob(c)}
  /\ Answer(c, "create", IF Blob(c) \in stored THEN "exist" ELSE "ok")
  /\ UNCHANGED <<markers, layout, dirs, index, k>>

\* Create; when the blob appeared since HasBlob, its ErrExist is no error.
PutCreate(c) ==
  /\ stored' = stored \cup {Blob(c)}
  /\ Answer(c, "create", "ok")
  /\ UNCHANGED <<markers, layout, dirs, index, k>>

-----------------------------------------------------------------------------
(* Commit.                                                                  *)

CommitBegin(c, l, m) == Begin(c, l, m, "manifest")

\* Mutant: the layers' media types are not looked at.
ForeignAccepted(c) ==
  /\ IF Blob(c) \in Manifests \cap stored THEN Goto(c, "manifest", "config")
                                         ELSE Answer(c, "manifest", "refused")
  /\ UNCHANGED <<tree, k>>

\* The media type, readJSON of the manifest; foreign layers are refused.
ReadManifest(c) ==
  /\ CASE Blob(c) \notin Manifests -> Answer(c, "manifest", "refused")
       [] Blob(c) \in Manifests \ stored -> Answer(c, "manifest", "absent")
       [] Blob(c) \in Foreign \cap stored -> Answer(c, "manifest", "refused")
       [] OTHER -> Goto(c, "manifest", "config")
  /\ UNCHANGED <<tree, k>>

\* readJSON of the config, and its platform.
ReadConfig(c) ==
  /\ stage[c] = "config"
  /\ \/ /\ ConfigOf[Blob(c)] \notin stored
        /\ Answer(c, "config", "absent")
        /\ UNCHANGED k
     \/ /\ ConfigOf[Blob(c)] \in stored
        /\ <<Leaf(c), Blob(c)>> \notin Fits
        /\ Answer(c, "config", "refused")
        /\ UNCHANGED k
     \/ /\ ConfigOf[Blob(c)] \in stored
        /\ <<Leaf(c), Blob(c)>> \in Fits
        /\ Goto(c, "config", "layers")
        /\ k' = [k EXCEPT ![c] = 1]
  /\ UNCHANGED tree

\* Mutant: the layers are taken to be there.
LayersUnchecked(c) ==
  /\ Goto(c, "layers", "markers")
  /\ k' = [k EXCEPT ![c] = 1]
  /\ UNCHANGED tree

\* HasBlob of layer k; after the last, as many diffIDs as layers.
CheckLayer(c) ==
  /\ stage[c] = "layers"
  /\ \/ /\ k[c] <= Len(Layers[Blob(c)])
        /\ Layers[Blob(c)][k[c]] \in stored
        /\ Goto(c, "layers", "layers")
        /\ k' = [k EXCEPT ![c] = @ + 1]
     \/ /\ k[c] <= Len(Layers[Blob(c)])
        /\ Layers[Blob(c)][k[c]] \notin stored
        /\ Answer(c, "layers", "absent")
        /\ UNCHANGED k
     \/ /\ k[c] > Len(Layers[Blob(c)])
        /\ Len(DiffIdsOf[Blob(c)]) = Len(Layers[Blob(c)])
        /\ Goto(c, "layers", "markers")
        /\ k' = [k EXCEPT ![c] = 1]
     \/ /\ k[c] > Len(Layers[Blob(c)])
        /\ Len(DiffIdsOf[Blob(c)]) # Len(Layers[Blob(c)])
        /\ Answer(c, "layers", "refused")
        /\ UNCHANGED k
  /\ UNCHANGED tree

\* createOnce of the marker of layer k.
AddMarker(c) == markers' = markers \cup {<<DiffIdsOf[Blob(c)][k[c]], Layers[Blob(c)][k[c]]>>}

WriteMarker(c) ==
  /\ stage[c] = "markers"
  /\ \/ /\ k[c] <= Len(Layers[Blob(c)])
        /\ AddMarker(c)
        /\ Goto(c, "markers", "markers")
        /\ k' = [k EXCEPT ![c] = @ + 1]
     \/ /\ k[c] > Len(Layers[Blob(c)])
        /\ Goto(c, "markers", "layout")
        /\ UNCHANGED <<markers, k>>
  /\ UNCHANGED <<stored, layout, dirs, index>>

\* createOnce of oci-layout.
WriteLayout(c) ==
  /\ Goto(c, "layout", "dirs")
  /\ layout' = layout \cup {Leaf(c)}
  /\ UNCHANGED <<stored, markers, dirs, index, k>>

\* MkdirAll of blobs/, where the backend has directories.
MakeDir(c) ==
  /\ Goto(c, "dirs", "index")
  /\ dirs' = IF HasDirs THEN dirs \cup {Leaf(c)} ELSE dirs
  /\ UNCHANGED <<stored, markers, layout, index, k>>

\* Create of index.json, the step that publishes the leaf.
AddIndex(c) ==
  /\ index[Leaf(c)] = None
  /\ index' = [index EXCEPT ![Leaf(c)] = Blob(c)]

\* Mutant: a backend whose Create replaces an entry.
IndexReplaced(c) ==
  /\ Answer(c, "index", "ok")
  /\ index' = [index EXCEPT ![Leaf(c)] = Blob(c)]
  /\ UNCHANGED <<stored, markers, layout, dirs, k>>

\* Also: s3 stores it, the answer is lost, the client retries and is told 412, ErrExist.
WriteIndex(c) ==
  /\ stage[c] = "index"
  /\ \/ AddIndex(c) /\ Answer(c, "index", "ok")
     \/ AddIndex(c) /\ Goto(c, "index", "compare")
     \/ index[Leaf(c)] # None /\ Goto(c, "index", "compare") /\ UNCHANGED index
  /\ UNCHANGED <<stored, markers, layout, dirs, k>>

\* Mutant: ErrExist alone is taken for a conflict.
ExistIsConflict(c) ==
  /\ Answer(c, "compare", "conflict")
  /\ UNCHANGED <<tree, k>>

\* leafManifest of the leaf that exists, against the manifest.
Compare(c) ==
  /\ stage[c] = "compare"
  /\ Answer(c, "compare", IF index[Leaf(c)] = Blob(c) THEN "ok" ELSE "conflict")
  /\ UNCHANGED <<tree, k>>

-----------------------------------------------------------------------------
(* Failures, returns, crashes.                                              *)

\* A backend call, or the read of the source, fails: nothing is written.
Fail(c) ==
  /\ \E s \in {"has", "create"} \cup CommitStages : Answer(c, s, "error")
  /\ UNCHANGED <<tree, k>>

\* A Create takes effect, and its answer is lost.
LoseAnswer(c) ==
  /\ \/ /\ Answer(c, "create", "error")
        /\ stored' = stored \cup {Blob(c)}
        /\ UNCHANGED <<markers, layout, index>>
     \/ /\ Answer(c, "markers", "error")
        /\ k[c] <= Len(Layers[Blob(c)])
        /\ AddMarker(c)
        /\ UNCHANGED <<stored, layout, index>>
     \/ /\ Answer(c, "layout", "error")
        /\ layout' = layout \cup {Leaf(c)}
        /\ UNCHANGED <<stored, markers, index>>
     \/ /\ Answer(c, "index", "error")
        /\ AddIndex(c)
        /\ UNCHANGED <<stored, markers, layout>>
  /\ UNCHANGED <<dirs, k>>

\* A process dies with the calls of its goroutines C.
Kill(C) ==
  /\ stage' = [c \in Callers |-> IF c \in C THEN "idle" ELSE stage[c]]
  /\ call' = [c \in Callers |-> IF c \in C THEN NoCall ELSE call[c]]
  /\ k' = [c \in Callers |-> IF c \in C THEN 0 ELSE k[c]]
  /\ res' = [c \in Callers |-> IF c \in C THEN "none" ELSE res[c]]
  /\ UNCHANGED tree

\* The caller has its answer; the call's locals are gone.
Return(c) == stage[c] = "done" /\ Kill({c})

PutStep(c) == PutHas(c) \/ PutCreate(c)
CommitStep(c) ==
  \/ ReadManifest(c) \/ ReadConfig(c) \/ CheckLayer(c) \/ WriteMarker(c)
  \/ WriteLayout(c) \/ MakeDir(c) \/ WriteIndex(c) \/ Compare(c)
Step(c) == PutStep(c) \/ CommitStep(c)
Fault(c) == Fail(c) \/ LoseAnswer(c)

Next ==
  \/ \E c \in Callers :
       \/ \E b \in Blobs : PutBegin(c, b)
       \/ \E l \in Leaves, b \in Blobs : CommitBegin(c, l, b)
       \/ Step(c) \/ Fault(c) \/ Return(c)
  \/ \E C \in SUBSET Callers : Kill(C)

Spec == Init /\ [][Next]_storeVars

-----------------------------------------------------------------------------
(* Properties.                                                              *)

\* The image of manifest m is whole, and may stand at leaf l.
Whole(l, m) ==
  /\ m \in Manifests \ Foreign
  /\ Needs(m) \subseteq stored
  /\ Len(DiffIdsOf[m]) = Len(Layers[m])
  /\ MarkersOf(m) \subseteq markers
  /\ <<l, m>> \in Fits

\* "Every digest a stored file refers to is present in the store" (store.go:10), for leaves:
\* whoever writes concurrently, fails or dies, a leaf with an index.json is a complete image of
\* its platform, with its layout file, its directory and its diffID markers.
LeafComplete ==
  \A l \in Leaves : index[l] # None =>
    Whole(l, index[l]) /\ l \in layout /\ (HasDirs => l \in dirs)

\* What the answer of a call says of the store.
AnswerTrue(c) ==
  stage[c] = "done" =>
    /\ res[c] = "ok" => IF Leaf(c) = None THEN Blob(c) \in stored
                                          ELSE index[Leaf(c)] = Blob(c)
    /\ res[c] = "conflict" => index[Leaf(c)] \notin {None, Blob(c)}

\* PutBlob and Commit answer the truth: nil means the blob is stored, or the leaf holds this
\* manifest; ErrConflict means that it holds another one, never a lost answer to one's own write.
AnswersTrue == \A c \in Callers : AnswerTrue(c)

\* The store implements ImageCatalog: blobs are only added, "leaves never change once
\* written" (store.go:10), and what Commit confirms is published.
Claimed(c) == IF stage[c] = "done" /\ res[c] = "ok" /\ Leaf(c) # None
              THEN <<Leaf(c), Blob(c)>> ELSE None
Complete(m, B) == m \in Manifests /\ Needs(m) \subseteq B

Catalog == INSTANCE ImageCatalog WITH
             blobs <- stored, leaf <- index, claim <- [c \in Callers |-> Claimed(c)]

ImplementsCatalog == Catalog!CatalogSpec

-----------------------------------------------------------------------------
(* The inductive invariant: what a caller has established by its stage.     *)

AfterConfig == {"layers", "markers", "layout", "dirs", "index", "compare"}
AfterLayers == AfterConfig \ {"layers"}
AfterMarkers == AfterLayers \ {"markers"}

\* Which call the stage belongs to.
CallOf(c) ==
  /\ stage[c] \in {"has", "create"} => Leaf(c) = None /\ Blob(c) \in Blobs
  /\ stage[c] \in CommitStages => Leaf(c) \in Leaves /\ Blob(c) \in Blobs
  /\ stage[c] = "done" =>
       /\ Blob(c) \in Blobs
       /\ res[c] # "none"
       /\ res[c] = "conflict" => Leaf(c) \in Leaves

\* What it found in the store: nothing of it goes away.
Found(c) ==
  /\ stage[c] \in CommitStages \ {"manifest"} => Blob(c) \in (Manifests \ Foreign) \cap stored
  /\ stage[c] \in AfterConfig =>
       /\ ConfigOf[Blob(c)] \in stored
       /\ <<Leaf(c), Blob(c)>> \in Fits
       /\ k[c] >= 1
  /\ stage[c] = "layers" =>
       \A i \in DOMAIN Layers[Blob(c)] : i < k[c] => Layers[Blob(c)][i] \in stored
  /\ stage[c] \in AfterLayers =>
       /\ Needs(Blob(c)) \subseteq stored
       /\ Len(DiffIdsOf[Blob(c)]) = Len(Layers[Blob(c)])

\* What it wrote.
Written(c) ==
  /\ stage[c] = "markers" =>
       \A i \in DOMAIN Layers[Blob(c)] : i < k[c] =>
         <<DiffIdsOf[Blob(c)][i], Layers[Blob(c)][i]>> \in markers
  /\ stage[c] \in AfterMarkers => MarkersOf(Blob(c)) \subseteq markers
  /\ stage[c] \in {"dirs", "index", "compare"} => Leaf(c) \in layout
  /\ stage[c] \in {"index", "compare"} => (HasDirs => Leaf(c) \in dirs)
  /\ stage[c] = "compare" => index[Leaf(c)] # None

CallerInv == \A c \in Callers : CallOf(c) /\ Found(c) /\ Written(c)

IInv == TypeOK /\ CallerInv /\ LeafComplete /\ AnswersTrue
=============================================================================
