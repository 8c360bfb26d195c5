------------------------------ MODULE PushSource ------------------------------
(***************************************************************************)
(* cstorage/push.go: processes that each resolve an image of               *)
(* containers-storage (find, asIs, byDiffID, exportZstd) and push what     *)
(* that serves into the store.  Push is the one of Push.tla, here with one *)
(* entry and its uploads in any order.                                     *)
(***************************************************************************)
EXTENDS CStorage

CONSTANTS
  Pushers,
  Wanted,       \* Wanted[w]: the references w may be asked to push
  Listable      \* the backend can list the diffID markers (httpdir cannot)

ASSUME PushSourceAssumption ==
  /\ Wanted \in [Pushers -> SUBSET Refs]
  /\ Listable \in BOOLEAN

VARIABLES
  at,           \* at[w]: the call w makes next
  ref,          \* ref[w]: the reference it pushes, or None
  found,        \* found[w]: the record's top layer and the manifest that find chose, or None
  chain,        \* chain[w]: the record's layers from the bottom up, each [id, diff, blob]
  picked,       \* picked[w]: the blobs chosen for the first of them
  asIs,         \* asIs[w]: so far they are the ones the manifest lists
  served        \* served[w]: the manifest that Resolve returned, or None

sourceLocals == <<at, ref, found, chain, picked, asIs, served>>

PushStages == {"idle", "find", "chain", "asis", "bydiff", "export", "manifest", "upload",
               "markers", "publish", "done", "failed"}
ChainLink == [id : LayerIds, diff : DiffIds, blob : Layers \cup {None}]

SourceTypeOK ==
  /\ at \in [Pushers -> PushStages]
  /\ ref \in [Pushers -> Refs \cup {None}]
  /\ found \in [Pushers -> [top : LayerIds \cup Bases, m : Manifest] \cup {None}]
  /\ chain \in [Pushers -> Seq(ChainLink)]
  /\ picked \in [Pushers -> Seq(Layers)]
  /\ asIs \in [Pushers -> BOOLEAN]
  /\ served \in [Pushers -> Manifest \cup {None}]

SourceInit ==
  /\ at = [w \in Pushers |-> "idle"]
  /\ ref = [w \in Pushers |-> None]
  /\ found = [w \in Pushers |-> None]
  /\ chain = [w \in Pushers |-> <<>>]
  /\ picked = [w \in Pushers |-> <<>>]
  /\ asIs = [w \in Pushers |-> TRUE]
  /\ served = [w \in Pushers |-> None]

Move(w, from, to) == at[w] = from /\ at' = [at EXCEPT ![w] = to]

BeginSource(w) ==
  /\ Move(w, "idle", "find")
  /\ \E r \in Wanted[w] : ref' = [ref EXCEPT ![w] = r]
  /\ UNCHANGED <<machineVars, found, chain, picked, asIs, served>>

-----------------------------------------------------------------------------
(* find and layerChain.                                                     *)

\* A pinned manifest: any record that has it; or, as Pull names an index pin, the record named so.
\* A tag: the record it names.  Each with the manifest that is used of it.
Candidates(r) ==
  LET pinned == {c \in Configs : image[c] # None /\ Pin[r] \in image[c].manifests}
      named == {c \in Configs : image[c] # None /\ name[r] = c}
  IN  IF pinned # {} THEN {[top |-> image[c].top, m |-> Pin[r]] : c \in pinned}
                     ELSE {[top |-> image[c].top, m |-> image[c].default] : c \in named}

Find(w) ==
  /\ at[w] = "find"
  /\ \/ \E f \in Candidates(ref[w]) :
          /\ Move(w, "find", "chain")
          /\ found' = [found EXCEPT ![w] = f]
     \/ /\ Candidates(ref[w]) = {}
        /\ Move(w, "find", "failed")
        /\ UNCHANGED found
  /\ UNCHANGED <<machineVars, ref, chain, picked, asIs, served>>

Chosen(w) == found[w].m

\* Copies of the layers from the bottom up to top.
ChainTo(top) ==
  LET base == IF top # <<>> /\ Head(top) = Toc THEN 1 ELSE 0
      id(i) == SubSeq(top, 1, base + i)
  IN  [i \in 1..(Len(top) - base) |->
         [id |-> id(i), diff |-> layer[id(i)].diff, blob |-> layer[id(i)].blob]]

\* The config is read, then the chain; by now podman may have removed the image.
WalkChain(w) ==
  /\ at[w] = "chain"
  /\ IF /\ image[Chosen(w).config] # None
        /\ \A id \in LayerIds : Below(id, found[w].top) => layer[id] # None
        /\ Len(ChainTo(found[w].top)) = Len(Chosen(w).layers)
     THEN Move(w, "chain", "asis") /\ chain' = [chain EXCEPT ![w] = ChainTo(found[w].top)]
     ELSE Move(w, "chain", "failed") /\ UNCHANGED chain
  /\ UNCHANGED <<machineVars, ref, found, picked, asIs, served>>

-----------------------------------------------------------------------------
(* One layer after another: asIs, byDiffID, exportZstd.                     *)

Link(w) == chain[w][Len(picked[w]) + 1]
ListedHere(w) == Chosen(w).layers[Len(picked[w]) + 1]
LayersLeft(w) == Len(picked[w]) < Len(chain[w])

Pick(w, from, b) ==
  /\ Move(w, from, "asis")
  /\ picked' = [picked EXCEPT ![w] = Append(@, b)]
  /\ asIs' = [asIs EXCEPT ![w] = @ /\ from = "asis" /\ b = ListedHere(w)]

\* The blob the manifest lists, then the one the layer was applied from; a digest that is the
\* diffID is no compressed blob.
AsIsBlobs(w) ==
  LET here(b) == b \notin {None, Link(w).diff} /\ b \in cache \cup stored
  IN  IF here(ListedHere(w)) THEN {ListedHere(w)}
      ELSE IF here(Link(w).blob) THEN {Link(w).blob} ELSE {}

\* Mutant: any original blob counts as the one that the manifest lists.
AsIsUnlisted(w) ==
  /\ at[w] = "asis"
  /\ LayersLeft(w)
  /\ \/ \E b \in AsIsBlobs(w) :
          /\ Move(w, "asis", "asis")
          /\ picked' = [picked EXCEPT ![w] = Append(@, b)]
     \/ /\ AsIsBlobs(w) = {}
        /\ Move(w, "asis", "bydiff")
        /\ UNCHANGED picked
  /\ UNCHANGED <<machineVars, ref, found, chain, asIs, served>>

PickAsIs(w) ==
  /\ at[w] = "asis"
  /\ LayersLeft(w)
  /\ \/ \E b \in AsIsBlobs(w) : Pick(w, "asis", b)
     \/ /\ AsIsBlobs(w) = {}
        /\ Move(w, "asis", "bydiff")
        /\ UNCHANGED <<picked, asIs>>
  /\ UNCHANGED <<machineVars, ref, found, chain, served>>

\* Mutant: the markers of another diffID are looked at as well.
AnyRecorded(d) == IF Listable THEN {b \in Blobs \cap stored : \E e \in DiffIds : <<e, b>> \in markers}
                  ELSE {}

\* A blob that the store records for the diffID, and has.
Recorded(d) == IF Listable THEN {b \in Blobs \cap stored : <<d, b>> \in markers} ELSE {}

PickByDiffId(w) ==
  /\ at[w] = "bydiff"
  /\ \/ \E b \in Recorded(Link(w).diff) : Pick(w, "bydiff", b)
     \/ /\ Recorded(Link(w).diff) = {}
        /\ Move(w, "bydiff", "export")
        /\ UNCHANGED <<picked, asIs>>
  /\ UNCHANGED <<machineVars, ref, found, chain, served>>

\* Mutant: the digest of the diff is not compared.
DiffUnchecked(w) ==
  /\ at[w] = "export"
  /\ layer[Link(w).id] # None
  /\ \E d \in DiffIds :
       /\ cache' = cache \cup {Zstd[d]}
       /\ Pick(w, "export", Zstd[d])
  /\ UNCHANGED <<storageVars, catalogVars, ref, found, chain, served>>

\* The diff of the layer, if that is still there, goes compressed into the cache; only then is its
\* digest compared with the diffID, and what a damaged layer gave is left in the cache.
Export(w) ==
  /\ at[w] = "export"
  /\ \/ /\ layer[Link(w).id] # None
        /\ \E d \in DiffIds :
             /\ cache' = cache \cup {Zstd[d]}
             /\ IF d = Link(w).diff THEN Pick(w, "export", Zstd[d])
                ELSE Move(w, "export", "failed") /\ UNCHANGED <<picked, asIs>>
     \/ /\ layer[Link(w).id] = None
        /\ Move(w, "export", "failed")
        /\ UNCHANGED <<cache, picked, asIs>>
  /\ UNCHANGED <<storageVars, catalogVars, ref, found, chain, served>>

\* The config, and the stored manifest byte for byte or a new one, go into the cache.
PutManifest(w) ==
  /\ at[w] = "asis"
  /\ ~LayersLeft(w)
  /\ Move(w, "asis", "upload")
  /\ LET m == IF asIs[w] THEN Chosen(w)
              ELSE [config |-> Chosen(w).config, layers |-> picked[w]]
     IN  /\ served' = [served EXCEPT ![w] = m]
         /\ cache' = cache \cup {m, m.config}
  /\ UNCHANGED <<storageVars, catalogVars, ref, found, chain, picked, asIs>>

-----------------------------------------------------------------------------
(* The push of what it serves: blobs come from the cache, or are in the store.*)

SourceUpload(w) ==
  /\ at[w] = "upload"
  /\ \/ \E b \in (Needs(served[w]) \ stored) \cap cache : Upload(b) /\ Move(w, "upload", "upload")
     \/ /\ Needs(served[w]) \subseteq stored
        /\ Move(w, "upload", "markers")
        /\ UNCHANGED catalogVars
  /\ UNCHANGED <<storageVars, cache, ref, found, chain, picked, asIs, served>>

SourceMarkers(w) ==
  /\ at[w] = "markers"
  /\ CommitMarkers(served[w])
  /\ Move(w, "markers", "publish")
  /\ UNCHANGED <<storageVars, cache, ref, found, chain, picked, asIs, served>>

SourceLeaf(w) ==
  /\ at[w] = "publish"
  /\ CommitLeaf(ref[w], served[w])
  /\ Move(w, "publish", IF leaf'[ref[w]] = served[w] THEN "done" ELSE "failed")
  /\ UNCHANGED <<storageVars, cache, ref, found, chain, picked, asIs, served>>

-----------------------------------------------------------------------------

\* A call fails; cancellation is a call that fails, too.
SourceFail(w) ==
  /\ at[w] \notin {"idle", "done", "failed"}
  /\ at' = [at EXCEPT ![w] = "failed"]
  /\ UNCHANGED <<machineVars, ref, found, chain, picked, asIs, served>>

\* The process is done with the answer, or dies.
SourceLeave(w) ==
  /\ at[w] # "idle"
  /\ at' = [at EXCEPT ![w] = "idle"]
  /\ ref' = [ref EXCEPT ![w] = None]
  /\ found' = [found EXCEPT ![w] = None]
  /\ chain' = [chain EXCEPT ![w] = <<>>]
  /\ picked' = [picked EXCEPT ![w] = <<>>]
  /\ asIs' = [asIs EXCEPT ![w] = TRUE]
  /\ served' = [served EXCEPT ![w] = None]
  /\ UNCHANGED machineVars

SourceStep(w) ==
  \/ Find(w) \/ WalkChain(w) \/ PickAsIs(w) \/ PickByDiffId(w) \/ Export(w) \/ PutManifest(w)
  \/ SourceUpload(w) \/ SourceMarkers(w) \/ SourceLeaf(w)

SourceNext == \E w \in Pushers : BeginSource(w) \/ SourceStep(w) \/ SourceFail(w) \/ SourceLeave(w)
=============================================================================
