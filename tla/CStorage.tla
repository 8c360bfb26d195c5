------------------------------- MODULE CStorage -------------------------------
(***************************************************************************)
(* What the pulls and pushes of one machine work on: its containers-storage*)
(* (layers, image records, names; podman works on it too), its blob cache, *)
(* and the store images are copied with.                                   *)
(*                                                                         *)
(* The calls of containers/storage are each atomic.  Cache and store are   *)
(* taken at their promises, which BlobCache and Store are shown to keep:   *)
(* what they hold has its digest and stays (BlobPool, ImageCatalog).       *)
(***************************************************************************)
EXTENDS Naturals, Sequences

CONSTANTS
  Refs,         \* normalized references, for one platform
  Pin,          \* Pin[r]: the manifest whose digest r pins, or None
  Configs,      \* config digests; a record's ID is its config's
  Blobs,        \* layer blobs
  DiffIds,
  None,
  DiffIdsOf,    \* DiffIdsOf[c]: the diffIDs config c lists
  Content,      \* Content[b]: the diffID of what b decompresses to, itself when it is not compressed
  Zstd,         \* Zstd[d]: the blob that compressing d anew gives
  Tocs,         \* configs whose layers podman may know under other IDs (from tables of contents)
  Toc           \* those IDs start with it

\* A manifest's bytes; a local build lists layers, not compressed, by their diffIDs.
Layers == Blobs \cup DiffIds
Manifest == [config : Configs, layers : Seq(Layers)]

ASSUME CStorageAssumption ==
  /\ DiffIdsOf \in [Configs -> Seq(DiffIds)]
  /\ Content \in [Layers -> DiffIds]
  /\ \A d \in DiffIds : Content[d] = d
  /\ Zstd \in [DiffIds -> Blobs]
  /\ None \notin Refs \cup Configs \cup Manifest
  /\ Pin \in [Refs -> Manifest \cup {None}]
  /\ Tocs \subseteq Configs
  /\ Toc \notin DiffIds
  /\ \A d \in DiffIds : Content[Zstd[d]] = d
  \* A digest is of a layer, a config or a manifest.
  /\ DiffIds \cap Configs = {}
  /\ \A x \in Layers \cup Configs : x \notin Manifest

VARIABLES
  layer,        \* layer[id]: its diffID and the blob it was applied from, or None
  image,        \* image[c]: the record's top layer, manifests and default manifest, or None
  name,         \* name[r]: the record that r names, or None
  cache,        \* the blob cache: layer blobs, configs, manifests
  stored,       \* shared/blobs of the store
  markers,      \* its diff_ids
  leaf          \* leaf[r]: the manifest of r's leaf, or None

storageVars == <<layer, image, name>>
catalogVars == <<stored, markers, leaf>>
machineVars == <<storageVars, cache, catalogVars>>

\* chainIDs: the ID of layer i is a digest of the first i diffIDs, here those diffIDs themselves.
ChainId(c, i) == SubSeq(DiffIdsOf[c], 1, i)
Top(c) == DiffIdsOf[c]
TocTop(c) == <<Toc>> \o DiffIdsOf[c]

Bases == {<<>>, <<Toc>>}
Tops(c) == {Top(c)} \cup (IF c \in Tocs THEN {TocTop(c)} ELSE {})
LayerIds ==
  (UNION {UNION {{SubSeq(top, 1, i) : i \in 1..Len(top)} : top \in Tops(c)} : c \in Configs})
    \ Bases
Parent(id) == SubSeq(id, 1, Len(id) - 1)
DiffOf(id) == id[Len(id)]

Below(low, id) == Len(low) <= Len(id) /\ SubSeq(id, 1, Len(low)) = low

LayerRecord == [diff : DiffIds, blob : Layers \cup {None}]
ImageRecord == [top : LayerIds \cup Bases, manifests : SUBSET Manifest, default : Manifest]
Digests == Layers \cup Configs \cup Manifest

ASSUME RecordAssumption == None \notin LayerRecord \cup ImageRecord

MachineTypeOK ==
  /\ layer \in [LayerIds -> LayerRecord \cup {None}]
  /\ image \in [Configs -> ImageRecord \cup {None}]
  /\ name \in [Refs -> Configs \cup {None}]
  /\ cache \subseteq Digests
  /\ stored \subseteq Digests
  /\ markers \subseteq DiffIds \X Digests
  /\ leaf \in [Refs -> Manifest \cup {None}]

MachineInit ==
  /\ layer = [id \in LayerIds |-> None]
  /\ image = [c \in Configs |-> None]
  /\ name = [r \in Refs |-> None]
  /\ cache = {}
  /\ stored = {}
  /\ markers = {}
  /\ leaf = [r \in Refs |-> None]

-----------------------------------------------------------------------------
(* containers/storage.                                                      *)

Present(id) == id \in LayerIds => layer[id] # None

InUse(id) ==
  \/ \E up \in LayerIds : Parent(up) = id /\ layer[up] # None
  \/ \E c \in Configs : image[c] # None /\ image[c].top = id

NewLayer(id, l) ==
  /\ layer[id] = None
  /\ Present(Parent(id))
  /\ layer' = [layer EXCEPT ![id] = l]

\* DeleteLayer fails for a layer in use; no caller looks at the answer.
DeleteLayer(id) == layer' = IF InUse(id) THEN layer ELSE [layer EXCEPT ![id] = None]

NewRecord(c, top, m) ==
  /\ image[c] = None
  /\ Present(top)
  /\ image' = [image EXCEPT ![c] = [top |-> top, manifests |-> {m}, default |-> m]]

\* AddNames takes the name from the record that has it.
AddName(c, r) == image[c] # None /\ name' = [name EXCEPT ![r] = c]

-----------------------------------------------------------------------------
(* podman on the same storage.                                              *)

\* A pull, load or build applies a layer (from which blob is not always known) ...
PodmanLayer(id) ==
  /\ \E b \in {None} \cup {z \in Blobs : Content[z] = DiffOf(id)} :
       NewLayer(id, [diff |-> DiffOf(id), blob |-> b])
  /\ UNCHANGED <<image, name, cache, catalogVars>>

\* ... writes a record ...
PodmanImage(c, m, top) ==
  /\ NewRecord(c, top, m)
  /\ UNCHANGED <<layer, name, cache, catalogVars>>

\* ... and names it; so does podman tag.
PodmanTag(c, r) == AddName(c, r) /\ UNCHANGED <<layer, image, cache, catalogVars>>

\* podman rmi: the record goes with its names and the layers that nothing else stands on.
PodmanRemove(c) ==
  /\ image[c] # None
  /\ LET top == image[c].top
         Stays(id) == \/ ~Below(id, top)
                      \/ \E up \in LayerIds : layer[up] # None /\ Below(id, up) /\ ~Below(up, top)
                      \/ \E d \in Configs \ {c} : image[d] # None /\ Below(id, image[d].top)
     IN  layer' = [id \in LayerIds |-> IF Stays(id) THEN layer[id] ELSE None]
  /\ image' = [image EXCEPT ![c] = None]
  /\ name' = [r \in Refs |-> IF name[r] = c THEN None ELSE name[r]]
  /\ UNCHANGED <<cache, catalogVars>>

\* A prune, or a pull of podman's that failed, deletes a layer that nothing uses.
PodmanPrune(id) ==
  /\ layer[id] # None
  /\ ~InUse(id)
  /\ DeleteLayer(id)
  /\ UNCHANGED <<image, name, cache, catalogVars>>

-----------------------------------------------------------------------------
(* The store, as ImageCatalog has it.                                       *)

Listed(m) == {m.layers[i] : i \in DOMAIN m.layers}
Needs(m) == Listed(m) \cup {m.config, m}

Upload(b) == stored' = stored \cup {b} /\ UNCHANGED <<markers, leaf>>

\* Commit finds the image whole and writes the diffID markers ...
CanCommit(m) == Needs(m) \subseteq stored /\ Len(m.layers) = Len(DiffIdsOf[m.config])

CommitMarkers(m) ==
  /\ CanCommit(m)
  /\ markers' = markers \cup {<<DiffIdsOf[m.config][i], m.layers[i]>> : i \in DOMAIN m.layers}
  /\ UNCHANGED <<stored, leaf>>

\* Mutant: a leaf is replaced.
LeafReplaced(r, m) ==
  /\ leaf' = [leaf EXCEPT ![r] = m]
  /\ UNCHANGED <<stored, markers>>

\* ... then the leaf, unless it is there.
CommitLeaf(r, m) ==
  /\ leaf' = IF leaf[r] = None THEN [leaf EXCEPT ![r] = m] ELSE leaf
  /\ UNCHANGED <<stored, markers>>

-----------------------------------------------------------------------------
(* Properties of the storage that every user of it relies on.               *)

\* A record has the layers of its config, all of them, and a name has a record: although pulls
\* and podman create and delete layers, records and names in any order between one another's
\* steps, stop halfway or fail.
RecordsWhole ==
  /\ \A c \in Configs : image[c] # None =>
       /\ image[c].top \in Tops(c)
       /\ \A id \in LayerIds : Below(id, image[c].top) => layer[id] # None
       /\ image[c].default.config = c
  /\ \A r \in Refs : name[r] # None => image[name[r]] # None
=============================================================================
