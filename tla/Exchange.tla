------------------------------- MODULE Exchange -------------------------------
(***************************************************************************)
(* One machine that pulls from a store and pushes to it, several commands  *)
(* at a time, with podman at work on the same containers-storage: Pull and *)
(* PushSource on one storage, cache and store.                             *)
(***************************************************************************)
EXTENDS Pull, PushSource

CONSTANT
  Local         \* manifests podman pulls, loads or builds

ASSUME ExchangeAssumption == Local \subseteq Manifest

vars == <<machineVars, pullLocals, sourceLocals>>

TypeOK == PullTypeOK /\ SourceTypeOK

Init == MachineInit /\ PullInit /\ SourceInit

\* What podman adds is in nobody's way, but for a record on other layer IDs.
PodmanAdds ==
  \E m \in Local :
    \/ \E top \in Tops(m.config), id \in LayerIds : Below(id, top) /\ PodmanLayer(id)
    \/ PodmanImage(m.config, m, Top(m.config))
    \/ \E r \in Refs : PodmanTag(m.config, r)

PodmanDisturbs ==
  \/ \E c \in Configs : PodmanRemove(c)
  \/ \E id \in LayerIds : PodmanPrune(id)
  \/ \E m \in Local : m.config \in Tocs /\ PodmanImage(m.config, m, TocTop(m.config))

Podman ==
  \/ PodmanAdds /\ UNCHANGED <<pullLocals, sourceLocals>>
  \/ /\ PodmanDisturbs
     /\ calm' = [w \in Pullers |-> stage[w] = "idle"]
     /\ UNCHANGED <<stage, todo, unplanned, plan, k, answer, cancelled, sourceLocals>>

Next ==
  \/ PullNext /\ UNCHANGED sourceLocals
  \/ SourceNext /\ UNCHANGED pullLocals
  \/ Podman

Spec == Init /\ [][Next]_vars

-----------------------------------------------------------------------------
(* Properties.                                                              *)

\* The layers of m are what its config says.
Decompresses(m) ==
  /\ Len(m.layers) = Len(DiffIdsOf[m.config])
  /\ \A i \in DOMAIN m.layers : m.layers[i] \in Blobs /\ Content[m.layers[i]] = DiffIdsOf[m.config][i]

\* ... and so are those of every image in the registry and of every image that podman brings, which
\* may list them uncompressed.
Truthful(m) ==
  /\ Len(m.layers) = Len(DiffIdsOf[m.config])
  /\ \A i \in DOMAIN m.layers : Content[m.layers[i]] = DiffIdsOf[m.config][i]

Honest ==
  /\ \A r \in Refs : Registry[r] # None => Decompresses(Registry[r])
  /\ \A m \in Local : Truthful(m)

\* Pull answers the truth: when an entry ends without an error, its reference names the record of
\* its config, on all of the layers, although podman may have removed or replaced any of them
\* between two steps of this pull.
Ended(w, i) == i \notin DOMAIN answer[w] /\ i \in DOMAIN answer'[w]

OkIsImported ==
  [][\A w \in Pullers : \A i \in DOMAIN plan[w] :
       Ended(w, i) /\ answer'[w][i] = "ok" =>
         /\ name'[plan[w][i].ref] = plan[w][i].m.config
         /\ image'[plan[w][i].m.config] # None]_vars

\* "A fallback-resolved entry is first pushed into src, when src is writable, so the next pull finds
\* it there" (pull.go:154-155): for good, and as this very manifest.
KeptInStore ==
  \A w \in Pullers : \A i \in DOMAIN answer[w] :
    answer[w][i] = "ok" /\ plan[w][i].fallback /\ Writable =>
      leaf[plan[w][i].ref] = plan[w][i].m

\* Pulls do not hurt one another, and no leftover of a pull that failed or died hurts the next:
\* unless a call fails or podman takes something away meanwhile, every entry is imported; all that
\* can stand in its way is what others did for good, another manifest at the leaf or the same
\* image under other layer IDs.  (Of references without a digest; see PinnedPullsSucceed.)
Imported(w, i) ==
  \/ answer[w][i] \in {"ok", "cancelled"}
  \/ answer[w][i] = "conflict" /\ plan[w][i].m.config \in Tocs
  \/ answer[w][i] = "conflict" /\ leaf[plan[w][i].ref] \notin {None, plan[w][i].m}

CalmPullsSucceed ==
  \A w \in Pullers : calm[w] =>
    /\ \A r \in unplanned[w] : Registry[r] = None \/ Pin[r] # None
    /\ \A i \in DOMAIN answer[w] :
         Pin[plan[w][i].ref] = None /\ Decompresses(plan[w][i].m) => Imported(w, i)

\* The same of references with a digest.  Resolve by digest "trusts the write order (layers, config,
\* manifest blob)" (store.go:334-335), so what a failed push left there would be no image.
PinnedPullsSucceed ==
  \A w \in Pullers : calm[w] =>
    /\ \A r \in unplanned[w] : Registry[r] = None
    /\ \A i \in DOMAIN answer[w] : Imported(w, i)

\* What a record's layers hold is what the config says, for the IDs that pulls give
\* ("the existing layer is reusable when its content agrees", pull.go:277-278).
RecordsAgree ==
  \A c \in Configs : image[c] # None =>
    \A id \in LayerIds : Below(id, image[c].top) => layer[id].diff = DiffOf(id)

\* The push source serves what can be read: whichever blob it takes for a layer - one it found in
\* the cache or the store, one a marker records, one it made - it is there when it is uploaded.
Serving == {"upload", "markers", "publish", "done"}
ServedReadable ==
  \A w \in Pushers : at[w] \in Serving => Needs(served[w]) \subseteq cache \cup stored

\* ... and decompresses to the image's diffIDs: "its presence records that blob decompresses to
\* diffID" (store.go:75).
ServedDecompresses == \A w \in Pushers : at[w] \in Serving => Decompresses(served[w])

\* A push that was answered without an error is in the store, and pulls back to the same image:
\* a leaf decompresses to what its config says, recompressed or not, or is as the registry has it.
LeavesDecompress == \A r \in Refs : leaf[r] \in {None, Registry[r]} \/ Decompresses(leaf[r])

\* Pushes and pulls use the store as ImageCatalog, which Store implements, lets them: blobs are
\* only added, and a leaf is written once, for a manifest whose blobs are all there.
StoreAsPromised ==
  [][/\ stored \subseteq stored'
     /\ \A r \in Refs : leaf'[r] # leaf[r] => leaf[r] = None /\ Needs(leaf'[r]) \subseteq stored]_vars
=============================================================================
