--------------------------------- MODULE Pull ---------------------------------
(***************************************************************************)
(* cstorage/pull.go: processes that each plan a pull (PlanPull) and run it *)
(* (Pull) against one containers-storage, which podman changes as well.    *)
(* Each step is one call of the storage, the cache or the store.           *)
(***************************************************************************)
EXTENDS CStorage

CONSTANTS
  Pullers,
  Requests,     \* Requests[w]: the sequences of references w may be asked to pull
  Registry,     \* Registry[r]: what Options.Fallback resolves r to, or None
  Writable      \* the store takes writes (httpdir does not)

ASSUME PullAssumption ==
  /\ Requests \in [Pullers -> SUBSET Seq(Refs)]
  /\ Registry \in [Refs -> Manifest \cup {None}]
  /\ Writable \in BOOLEAN

VARIABLES
  stage,        \* stage[w]: the call w makes next
  todo,         \* todo[w]: the references PlanPull has yet to resolve
  unplanned,    \* unplanned[w]: those it could not
  plan,         \* plan[w]: the entries
  k,            \* k[w]: the layer, or the big data item, w is at
  answer,       \* answer[w]: the results of the entries, in the order of the plan
  cancelled,    \* cancelled[w]: the context of w is cancelled
  calm          \* calm[w]: no call failed, and podman took nothing away, since w began (history)

pullLocals == <<stage, todo, unplanned, plan, k, answer, cancelled, calm>>
pullVars == <<machineVars, pullLocals>>

PlanStages == {"resolve", "prefix"}
EntryStages == {"keep", "markers", "publish", "fetch", "look", "put", "exists", "check", "create",
                "reuse", "data", "name"}
Answers == {"ok", "error", "conflict", "cancelled"}

\* from: the first layer that was missing when the plan was made.
Entry == [ref : Refs, m : Manifest, from : Nat, fallback : BOOLEAN]

PullTypeOK ==
  /\ MachineTypeOK
  /\ stage \in [Pullers -> {"idle", "entry", "done"} \cup PlanStages \cup EntryStages]
  /\ todo \in [Pullers -> Seq(Refs)]
  /\ unplanned \in [Pullers -> SUBSET Refs]
  /\ plan \in [Pullers -> Seq(Entry)]
  /\ k \in [Pullers -> Nat]
  /\ answer \in [Pullers -> Seq(Answers)]
  /\ cancelled \in [Pullers -> BOOLEAN]
  /\ calm \in [Pullers -> BOOLEAN]

PullInit ==
  /\ stage = [w \in Pullers |-> "idle"]
  /\ todo = [w \in Pullers |-> <<>>]
  /\ unplanned = [w \in Pullers |-> {}]
  /\ plan = [w \in Pullers |-> <<>>]
  /\ k = [w \in Pullers |-> 0]
  /\ answer = [w \in Pullers |-> <<>>]
  /\ cancelled = [w \in Pullers |-> FALSE]
  /\ calm = [w \in Pullers |-> TRUE]

-----------------------------------------------------------------------------

Goto(w, from, to) ==
  /\ stage[w] = from
  /\ stage' = [stage EXCEPT ![w] = to]
  /\ UNCHANGED <<todo, unplanned, plan, answer, cancelled, calm>>

Step(w, from, to) == Goto(w, from, to) /\ UNCHANGED k

\* To the first (or n-th) item of the next loop.
Loop(w, from, to, n) == Goto(w, from, to) /\ k' = [k EXCEPT ![w] = n]

\* The entry ends; Pull goes on with the next one.
Conclude(w, from, r) ==
  /\ stage[w] = from
  /\ stage' = [stage EXCEPT ![w] = "entry"]
  /\ answer' = [answer EXCEPT ![w] = Append(@, r)]
  /\ k' = [k EXCEPT ![w] = 0]
  /\ UNCHANGED <<todo, unplanned, plan, cancelled, calm>>

Current(w) == plan[w][Len(answer[w]) + 1]
Img(w) == Current(w).m
Config(w) == Img(w).config
Blob(w) == Img(w).layers[k[w]]
Id(w) == ChainId(Config(w), k[w])
DiffId(w) == DiffIdsOf[Config(w)][k[w]]
LayersDone(w) == k[w] > Len(Img(w).layers)

-----------------------------------------------------------------------------
(* PlanPull.                                                                *)

BeginPull(w) ==
  /\ stage[w] = "idle"
  /\ stage' = [stage EXCEPT ![w] = "resolve"]
  /\ \E s \in Requests[w] : todo' = [todo EXCEPT ![w] = s]
  /\ calm' = [calm EXCEPT ![w] = TRUE]
  /\ UNCHANGED <<machineVars, unplanned, plan, k, answer, cancelled>>

\* Store.Resolve: the leaf, or else the manifest a reference pins, whatever else is there.
InStore(r) == IF leaf[r] # None THEN leaf[r]
              ELSE IF Pin[r] \in stored THEN Pin[r] ELSE None

\* readImage, and as many diffIDs as layers.
Readable(m, B) == {m, m.config} \subseteq B /\ Len(DiffIdsOf[m.config]) = Len(m.layers)

Planned(w, m, fallback) ==
  /\ stage' = [stage EXCEPT ![w] = "prefix"]
  /\ plan' = [plan EXCEPT ![w] =
                Append(@, [ref |-> Head(todo[w]), m |-> m, from |-> 1, fallback |-> fallback])]
  /\ todo' = [todo EXCEPT ![w] = Tail(@)]
  /\ UNCHANGED <<unplanned, k, answer, cancelled, calm>>

NotPlanned(w) ==
  /\ unplanned' = [unplanned EXCEPT ![w] = @ \cup {Head(todo[w])}]
  /\ todo' = [todo EXCEPT ![w] = Tail(@)]
  /\ UNCHANGED <<stage, plan, k, answer, cancelled, calm>>

\* registry.Source: the config, the layers and the manifest, each put into the cache.
Download(D) == cache' = cache \cup D

\* What a download may have put there when a fetch of it fails.
Partly(m) == IF m = None THEN {{}} ELSE SUBSET Needs(m)

\* planEntry: from the store, or when it has no such image from the fallback.
Resolve(w) ==
  /\ stage[w] = "resolve"
  /\ todo[w] # <<>>
  /\ LET r == Head(todo[w])
         fallback == InStore(r) = None
         m == IF fallback THEN Registry[r] ELSE InStore(r)
     IN  /\ IF fallback /\ m # None THEN Download(Needs(m)) ELSE UNCHANGED cache
         /\ IF m # None /\ Readable(m, IF fallback THEN cache' ELSE stored)
            THEN Planned(w, m, fallback) ELSE NotPlanned(w)
  /\ UNCHANGED <<storageVars, catalogVars>>

\* The present prefix of the chain, layer by layer.
PrefixEnds(w) ==
  /\ stage[w] = "prefix"
  /\ stage' = [stage EXCEPT ![w] = "resolve"]
  /\ UNCHANGED <<machineVars, todo, unplanned, plan, k, answer, cancelled>>

FindPrefix(w) ==
  LET n == Len(plan[w])
      e == plan[w][n]
      there == e.from <= Len(e.m.layers) /\ Present(ChainId(e.m.config, e.from))
  IN  /\ stage[w] = "prefix"
      /\ \/ /\ there
            /\ plan' = [plan EXCEPT ![w][n].from = @ + 1]
            /\ UNCHANGED <<machineVars, stage, todo, unplanned, k, answer, cancelled>>
         \/ ~there /\ PrefixEnds(w)
      /\ UNCHANGED calm

BeginEntries(w) ==
  /\ todo[w] = <<>>
  /\ Step(w, "resolve", "entry")
  /\ UNCHANGED machineVars

-----------------------------------------------------------------------------
(* Pull: the loop over the entries.                                         *)

Left(w) == Len(answer[w]) < Len(plan[w])

BeginEntry(w) ==
  /\ Left(w) /\ ~cancelled[w]
  /\ IF Current(w).fallback /\ Writable THEN Step(w, "entry", "keep")
                                        ELSE Loop(w, "entry", "fetch", Current(w).from)
  /\ UNCHANGED machineVars

\* "A cancelled entry is reported like a failed one."
SkipEntry(w) ==
  /\ Left(w) /\ cancelled[w]
  /\ Conclude(w, "entry", "cancelled")
  /\ UNCHANGED machineVars

EndPull(w) ==
  /\ ~Left(w)
  /\ Step(w, "entry", "done")
  /\ UNCHANGED machineVars

-----------------------------------------------------------------------------
(* pullEntry: keepInStore (a push, whose uploads end in any order).         *)

KeepBlob(w) ==
  /\ stage[w] = "keep"
  /\ \/ \E b \in Needs(Img(w)) \ stored : Upload(b) /\ Step(w, "keep", "keep")
     \/ Needs(Img(w)) \subseteq stored /\ Step(w, "keep", "markers") /\ UNCHANGED catalogVars
  /\ UNCHANGED <<storageVars, cache>>

KeepMarkers(w) ==
  /\ Step(w, "markers", "publish")
  /\ CommitMarkers(Img(w))
  /\ UNCHANGED <<storageVars, cache>>

\* Mutant: keepInStore ignores a conflict as it ignores a store that takes no writes.
ConflictIgnored(w) ==
  /\ stage[w] = "publish"
  /\ CommitLeaf(Current(w).ref, Img(w))
  /\ Loop(w, "publish", "fetch", Current(w).from)
  /\ UNCHANGED <<storageVars, cache>>

KeepLeaf(w) ==
  /\ stage[w] = "publish"
  /\ CommitLeaf(Current(w).ref, Img(w))
  /\ IF leaf'[Current(w).ref] = Img(w) THEN Loop(w, "publish", "fetch", Current(w).from)
                                       ELSE Conclude(w, "publish", "conflict")
  /\ UNCHANGED <<storageVars, cache>>

-----------------------------------------------------------------------------
(* pullEntry: fetch, applyLayer, writeImage.                                *)

\* A missing layer into the cache, unless it is there; from the store, or the fallback's cache.
Fetch(w) ==
  /\ stage[w] = "fetch"
  /\ \/ /\ LayersDone(w)
        /\ Loop(w, "fetch", "look", 1)
        /\ UNCHANGED cache
     \/ /\ ~LayersDone(w)
        /\ Blob(w) \in cache \/ (~Current(w).fallback /\ Blob(w) \in stored)
        /\ cache' = cache \cup {Blob(w)}
        /\ Loop(w, "fetch", "fetch", k[w] + 1)
     \/ /\ ~LayersDone(w)
        /\ Blob(w) \notin cache /\ (Current(w).fallback \/ Blob(w) \notin stored)
        /\ Conclude(w, "fetch", "error")
        /\ UNCHANGED cache
  /\ UNCHANGED <<storageVars, catalogVars>>

\* A layer with this ID is taken for this layer.
LookLayer(w) ==
  /\ stage[w] = "look"
  /\ IF LayersDone(w) THEN Loop(w, "look", "create", 0)
     ELSE IF Present(Id(w)) THEN Loop(w, "look", "look", k[w] + 1)
     ELSE Step(w, "look", "put")
  /\ UNCHANGED machineVars

\* Mutant: a layer created since is an error.
DuplicateFails(w) ==
  /\ stage[w] = "put"
  /\ \/ /\ layer[Id(w)] # None
        /\ Conclude(w, "put", "error")
        /\ UNCHANGED layer
     \/ /\ layer[Id(w)] = None
        /\ NewLayer(Id(w), [diff |-> Content[Blob(w)], blob |-> Blob(w)])
        /\ Step(w, "put", "check")
  /\ UNCHANGED <<image, name, cache, catalogVars>>

\* PutLayer of the cached blob.  A layer that was present when the plan was made was not fetched:
\* deleted since, it can be applied only if the cache happens to have its blob.
PutLayer(w) ==
  /\ stage[w] = "put"
  /\ \/ /\ layer[Id(w)] # None
        /\ Step(w, "put", "exists")
        /\ UNCHANGED layer
     \/ /\ layer[Id(w)] = None /\ Blob(w) \in cache
        /\ NewLayer(Id(w), [diff |-> Content[Blob(w)], blob |-> Blob(w)])
        /\ Step(w, "put", "check")
     \/ /\ layer[Id(w)] = None /\ (Blob(w) \notin cache \/ ~Present(Parent(Id(w))))
        /\ Conclude(w, "put", "error")
        /\ UNCHANGED layer
  /\ UNCHANGED <<image, name, cache, catalogVars>>

\* ErrDuplicateID: reusable when its content agrees.
ReuseLayer(w) ==
  /\ stage[w] = "exists"
  /\ IF Present(Id(w)) /\ layer[Id(w)].diff = DiffId(w)
     THEN Loop(w, "exists", "look", k[w] + 1)
     ELSE Conclude(w, "exists", "error")
  /\ UNCHANGED machineVars

\* The layer that PutLayer returned has another diffID: it is deleted.
CheckLayer(w) ==
  /\ stage[w] = "check"
  /\ IF Content[Blob(w)] = DiffId(w)
     THEN Loop(w, "check", "look", k[w] + 1) /\ UNCHANGED layer
     ELSE Conclude(w, "check", "error") /\ DeleteLayer(Id(w))
  /\ UNCHANGED <<image, name, cache, catalogVars>>

\* Mutant: the record is created without its manifests.
BareImage(w) ==
  /\ stage[w] = "create"
  /\ image[Config(w)] = None /\ Present(Top(Config(w)))
  /\ image' = [image EXCEPT ![Config(w)] =
                 [top |-> Top(Config(w)), manifests |-> {}, default |-> None]]
  /\ Step(w, "create", "name")
  /\ UNCHANGED <<layer, name, cache, catalogVars>>

\* Mutant: parent is not moved past a layer that was there.
ParentLeftBehind(w) ==
  /\ stage[w] = "create"
  /\ NewRecord(Config(w), ChainId(Config(w), Len(Img(w).layers) - 1), Img(w))
  /\ Step(w, "create", "name")
  /\ UNCHANGED <<layer, name, cache, catalogVars>>

CreateImage(w) ==
  /\ stage[w] = "create"
  /\ \/ /\ NewRecord(Config(w), Top(Config(w)), Img(w))
        /\ Step(w, "create", "name")
     \/ /\ image[Config(w)] # None
        /\ Step(w, "create", "reuse")
        /\ UNCHANGED image
     \/ /\ image[Config(w)] = None /\ ~Present(Top(Config(w)))
        /\ Conclude(w, "create", "error")
        /\ UNCHANGED image
  /\ UNCHANGED <<layer, name, cache, catalogVars>>

\* Mutant: a record that exists ends the entry, named or not.
RecordIsEnough(w) ==
  /\ stage[w] = "reuse"
  /\ IF image[Config(w)] = None THEN Conclude(w, "reuse", "error")
                                ELSE Conclude(w, "reuse", "ok")
  /\ UNCHANGED machineVars

\* ErrDuplicateID: a record on the same top layer is extended.
ReuseImage(w) ==
  /\ stage[w] = "reuse"
  /\ IF image[Config(w)] = None THEN Conclude(w, "reuse", "error")
     ELSE IF image[Config(w)].top # Top(Config(w)) THEN Conclude(w, "reuse", "conflict")
     ELSE Loop(w, "reuse", "data", 1)
  /\ UNCHANGED machineVars

\* SetImageBigData of the config (which a record has already), manifest-<digest>, manifest.
SetBigData(w) ==
  /\ stage[w] = "data"
  /\ LET c == Config(w)
     IN  IF image[c] = None THEN Conclude(w, "data", "error") /\ UNCHANGED image
         ELSE /\ image' = CASE k[w] = 1 -> image
                            [] k[w] = 2 -> [image EXCEPT ![c].manifests = @ \cup {Img(w)}]
                            [] OTHER    -> [image EXCEPT ![c].default = Img(w)]
              /\ IF k[w] < 3 THEN Loop(w, "data", "data", k[w] + 1) ELSE Loop(w, "data", "name", 0)
  /\ UNCHANGED <<layer, name, cache, catalogVars>>

AddNames(w) ==
  /\ stage[w] = "name"
  /\ \/ AddName(Config(w), Current(w).ref) /\ Conclude(w, "name", "ok")
     \/ image[Config(w)] = None /\ Conclude(w, "name", "error") /\ UNCHANGED name
  /\ UNCHANGED <<layer, image, cache, catalogVars>>

-----------------------------------------------------------------------------
(* Failures, cancellation, crashes; podman.                                 *)

\* A call fails, and with it the planning of an entry (a download may have done a part) ...
FailPlan(w) ==
  /\ stage[w] = "resolve" /\ todo[w] # <<>>
  /\ LET r == Head(todo[w])
     IN  \E D \in Partly(IF InStore(r) = None THEN Registry[r] ELSE None) : Download(D)
  /\ unplanned' = [unplanned EXCEPT ![w] = @ \cup {Head(todo[w])}]
  /\ todo' = [todo EXCEPT ![w] = Tail(@)]
  /\ calm' = [calm EXCEPT ![w] = FALSE]
  /\ UNCHANGED <<storageVars, catalogVars, stage, plan, k, answer, cancelled>>

\* ... or the entry ...
FailEntry(w) ==
  /\ stage[w] \in EntryStages \ {"look", "check"}
  /\ stage' = [stage EXCEPT ![w] = "entry"]
  /\ answer' = [answer EXCEPT ![w] = Append(@, "error")]
  /\ k' = [k EXCEPT ![w] = 0]
  /\ calm' = [calm EXCEPT ![w] = FALSE]
  /\ UNCHANGED <<machineVars, todo, unplanned, plan, cancelled>>

\* ... but when Layer fails, the layer is taken to be absent.
FailLayer(w) ==
  /\ calm' = [calm EXCEPT ![w] = FALSE]
  /\ \/ PrefixEnds(w)
     \/ /\ stage[w] = "look" /\ ~LayersDone(w)
        /\ stage' = [stage EXCEPT ![w] = "put"]
        /\ UNCHANGED <<machineVars, todo, unplanned, plan, k, answer, cancelled>>

Cancel(w) ==
  /\ stage[w] \notin {"idle", "done"} \cup PlanStages
  /\ ~cancelled[w]
  /\ cancelled' = [cancelled EXCEPT ![w] = TRUE]
  /\ UNCHANGED <<machineVars, stage, todo, unplanned, plan, k, answer, calm>>

\* The process is done with the answers, or dies: its locals are gone.
Leave(w) ==
  /\ stage[w] # "idle"
  /\ stage' = [stage EXCEPT ![w] = "idle"]
  /\ todo' = [todo EXCEPT ![w] = <<>>]
  /\ unplanned' = [unplanned EXCEPT ![w] = {}]
  /\ plan' = [plan EXCEPT ![w] = <<>>]
  /\ k' = [k EXCEPT ![w] = 0]
  /\ answer' = [answer EXCEPT ![w] = <<>>]
  /\ cancelled' = [cancelled EXCEPT ![w] = FALSE]
  /\ calm' = [calm EXCEPT ![w] = TRUE]
  /\ UNCHANGED machineVars

PlanStep(w) == Resolve(w) \/ FindPrefix(w) \/ BeginEntries(w)
EntryStep(w) ==
  \/ BeginEntry(w) \/ SkipEntry(w) \/ EndPull(w)
  \/ KeepBlob(w) \/ KeepMarkers(w) \/ KeepLeaf(w)
  \/ Fetch(w) \/ LookLayer(w) \/ PutLayer(w) \/ ReuseLayer(w) \/ CheckLayer(w)
  \/ CreateImage(w) \/ ReuseImage(w) \/ SetBigData(w) \/ AddNames(w)
PullStep(w) == PlanStep(w) \/ EntryStep(w)
PullFault(w) == FailPlan(w) \/ FailEntry(w) \/ FailLayer(w) \/ Cancel(w)

PullNext == \E w \in Pullers : BeginPull(w) \/ PullStep(w) \/ PullFault(w) \/ Leave(w)
=============================================================================
