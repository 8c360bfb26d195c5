---------------------------- MODULE ExchangeProofs ----------------------------
(***************************************************************************)
(* Proofs about Exchange, for every set of pulls and pushes, references    *)
(* and images.                                                             *)
(*                                                                         *)
(* What a process knows of the storage may be gone at its next step; what  *)
(* it knows of the cache and the store stays, as these only grow (Grows).  *)
(* So a pull at a stage knows that its image is kept (Kept), a push that   *)
(* what it chose is there (Chose): PullerInv and PusherInv, which each     *)
(* step of a process establishes for itself and no step of another hurts.  *)
(***************************************************************************)
EXTENDS Exchange, StorageProofs, FiniteSetTheorems

-----------------------------------------------------------------------------
(* Manifests.                                                               *)

LEMMA ManifestShape ==
  ASSUME NEW m \in Manifest
  PROVE  /\ m.config \in Configs /\ m.layers \in Seq(Layers) /\ Len(m.layers) \in Nat
         /\ DOMAIN m.layers = 1..Len(m.layers)
         /\ \A i \in 1..Len(m.layers) : m.layers[i] \in Layers
         /\ Listed(m) \subseteq Layers /\ Needs(m) \subseteq Digests
         /\ m \in Needs(m) /\ m.config \in Needs(m) /\ m # None
         /\ DiffIdsOf[m.config] \in Seq(DiffIds) /\ Len(DiffIdsOf[m.config]) \in Nat
         /\ \A i \in 1..Len(DiffIdsOf[m.config]) : DiffIdsOf[m.config][i] \in DiffIds
  <1>1. m.config \in Configs /\ m.layers \in Seq(Layers)
    BY DEF Manifest
  <1>2. /\ Len(m.layers) \in Nat /\ DOMAIN m.layers = 1..Len(m.layers)
        /\ \A i \in 1..Len(m.layers) : m.layers[i] \in Layers
    BY <1>1
  <1>3. Listed(m) \subseteq Layers
    BY <1>2 DEF Listed
  <1>4. Needs(m) \subseteq Digests /\ m \in Needs(m) /\ m.config \in Needs(m)
    BY <1>1, <1>3 DEF Needs, Digests
  <1>5. DiffIdsOf[m.config] \in Seq(DiffIds)
    BY <1>1, CStorageAssumption
  <1>6. /\ Len(DiffIdsOf[m.config]) \in Nat
        /\ \A i \in 1..Len(DiffIdsOf[m.config]) : DiffIdsOf[m.config][i] \in DiffIds
    BY <1>5
  <1> QED
    BY <1>1, <1>2, <1>3, <1>4, <1>5, <1>6, CStorageAssumption

LEMMA RegistryShape ==
  ASSUME NEW r \in Refs
  PROVE  /\ Registry[r] # None => Registry[r] \in Manifest
         /\ Pin[r] # None => Pin[r] \in Manifest
  BY PullAssumption, CStorageAssumption

-----------------------------------------------------------------------------
(* The locals of a pull.                                                    *)

PullStages == {"idle", "entry", "done"} \cup PlanStages \cup EntryStages

PullTypes ==
  /\ stage \in [Pullers -> PullStages]
  /\ todo \in [Pullers -> Seq(Refs)]
  /\ unplanned \in [Pullers -> SUBSET Refs]
  /\ plan \in [Pullers -> Seq(Entry)]
  /\ k \in [Pullers -> Nat]
  /\ answer \in [Pullers -> Seq(Answers)]
  /\ cancelled \in [Pullers -> BOOLEAN]
  /\ calm \in [Pullers -> BOOLEAN]

LayerStages == {"put", "exists", "check"}

\* Where w is in its plan.
PlaceOk(w) ==
  /\ \A i \in 1..Len(plan[w]) :
       /\ Len(DiffIdsOf[plan[w][i].m.config]) = Len(plan[w][i].m.layers)
       /\ plan[w][i].from >= 1
  /\ Len(answer[w]) <= Len(plan[w])
  /\ stage[w] \in EntryStages => Len(answer[w]) < Len(plan[w])
  /\ stage[w] \in {"idle"} \cup PlanStages => answer[w] = <<>>
  /\ stage[w] = "prefix" => Len(plan[w]) >= 1
  /\ stage[w] \in {"fetch", "look"} \cup LayerStages => k[w] >= 1
  /\ stage[w] \in LayerStages => k[w] <= Len(plan[w][Len(answer[w]) + 1].m.layers)

PlacesOk == \A w \in Pullers : PlaceOk(w)

\* What the others have stays.
OtherPullers(w) ==
  \A v \in Pullers \ {w} :
    /\ stage'[v] = stage[v] /\ todo'[v] = todo[v] /\ plan'[v] = plan[v]
    /\ k'[v] = k[v] /\ answer'[v] = answer[v]
    /\ unplanned'[v] = unplanned[v] /\ calm'[v] = calm[v]

LEMMA PlaceOfOthers ==
  ASSUME PlacesOk, NEW w \in Pullers, OtherPullers(w), PlaceOk(w)'
  PROVE  PlacesOk'
  <1> SUFFICES ASSUME NEW v \in Pullers \ {w} PROVE PlaceOk(v)'
    BY DEF PlacesOk
  <1>1. stage'[v] = stage[v] /\ plan'[v] = plan[v] /\ k'[v] = k[v] /\ answer'[v] = answer[v]
    BY DEF OtherPullers
  <1>2. PlaceOk(v)
    BY DEF PlacesOk
  <1> QED
    BY <1>1, <1>2 DEF PlaceOk

\* The entry w is at.
LEMMA AtEntry ==
  ASSUME PullTypes, NEW w \in Pullers, PlaceOk(w), Len(answer[w]) < Len(plan[w])
  PROVE  /\ Current(w) \in Entry /\ Img(w) \in Manifest /\ Config(w) \in Configs
         /\ Current(w).ref \in Refs /\ Current(w).fallback \in BOOLEAN
         /\ Current(w).from \in Nat /\ Current(w).from >= 1
         /\ Len(DiffIdsOf[Config(w)]) = Len(Img(w).layers)
         /\ Len(answer[w]) + 1 \in 1..Len(plan[w])
  <1>1. plan[w] \in Seq(Entry) /\ answer[w] \in Seq(Answers)
    BY DEF PullTypes
  <1>2. Len(answer[w]) + 1 \in 1..Len(plan[w])
    BY <1>1
  <1>3. Current(w) \in Entry
    BY <1>1, <1>2 DEF Current
  <1>4. /\ Img(w) \in Manifest /\ Current(w).ref \in Refs /\ Current(w).from \in Nat
        /\ Current(w).fallback \in BOOLEAN
    BY <1>3 DEF Entry, Img
  <1>5. Config(w) \in Configs
    BY <1>4, ManifestShape DEF Config
  <1> QED
    BY <1>2, <1>3, <1>4, <1>5 DEF PlaceOk, Current, Img, Config

-----------------------------------------------------------------------------
(* The shapes of a pull's step.                                             *)

\* w goes on with its entry, at item n.
Goes(w, to, n) ==
  /\ stage' = [stage EXCEPT ![w] = to]
  /\ k' = [k EXCEPT ![w] = n]
  /\ UNCHANGED <<todo, unplanned, plan, answer, cancelled>>
  /\ calm' = calm \/ calm' = [calm EXCEPT ![w] = FALSE]

\* The entry ends with r.
Ends(w, r) ==
  /\ stage' = [stage EXCEPT ![w] = "entry"]
  /\ answer' = [answer EXCEPT ![w] = Append(@, r)]
  /\ k' = [k EXCEPT ![w] = 0]
  /\ UNCHANGED <<todo, unplanned, plan, cancelled>>
  /\ calm' = calm \/ calm' = [calm EXCEPT ![w] = FALSE]

LEMMA GoesOn ==
  ASSUME PullTypes, PlacesOk, NEW w \in Pullers, NEW to \in PullStages, NEW n \in Nat, Goes(w, to, n),
         to \notin {"idle"} \cup PlanStages,
         to \in EntryStages => Len(answer[w]) < Len(plan[w]),
         to \in {"fetch", "look"} \cup LayerStages => n >= 1,
         to \in LayerStages => n <= Len(plan[w][Len(answer[w]) + 1].m.layers)
  PROVE  PullTypes' /\ PlacesOk' /\ OtherPullers(w) /\ stage'[w] = to /\ k'[w] = n
  <1>1. PullTypes' /\ OtherPullers(w) /\ stage'[w] = to /\ k'[w] = n
    BY DEF PullTypes, Goes, OtherPullers
  <1>2. PlaceOk(w)'
    BY <1>1 DEF PlacesOk, PlaceOk, Goes, PlanStages
  <1> QED
    BY <1>1, <1>2, PlaceOfOthers

LEMMA EndsEntry ==
  ASSUME PullTypes, PlacesOk, NEW w \in Pullers, NEW r \in Answers, Ends(w, r),
         Len(answer[w]) < Len(plan[w])
  PROVE  /\ PullTypes' /\ PlacesOk' /\ OtherPullers(w) /\ stage'[w] = "entry"
         /\ answer'[w] = Append(answer[w], r)
  <1>1. answer[w] \in Seq(Answers) /\ Append(answer[w], r) \in Seq(Answers)
        /\ Len(Append(answer[w], r)) = Len(answer[w]) + 1
    BY DEF PullTypes
  <1>2. PullTypes'
    BY <1>1 DEF PullTypes, Ends, PullStages
  <1>3. OtherPullers(w) /\ stage'[w] = "entry" /\ answer'[w] = Append(answer[w], r)
        /\ k'[w] = 0 /\ plan' = plan
    BY <1>1 DEF PullTypes, Ends, OtherPullers
  <1>4. Len(answer'[w]) <= Len(plan[w])
    BY <1>1, <1>3 DEF PullTypes
  <1>5. PlaceOk(w)'
    BY <1>3, <1>4 DEF PlacesOk, PlaceOk, PlanStages, EntryStages, LayerStages
  <1> QED
    BY <1>2, <1>3, <1>5, PlaceOfOthers

-----------------------------------------------------------------------------
(* Every step of a pull has one of the shapes.                              *)

\* The steps of an entry.
EntryMove(w) ==
  \/ \E to \in PullStages, n \in Nat :
       /\ Goes(w, to, n)
       /\ to \notin {"idle"} \cup PlanStages
       /\ to \in EntryStages => Len(answer[w]) < Len(plan[w])
       /\ to \in {"fetch", "look"} \cup LayerStages => n >= 1
       /\ to \in LayerStages => n <= Len(Img(w).layers)
  \/ \E r \in Answers : Ends(w, r) /\ Len(answer[w]) < Len(plan[w])

LEMMA StepGoes ==
  ASSUME PullTypes, NEW w \in Pullers, NEW from, NEW to, Step(w, from, to)
  PROVE  Goes(w, to, k[w]) /\ stage[w] = from
  BY DEF Step, Goto, Goes, PullTypes

LEMMA LoopGoes ==
  ASSUME PullTypes, NEW w \in Pullers, NEW from, NEW to, NEW n, Loop(w, from, to, n)
  PROVE  Goes(w, to, n) /\ stage[w] = from
  BY DEF Loop, Goto, Goes, PullTypes

LEMMA ConcludeEnds ==
  ASSUME NEW w \in Pullers, NEW from, NEW r, Conclude(w, from, r)
  PROVE  Ends(w, r) /\ stage[w] = from
  BY DEF Conclude, Ends

LEMMA EntryStepMoves ==
  ASSUME PullTypes, PlacesOk, NEW w \in Pullers, EntryStep(w) \/ FailEntry(w)
  PROVE  EntryMove(w)
  <1>0. /\ k[w] \in Nat /\ k[w] + 1 \in Nat /\ PlaceOk(w)
        /\ stage[w] \in EntryStages => Len(answer[w]) < Len(plan[w])
        /\ Len(answer[w]) < Len(plan[w]) => Len(Img(w).layers) \in Nat
    <2>1. PlaceOk(w)
      BY DEF PlacesOk
    <2>2. Len(answer[w]) < Len(plan[w]) => Len(Img(w).layers) \in Nat
      BY <2>1, AtEntry, ManifestShape
    <2> QED
      BY <2>1, <2>2 DEF PullTypes, PlaceOk
  <1> DEFINE Moves(to, n) ==
        /\ to \in PullStages /\ to \notin {"idle"} \cup PlanStages /\ n \in Nat
        /\ to \in EntryStages => Len(answer[w]) < Len(plan[w])
        /\ to \in {"fetch", "look"} \cup LayerStages => n >= 1
        /\ to \in LayerStages => n <= Len(Img(w).layers)
  <1>1. ASSUME NEW from, NEW to, Step(w, from, to), Moves(to, k[w]) PROVE EntryMove(w)
    BY <1>1, StepGoes DEF EntryMove
  <1>2. ASSUME NEW from, NEW to, NEW n, Loop(w, from, to, n), Moves(to, n) PROVE EntryMove(w)
    BY <1>2, LoopGoes DEF EntryMove
  <1>3. ASSUME NEW from, NEW r \in Answers, Conclude(w, from, r), Len(answer[w]) < Len(plan[w])
        PROVE  EntryMove(w)
    BY <1>3, ConcludeEnds DEF EntryMove
  <1>a. {"ok", "error", "conflict", "cancelled"} \subseteq Answers
    BY DEF Answers
  <1> USE DEF PullStages, PlanStages, EntryStages, LayerStages
  <1>4. CASE BeginEntry(w)
    <2>1. Current(w).from \in Nat /\ Current(w).from >= 1 /\ Len(answer[w]) < Len(plan[w])
      BY <1>0, <1>4, AtEntry DEF BeginEntry, Left
    <2> QED
      BY <1>0, <1>1, <1>2, <1>4, <2>1 DEF BeginEntry
  <1>5. CASE SkipEntry(w)
    BY <1>3, <1>5, <1>a DEF SkipEntry, Left
  <1>6. CASE EndPull(w)
    BY <1>0, <1>1, <1>6 DEF EndPull
  <1>7. CASE KeepBlob(w) \/ KeepMarkers(w)
    BY <1>0, <1>1, <1>7 DEF KeepBlob, KeepMarkers, Step, Goto
  <1>8. CASE KeepLeaf(w)
    <2>1. /\ Current(w).from \in Nat /\ Current(w).from >= 1 /\ Len(answer[w]) < Len(plan[w])
      BY <1>0, <1>8, AtEntry DEF KeepLeaf
    <2> QED
      BY <1>2, <1>3, <1>8, <1>a, <2>1 DEF KeepLeaf
  <1>9. CASE Fetch(w)
    BY <1>0, <1>2, <1>3, <1>9, <1>a DEF Fetch
  <1>10. CASE LookLayer(w)
    BY <1>0, <1>1, <1>2, <1>10 DEF LookLayer, LayersDone, PlaceOk
  <1>11. CASE PutLayer(w)
    BY <1>0, <1>1, <1>3, <1>11, <1>a DEF PutLayer, PlaceOk, Img, Current
  <1>12. CASE ReuseLayer(w) \/ CheckLayer(w)
    BY <1>0, <1>2, <1>3, <1>12, <1>a DEF ReuseLayer, CheckLayer
  <1>13. CASE CreateImage(w) \/ ReuseImage(w)
    BY <1>0, <1>1, <1>2, <1>3, <1>13, <1>a DEF CreateImage, ReuseImage
  <1>14. CASE SetBigData(w)
    BY <1>0, <1>2, <1>3, <1>14, <1>a DEF SetBigData
  <1>15. CASE AddNames(w)
    BY <1>0, <1>3, <1>15, <1>a DEF AddNames
  <1>16. CASE FailEntry(w)
    <2>1. Ends(w, "error") /\ stage[w] \in EntryStages
      BY <1>16 DEF FailEntry, Ends, machineVars
    <2> QED
      BY <1>0, <1>a, <2>1 DEF EntryMove
  <1> QED
    BY <1>4, <1>5, <1>6, <1>7, <1>8, <1>9, <1>10, <1>11, <1>12, <1>13, <1>14, <1>15, <1>16
       DEF EntryStep

Kept3(w) == PullTypes' /\ PlacesOk' /\ OtherPullers(w)

LEMMA EntryLocals ==
  ASSUME PullTypes, PlacesOk, NEW w \in Pullers, EntryStep(w) \/ FailEntry(w)
  PROVE  Kept3(w)
  <1>1. CASE \E to \in PullStages, n \in Nat :
               /\ Goes(w, to, n)
               /\ to \notin {"idle"} \cup PlanStages
               /\ to \in EntryStages => Len(answer[w]) < Len(plan[w])
               /\ to \in {"fetch", "look"} \cup LayerStages => n >= 1
               /\ to \in LayerStages => n <= Len(Img(w).layers)
    BY <1>1, GoesOn DEF Kept3, Img, Current
  <1>2. CASE \E r \in Answers : Ends(w, r) /\ Len(answer[w]) < Len(plan[w])
    BY <1>2, EndsEntry DEF Kept3
  <1> QED
    BY <1>1, <1>2, EntryStepMoves DEF EntryMove

LEMMA BeginLocals ==
  ASSUME PullTypes, PlacesOk, NEW w \in Pullers, BeginPull(w)
  PROVE  Kept3(w)
  <1>1. PICK s \in Requests[w] : todo' = [todo EXCEPT ![w] = s]
    BY DEF BeginPull
  <1>2. s \in Seq(Refs)
    BY PullAssumption
  <1>3. PullTypes' /\ OtherPullers(w) /\ stage'[w] = "resolve" /\ stage[w] = "idle"
    BY <1>1, <1>2 DEF BeginPull, PullTypes, OtherPullers, PullStages, PlanStages
  <1>4. PlaceOk(w)'
    BY <1>3 DEF BeginPull, PlacesOk, PlaceOk, PlanStages, EntryStages, LayerStages
  <1> QED
    BY <1>3, <1>4, PlaceOfOthers DEF Kept3

\* A reference is planned.
LEMMA PlannedLocals ==
  ASSUME PullTypes, PlacesOk, NEW w \in Pullers, stage[w] = "resolve", todo[w] # <<>>,
         NEW m \in Manifest, NEW f \in BOOLEAN, Len(DiffIdsOf[m.config]) = Len(m.layers),
         Planned(w, m, f)
  PROVE  Kept3(w)
  <1> DEFINE e == [ref |-> Head(todo[w]), m |-> m, from |-> 1, fallback |-> f]
  <1>1. Head(todo[w]) \in Refs /\ Tail(todo[w]) \in Seq(Refs)
    BY DEF PullTypes
  <1>2. e \in Entry /\ e.m = m /\ e.from = 1
    BY <1>1 DEF Entry
  <1> HIDE DEF e
  <1>3. /\ plan[w] \in Seq(Entry) /\ Append(plan[w], e) \in Seq(Entry)
        /\ Len(Append(plan[w], e)) = Len(plan[w]) + 1
        /\ \A i \in 1..Len(plan[w]) : Append(plan[w], e)[i] = plan[w][i]
        /\ Append(plan[w], e)[Len(plan[w]) + 1] = e
    BY <1>2 DEF PullTypes
  <1>4. /\ plan' = [plan EXCEPT ![w] = Append(plan[w], e)]
        /\ stage' = [stage EXCEPT ![w] = "prefix"]
        /\ todo' = [todo EXCEPT ![w] = Tail(todo[w])]
        /\ UNCHANGED <<unplanned, k, answer, cancelled, calm>>
    BY DEF Planned, e
  <1>5. PullTypes' /\ OtherPullers(w)
    BY <1>1, <1>3, <1>4 DEF PullTypes, OtherPullers, PullStages, PlanStages
  <1>6. /\ plan'[w] = Append(plan[w], e) /\ stage'[w] = "prefix" /\ answer' = answer /\ k' = k
        /\ answer[w] = <<>>
    BY <1>4 DEF PullTypes, PlacesOk, PlaceOk, PlanStages
  <1>7. \A i \in 1..Len(plan'[w]) :
          /\ Len(DiffIdsOf[plan'[w][i].m.config]) = Len(plan'[w][i].m.layers)
          /\ plan'[w][i].from >= 1
    <2> SUFFICES ASSUME NEW i \in 1..(Len(plan[w]) + 1)
                 PROVE  /\ Len(DiffIdsOf[plan'[w][i].m.config]) = Len(plan'[w][i].m.layers)
                        /\ plan'[w][i].from >= 1
      BY <1>3, <1>6
    <2>1. CASE i \in 1..Len(plan[w])
      <3>1. plan'[w][i] = plan[w][i]
        BY <1>3, <1>6, <2>1
      <3> QED
        BY <2>1, <3>1 DEF PlacesOk, PlaceOk
    <2>2. CASE i = Len(plan[w]) + 1
      <3>1. plan'[w][i] = e
        BY <1>3, <1>6, <2>2
      <3> QED
        BY <1>2, <3>1
    <2> QED
      BY <1>3, <2>1, <2>2
  <1>8. PlaceOk(w)'
    BY <1>3, <1>6, <1>7 DEF PlaceOk, PlanStages, EntryStages, LayerStages
  <1> QED
    BY <1>5, <1>8, PlaceOfOthers DEF Kept3

\* ... or not.
LEMMA UnplannedLocals ==
  ASSUME PullTypes, PlacesOk, NEW w \in Pullers, todo[w] # <<>>,
         unplanned' = [unplanned EXCEPT ![w] = @ \cup {Head(todo[w])}],
         todo' = [todo EXCEPT ![w] = Tail(@)],
         UNCHANGED <<stage, plan, k, answer, cancelled>>,
         calm' = calm \/ calm' = [calm EXCEPT ![w] = FALSE]
  PROVE  Kept3(w)
  <1>1. Head(todo[w]) \in Refs /\ Tail(todo[w]) \in Seq(Refs)
    BY DEF PullTypes
  <1>2. PullTypes' /\ OtherPullers(w)
    BY <1>1 DEF PullTypes, OtherPullers
  <1>3. PlacesOk'
    BY DEF PlacesOk, PlaceOk
  <1> QED
    BY <1>2, <1>3 DEF Kept3

\* What planEntry finds.
LEMMA FoundShape ==
  ASSUME MachineTypeOK, NEW r \in Refs
  PROVE  InStore(r) # None => InStore(r) \in Manifest
  BY RegistryShape, CStorageAssumption DEF InStore, MachineTypeOK

LEMMA ResolveLocals ==
  ASSUME MachineTypeOK, PullTypes, PlacesOk, NEW w \in Pullers, Resolve(w)
  PROVE  Kept3(w)
  <1>0. stage[w] = "resolve" /\ todo[w] # <<>>
    BY DEF Resolve
  <1> DEFINE r == Head(todo[w])
             fallback == InStore(r) = None
             m == IF fallback THEN Registry[r] ELSE InStore(r)
  <1>1. r \in Refs
    BY <1>0 DEF PullTypes
  <1>2. m # None => m \in Manifest
    BY <1>1, FoundShape, RegistryShape
  <1>3. IF m # None /\ Readable(m, IF fallback THEN cache' ELSE stored)
        THEN Planned(w, m, fallback) ELSE NotPlanned(w)
    BY DEF Resolve
  <1> HIDE DEF m
  <1>4. CASE m # None /\ Readable(m, IF fallback THEN cache' ELSE stored)
    <2>1. Planned(w, m, fallback) /\ Len(DiffIdsOf[m.config]) = Len(m.layers)
      BY <1>3, <1>4 DEF Readable
    <2> QED
      BY <1>0, <1>2, <1>4, <2>1, PlannedLocals
  <1>5. CASE ~(m # None /\ Readable(m, IF fallback THEN cache' ELSE stored))
    BY <1>0, <1>3, <1>5, UnplannedLocals DEF NotPlanned
  <1> QED
    BY <1>4, <1>5

\* The search for the present prefix moves the from of the last entry.
LEMMA PrefixLocals ==
  ASSUME PullTypes, PlacesOk, NEW w \in Pullers,
         FindPrefix(w) \/ (PrefixEnds(w) /\ calm' = [calm EXCEPT ![w] = FALSE])
  PROVE  Kept3(w)
  <1> DEFINE n == Len(plan[w])
  <1>0. stage[w] = "prefix" /\ plan[w] \in Seq(Entry) /\ n \in Nat /\ n >= 1
    BY DEF FindPrefix, PrefixEnds, PullTypes, PlacesOk, PlaceOk
  <1>1. CASE PrefixEnds(w) /\ (calm' = calm \/ calm' = [calm EXCEPT ![w] = FALSE])
    <2>1. PullTypes' /\ OtherPullers(w) /\ stage'[w] = "resolve"
      BY <1>1 DEF PrefixEnds, PullTypes, OtherPullers, PullStages, PlanStages
    <2>2. PlaceOk(w)'
      BY <1>0, <1>1, <2>1 DEF PrefixEnds, PlacesOk, PlaceOk, PlanStages, EntryStages, LayerStages
    <2> QED
      BY <2>1, <2>2, PlaceOfOthers DEF Kept3
  <1>2. CASE /\ plan' = [plan EXCEPT ![w][n].from = @ + 1]
             /\ UNCHANGED <<stage, todo, unplanned, k, answer, cancelled, calm>>
    <2> DEFINE e == [plan[w][n] EXCEPT !.from = @ + 1]
    <2>1. plan[w][n] \in Entry
      BY <1>0
    <2>2. e \in Entry /\ e.m = plan[w][n].m /\ e.from = plan[w][n].from + 1
      BY <2>1 DEF Entry
    <2>3. plan' = [plan EXCEPT ![w] = [plan[w] EXCEPT ![n] = e]]
      BY <1>2
    <2> HIDE DEF e
    <2>4. /\ [plan[w] EXCEPT ![n] = e] \in Seq(Entry)
          /\ Len([plan[w] EXCEPT ![n] = e]) = n
          /\ \A i \in 1..n : [plan[w] EXCEPT ![n] = e][i] = IF i = n THEN e ELSE plan[w][i]
      BY <1>0, <2>2
    <2>5. PullTypes' /\ OtherPullers(w) /\ plan'[w] = [plan[w] EXCEPT ![n] = e]
      BY <1>2, <2>3, <2>4 DEF PullTypes, OtherPullers
    <2>6. \A i \in 1..Len(plan'[w]) :
            /\ Len(DiffIdsOf[plan'[w][i].m.config]) = Len(plan'[w][i].m.layers)
            /\ plan'[w][i].from >= 1
      <3> SUFFICES ASSUME NEW i \in 1..n
                   PROVE  /\ Len(DiffIdsOf[plan'[w][i].m.config]) = Len(plan'[w][i].m.layers)
                          /\ plan'[w][i].from >= 1
        BY <2>4, <2>5
      <3>1. /\ Len(DiffIdsOf[plan[w][i].m.config]) = Len(plan[w][i].m.layers)
            /\ plan[w][i].from >= 1 /\ plan[w][i].from \in Nat
        <4>1. plan[w][i] \in Entry
          BY <1>0
        <4> QED
          BY <4>1 DEF PlacesOk, PlaceOk, Entry
      <3>2. plan'[w][i].m = plan[w][i].m /\ plan'[w][i].from >= plan[w][i].from
            /\ plan'[w][i].from \in Nat
        BY <1>0, <2>2, <2>4, <2>5, <3>1
      <3> QED
        BY <3>1, <3>2
    <2>7. PlaceOk(w)'
      BY <1>0, <1>2, <2>4, <2>5, <2>6
         DEF PlacesOk, PlaceOk, PlanStages, EntryStages, LayerStages
    <2> QED
      BY <2>5, <2>7, PlaceOfOthers DEF Kept3
  <1> QED
    BY <1>1, <1>2 DEF FindPrefix

LEMMA LeaveLocals ==
  ASSUME PullTypes, PlacesOk, NEW w \in Pullers, Leave(w)
  PROVE  Kept3(w)
  <1>1. <<>> \in Seq(Refs) /\ <<>> \in Seq(Entry) /\ <<>> \in Seq(Answers)
    OBVIOUS
  <1>2. PullTypes' /\ OtherPullers(w)
    BY <1>1 DEF Leave, PullTypes, OtherPullers, PullStages
  <1>3. stage'[w] = "idle" /\ plan'[w] = <<>> /\ answer'[w] = <<>>
    BY DEF Leave, PullTypes
  <1>4. PlaceOk(w)'
    BY <1>3 DEF PlaceOk, PlanStages, EntryStages, LayerStages
  <1> QED
    BY <1>2, <1>4, PlaceOfOthers DEF Kept3

LEMMA OtherLocals ==
  ASSUME PullTypes, PlacesOk, NEW w \in Pullers,
         BeginEntries(w) \/ FailPlan(w) \/ FailLayer(w) \/ Cancel(w)
  PROVE  Kept3(w)
  <1>1. CASE BeginEntries(w)
    <2>1. Goes(w, "entry", k[w]) /\ k[w] \in Nat
      BY <1>1, StepGoes DEF BeginEntries, PullTypes
    <2> QED
      BY <2>1, GoesOn DEF Kept3, PullStages, PlanStages, EntryStages, LayerStages
  <1>2. CASE FailPlan(w)
    BY <1>2, UnplannedLocals DEF FailPlan
  <1>3. CASE PrefixEnds(w) /\ calm' = [calm EXCEPT ![w] = FALSE]
    BY <1>3, PrefixLocals
  <1>4. CASE /\ stage[w] = "look" /\ ~LayersDone(w) /\ calm' = [calm EXCEPT ![w] = FALSE]
             /\ stage' = [stage EXCEPT ![w] = "put"]
             /\ UNCHANGED <<machineVars, todo, unplanned, plan, k, answer, cancelled>>
    <2>1. /\ Goes(w, "put", k[w]) /\ k[w] \in Nat /\ k[w] >= 1
          /\ Len(answer[w]) < Len(plan[w])
      BY <1>4 DEF Goes, PullTypes, PlacesOk, PlaceOk, EntryStages
    <2>2. k[w] <= Len(plan[w][Len(answer[w]) + 1].m.layers)
      <3>1. Len(Img(w).layers) \in Nat
        BY <2>1, AtEntry, ManifestShape DEF PlacesOk
      <3> QED
        BY <1>4, <2>1, <3>1 DEF LayersDone, Img, Current
    <2> QED
      BY <2>1, <2>2, GoesOn DEF Kept3, PullStages, PlanStages, EntryStages, LayerStages
  <1>5. CASE Cancel(w)
    BY <1>5, PlaceOfOthers DEF Cancel, PullTypes, OtherPullers, Kept3, PlacesOk, PlaceOk
  <1> QED
    BY <1>1, <1>2, <1>3, <1>4, <1>5 DEF FailLayer

LEMMA PullLocals ==
  ASSUME MachineTypeOK, PullTypes, PlacesOk, NEW w \in Pullers,
         BeginPull(w) \/ PullStep(w) \/ PullFault(w) \/ Leave(w)
  PROVE  Kept3(w)
  BY BeginLocals, ResolveLocals, PrefixLocals, OtherLocals, EntryLocals, LeaveLocals
     DEF PullStep, PlanStep, PullFault

-----------------------------------------------------------------------------
(* What a pull does to the storage.                                         *)

\* The layer w is at.
LEMMA AtLayer ==
  ASSUME PullTypes, PlacesOk, NEW w \in Pullers, stage[w] \in LayerStages
  PROVE  /\ Id(w) \in LayerIds /\ Blob(w) \in Layers
         /\ [diff |-> Content[Blob(w)], blob |-> Blob(w)] \in LayerRecord
  <1>1. /\ PlaceOk(w) /\ Len(answer[w]) < Len(plan[w])
        /\ k[w] \in Nat /\ k[w] >= 1 /\ k[w] <= Len(Img(w).layers)
    BY DEF PlacesOk, PlaceOk, PullTypes, EntryStages, LayerStages, Img, Current
  <1>2. /\ Img(w) \in Manifest /\ Config(w) \in Configs
        /\ Len(DiffIdsOf[Config(w)]) = Len(Img(w).layers)
    BY <1>1, AtEntry
  <1>3. k[w] \in 1..Len(Img(w).layers)
    BY <1>1, <1>2, ManifestShape
  <1>4. Blob(w) \in Layers
    BY <1>2, <1>3, ManifestShape DEF Blob
  <1>5. [diff |-> Content[Blob(w)], blob |-> Blob(w)] \in LayerRecord
    BY <1>4, CStorageAssumption DEF LayerRecord
  <1> DEFINE c == Config(w)
             n == k[w]
             id == SubSeq(DiffIdsOf[c], 1, n)
  <1>6. DiffIdsOf[c] \in Tops(c) /\ DiffIdsOf[c] \in Seq(DiffIds) /\ n \in 1..Len(DiffIdsOf[c])
    BY <1>2, <1>3, CStorageAssumption DEF Tops, Top
  <1>7. DiffIdsOf[c] \in Ids /\ Len(DiffIdsOf[c]) \in Nat
    BY <1>6 DEF Ids
  <1>8. n \in 0..Len(DiffIdsOf[c]) /\ 1 \in 1..n
    BY <1>1, <1>6, <1>7
  <1>9. id \in LayerIds \cup Bases
    BY <1>2, <1>6, <1>8, FirstOfTop
  <1>10. id \in Ids /\ Len(id) = n /\ id[1] = DiffIdsOf[c][1]
    BY <1>7, <1>8, FirstOf
  <1>11. id[1] \in DiffIds
    <2>1. 1 \in 1..Len(DiffIdsOf[c])
      BY <1>7, <1>8
    <2> QED
      BY <1>6, <1>10, <2>1
  <1>13. Id(w) = id
    BY DEF Id, ChainId
  <1> HIDE DEF id
  <1>12. id # <<>> /\ id # <<Toc>>
    <2>1. <<Toc>>[1] = Toc /\ Toc \notin DiffIds
      BY CStorageAssumption
    <2>2. Len(<<>>) = 0 /\ n >= 1
      BY <1>1
    <2> QED
      BY <1>10, <1>11, <2>1, <2>2
  <1> QED
    BY <1>4, <1>5, <1>9, <1>12, <1>13 DEF Bases

LEMMA PullStorage ==
  ASSUME StorageInv, PullTypes, PlacesOk, NEW w \in Pullers,
         BeginPull(w) \/ PullStep(w) \/ PullFault(w) \/ Leave(w)
  PROVE  StorageInv'
  <1>0. stage[w] \in EntryStages =>
          /\ Img(w) \in Manifest /\ Config(w) \in Configs /\ Current(w).ref \in Refs
          /\ Img(w).config = Config(w)
    BY AtEntry DEF PlacesOk, PlaceOk, Config
  <1> USE DEF EntryStages, LayerStages
  <1>1. CASE PutLayer(w)
    <2>1. stage[w] = "put"
      BY <1>1 DEF PutLayer
    <2>2. CASE layer' = layer
      BY <1>1, <2>2, StorageSame DEF PutLayer, storageVars
    <2>3. CASE NewLayer(Id(w), [diff |-> Content[Blob(w)], blob |-> Blob(w)])
      BY <1>1, <2>1, <2>3, AtLayer, NewLayerKeeps DEF PutLayer
    <2> QED
      BY <1>1, <2>2, <2>3 DEF PutLayer
  <1>2. CASE CheckLayer(w)
    <2>1. stage[w] = "check"
      BY <1>2 DEF CheckLayer
    <2>2. CASE layer' = layer
      BY <1>2, <2>2, StorageSame DEF CheckLayer, storageVars
    <2>3. CASE DeleteLayer(Id(w))
      BY <1>2, <2>1, <2>3, AtLayer, DeleteLayerKeeps DEF CheckLayer
    <2> QED
      BY <1>2, <2>2, <2>3 DEF CheckLayer
  <1>3. CASE CreateImage(w)
    <2>1. stage[w] = "create" /\ Top(Config(w)) \in Tops(Config(w))
      BY <1>3 DEF CreateImage, Tops
    <2>2. CASE image' = image
      BY <1>3, <2>2, StorageSame DEF CreateImage, storageVars
    <2>3. CASE NewRecord(Config(w), Top(Config(w)), Img(w))
      BY <1>0, <1>3, <2>1, <2>3, NewRecordKeeps DEF CreateImage
    <2> QED
      BY <1>3, <2>2, <2>3 DEF CreateImage
  <1>4. CASE SetBigData(w)
    <2>1. stage[w] = "data" /\ UNCHANGED <<layer, name>>
      BY <1>4 DEF SetBigData
    <2>2. CASE image' = image
      BY <2>1, <2>2, StorageSame DEF storageVars
    <2>3. CASE image' # image
      <3>1. /\ image[Config(w)] # None
            /\ \/ image' = image
               \/ image' = [image EXCEPT ![Config(w)].manifests = @ \cup {Img(w)}]
               \/ image' = [image EXCEPT ![Config(w)].default = Img(w)]
        BY <1>4, <2>3 DEF SetBigData
      <3> QED
        BY <1>0, <2>1, <3>1, UpdateKeeps
    <2> QED
      BY <2>2, <2>3
  <1>5. CASE AddNames(w)
    <2>1. stage[w] = "name" /\ UNCHANGED <<layer, image>>
      BY <1>5 DEF AddNames
    <2>2. CASE name' = name
      BY <2>1, <2>2, StorageSame DEF storageVars
    <2>3. CASE AddName(Config(w), Current(w).ref)
      BY <1>0, <2>1, <2>3, AddNameKeeps
    <2> QED
      BY <1>5, <2>2, <2>3 DEF AddNames
  <1>6. CASE BeginPull(w) \/ PlanStep(w) \/ PullFault(w) \/ Leave(w)
    <2>1. UNCHANGED storageVars
      BY <1>6 DEF BeginPull, PlanStep, Resolve, FindPrefix, PrefixEnds, BeginEntries, PullFault,
         FailPlan, FailEntry, FailLayer, Cancel, Leave, machineVars
    <2> QED
      BY <2>1, StorageSame
  <1>7. CASE \/ BeginEntry(w) \/ SkipEntry(w) \/ EndPull(w) \/ KeepBlob(w) \/ KeepMarkers(w)
             \/ KeepLeaf(w) \/ Fetch(w) \/ LookLayer(w) \/ ReuseLayer(w) \/ ReuseImage(w)
    <2>1. UNCHANGED storageVars
      BY <1>7 DEF BeginEntry, SkipEntry, EndPull, KeepBlob, KeepMarkers, KeepLeaf, Fetch, LookLayer,
         ReuseLayer, ReuseImage, machineVars
    <2> QED
      BY <2>1, StorageSame
  <1> QED
    BY <1>1, <1>2, <1>3, <1>4, <1>5, <1>6, <1>7 DEF PullStep, EntryStep

-----------------------------------------------------------------------------
(* The cache and the store only grow.                                       *)

CatalogTypes ==
  /\ cache \subseteq Digests
  /\ stored \subseteq Digests
  /\ markers \subseteq DiffIds \X Digests
  /\ leaf \in [Refs -> Manifest \cup {None}]

LEMMA MachineTypes == MachineTypeOK <=> StorageTypes /\ CatalogTypes
  BY DEF MachineTypeOK, StorageTypes, CatalogTypes

Grows ==
  /\ cache \subseteq cache'
  /\ stored \subseteq stored'
  /\ \A r \in Refs : leaf[r] # None => leaf'[r] = leaf[r]

LEMMA GrowsSame ==
  ASSUME CatalogTypes, UNCHANGED <<cache, catalogVars>>
  PROVE  CatalogTypes' /\ Grows
  BY DEF CatalogTypes, Grows, catalogVars

LEMMA GrowsCache ==
  ASSUME CatalogTypes, NEW D \in SUBSET Digests, cache' = cache \cup D, UNCHANGED catalogVars
  PROVE  CatalogTypes' /\ Grows
  BY DEF CatalogTypes, Grows, catalogVars

LEMMA GrowsUpload ==
  ASSUME CatalogTypes, NEW b \in Digests, Upload(b), UNCHANGED cache
  PROVE  CatalogTypes' /\ Grows
  BY DEF CatalogTypes, Grows, Upload

LEMMA GrowsMarkers ==
  ASSUME CatalogTypes, NEW m \in Manifest, CommitMarkers(m), UNCHANGED cache
  PROVE  CatalogTypes' /\ Grows
  <1>1. \A i \in DOMAIN m.layers : <<DiffIdsOf[m.config][i], m.layers[i]>> \in DiffIds \X Digests
    BY ManifestShape DEF CommitMarkers, CanCommit, Digests
  <1> QED
    BY <1>1 DEF CatalogTypes, Grows, CommitMarkers

LEMMA GrowsLeaf ==
  ASSUME CatalogTypes, NEW r \in Refs, NEW m \in Manifest, CommitLeaf(r, m), UNCHANGED cache
  PROVE  CatalogTypes' /\ Grows
  BY DEF CatalogTypes, Grows, CommitLeaf

LEMMA PullCatalog ==
  ASSUME CatalogTypes, StorageTypes, PullTypes, PlacesOk, NEW w \in Pullers,
         BeginPull(w) \/ PullStep(w) \/ PullFault(w) \/ Leave(w)
  PROVE  CatalogTypes' /\ Grows
  <1>0. /\ stage[w] \in EntryStages => Img(w) \in Manifest /\ Current(w).ref \in Refs
        /\ todo[w] # <<>> => Head(todo[w]) \in Refs
    <2>1. stage[w] \in EntryStages => Img(w) \in Manifest /\ Current(w).ref \in Refs
      BY AtEntry DEF PlacesOk, PlaceOk
    <2>2. todo[w] # <<>> => Head(todo[w]) \in Refs
      BY DEF PullTypes
    <2> QED
      BY <2>1, <2>2
  <1>a. \A m \in Manifest : Needs(m) \subseteq Digests
    BY ManifestShape
  <1> USE DEF EntryStages
  <1>1. CASE Resolve(w)
    <2> DEFINE r == Head(todo[w])
               m == IF InStore(r) = None THEN Registry[r] ELSE InStore(r)
    <2>1. /\ todo[w] # <<>> /\ UNCHANGED catalogVars
          /\ cache' = cache \/ (m # None /\ InStore(r) = None /\ cache' = cache \cup Needs(m))
      BY <1>1 DEF Resolve, Download
    <2>2. InStore(r) = None /\ m # None => m \in Manifest
      BY <1>0, <2>1, RegistryShape
    <2> HIDE DEF m
    <2>3. CASE cache' = cache
      BY <2>1, <2>3, GrowsSame
    <2>4. CASE m # None /\ InStore(r) = None /\ cache' = cache \cup Needs(m)
      BY <1>a, <2>1, <2>2, <2>4, GrowsCache
    <2> QED
      BY <2>1, <2>3, <2>4
  <1>2. CASE FailPlan(w)
    <2> DEFINE r == Head(todo[w])
               m == IF InStore(r) = None THEN Registry[r] ELSE None
    <2>1. todo[w] # <<>> /\ UNCHANGED catalogVars /\ \E D \in Partly(m) : cache' = cache \cup D
      BY <1>2 DEF FailPlan, Download
    <2>2. m # None => m \in Manifest
      BY <1>0, <2>1, RegistryShape
    <2> HIDE DEF m
    <2>3. Partly(m) \subseteq SUBSET Digests
      BY <1>a, <2>2 DEF Partly
    <2> QED
      BY <2>1, <2>3, GrowsCache
  <1>3. CASE KeepBlob(w)
    <2>1. stage[w] = "keep" /\ cache' = cache
      BY <1>3 DEF KeepBlob
    <2>2. CASE UNCHANGED catalogVars
      BY <2>1, <2>2, GrowsSame
    <2>3. ASSUME NEW b \in Needs(Img(w)) \ stored, Upload(b) PROVE CatalogTypes' /\ Grows
      BY <1>0, <1>a, <2>1, <2>3, GrowsUpload
    <2> QED
      BY <1>3, <2>2, <2>3 DEF KeepBlob
  <1>4. CASE KeepMarkers(w)
    <2>1. stage[w] = "markers" /\ CommitMarkers(Img(w)) /\ cache' = cache
      BY <1>4 DEF KeepMarkers, Step, Goto
    <2> QED
      BY <1>0, <2>1, GrowsMarkers
  <1>5. CASE KeepLeaf(w)
    BY <1>0, <1>5, GrowsLeaf DEF KeepLeaf
  <1>6. CASE Fetch(w)
    <2>1. stage[w] = "fetch" /\ UNCHANGED catalogVars
      BY <1>6 DEF Fetch
    <2>2. CASE cache' = cache
      BY <2>1, <2>2, GrowsSame
    <2>3. CASE ~LayersDone(w) /\ cache' = cache \cup {Blob(w)}
      <3>1. k[w] \in 1..Len(Img(w).layers)
        BY <1>0, <2>1, <2>3, ManifestShape DEF LayersDone, PlacesOk, PlaceOk, PullTypes
      <3>2. Blob(w) \in Digests
        BY <1>0, <2>1, <3>1, ManifestShape DEF Blob, Digests
      <3> QED
        BY <2>1, <2>3, <3>2, GrowsCache
    <2> QED
      BY <1>6, <2>2, <2>3 DEF Fetch
  <1>7. CASE \/ BeginPull(w) \/ FindPrefix(w) \/ BeginEntries(w) \/ FailEntry(w) \/ FailLayer(w)
             \/ Cancel(w) \/ Leave(w) \/ BeginEntry(w) \/ SkipEntry(w) \/ EndPull(w)
             \/ LookLayer(w) \/ PutLayer(w) \/ ReuseLayer(w) \/ CheckLayer(w) \/ CreateImage(w)
             \/ ReuseImage(w) \/ SetBigData(w) \/ AddNames(w)
    <2>1. UNCHANGED <<cache, catalogVars>>
      BY <1>7 DEF BeginPull, FindPrefix, PrefixEnds, BeginEntries, FailEntry, FailLayer, Cancel,
         Leave, BeginEntry, SkipEntry, EndPull, LookLayer, PutLayer, ReuseLayer, CheckLayer,
         CreateImage, ReuseImage, SetBigData, AddNames, machineVars
    <2> QED
      BY <2>1, GrowsSame
  <1> QED
    BY <1>1, <1>2, <1>3, <1>4, <1>5, <1>6, <1>7 DEF PullStep, PlanStep, EntryStep, PullFault

-----------------------------------------------------------------------------
(* The locals of a push, and what it knows.                                 *)

FoundRecord == [top : LayerIds \cup Bases, m : Manifest]

SourceTypes ==
  /\ at \in [Pushers -> PushStages]
  /\ ref \in [Pushers -> Refs \cup {None}]
  /\ found \in [Pushers -> FoundRecord \cup {None}]
  /\ chain \in [Pushers -> Seq(ChainLink)]
  /\ picked \in [Pushers -> Seq(Layers)]
  /\ asIs \in [Pushers -> BOOLEAN]
  /\ served \in [Pushers -> Manifest \cup {None}]

Early == {"idle", "find", "chain"}
Choosing == {"asis", "bydiff", "export"}
There == cache \cup stored

\* The blobs chosen so far are there; as long as asIs holds they are the manifest's.
Chose(w) ==
  /\ Len(chain[w]) = Len(found[w].m.layers)
  /\ Len(picked[w]) <= Len(chain[w])
  /\ at[w] # "asis" => Len(picked[w]) < Len(chain[w])
  /\ \A i \in 1..Len(picked[w]) :
       /\ picked[w][i] \in There
       /\ asIs[w] => picked[w][i] = found[w].m.layers[i]

PushOk(w) ==
  /\ at[w] \notin {"idle", "failed"} => ref[w] \in Refs
  /\ at[w] \in {"chain"} \cup Choosing => found[w] \in FoundRecord
  /\ at[w] \in Early => picked[w] = <<>> /\ asIs[w]
  /\ at[w] \in Choosing => Chose(w)
  /\ at[w] \in Serving => served[w] \in Manifest /\ Needs(served[w]) \subseteq There
  /\ at[w] = "publish" => Needs(served[w]) \subseteq stored

PushersOk == \A w \in Pushers : PushOk(w)

SameSource(v) ==
  /\ at'[v] = at[v] /\ ref'[v] = ref[v] /\ found'[v] = found[v] /\ chain'[v] = chain[v]
  /\ picked'[v] = picked[v] /\ asIs'[v] = asIs[v] /\ served'[v] = served[v]

\* Cache and store grow: what w knows stays.
LEMMA PushKeeps ==
  ASSUME NEW w \in Pushers, PushOk(w), Grows, SameSource(w)
  PROVE  PushOk(w)'
  <1>1. There \subseteq There' /\ stored \subseteq stored'
    BY DEF Grows, There
  <1>2. \A m : Needs(m)' = Needs(m)
    BY DEF Needs, Listed
  <1>3. Chose(w) => Chose(w)'
    BY <1>1 DEF Chose, SameSource
  <1> QED
    BY <1>1, <1>2, <1>3 DEF PushOk, SameSource

OtherPushers(w) == \A v \in Pushers \ {w} : SameSource(v)

LEMMA PushOfOthers ==
  ASSUME PushersOk, NEW w \in Pushers, OtherPushers(w), Grows, PushOk(w)'
  PROVE  PushersOk'
  BY PushKeeps DEF PushersOk, OtherPushers

-----------------------------------------------------------------------------
(* find, and the chain of layers.                                           *)

LEMMA CandidateShape ==
  ASSUME StorageTypes, NEW r \in Refs, NEW f \in Candidates(r)
  PROVE  f \in FoundRecord
  <1> DEFINE pinned == {c \in Configs : image[c] # None /\ Pin[r] \in image[c].manifests}
             named == {c \in Configs : image[c] # None /\ name[r] = c}
  <1>1. \A c \in Configs : image[c] # None =>
          /\ image[c].top \in LayerIds \cup Bases /\ image[c].manifests \subseteq Manifest
          /\ image[c].default \in Manifest
    BY DEF StorageTypes, ImageRecord
  <1>2. CASE pinned # {}
    <2>1. PICK c \in pinned : f = [top |-> image[c].top, m |-> Pin[r]]
      BY <1>2 DEF Candidates
    <2>2. image[c].top \in LayerIds \cup Bases /\ Pin[r] \in Manifest
      BY <1>1, <2>1
    <2> QED
      BY <2>1, <2>2 DEF FoundRecord
  <1>3. CASE pinned = {}
    <2>1. PICK c \in named : f = [top |-> image[c].top, m |-> image[c].default]
      BY <1>3 DEF Candidates
    <2>2. image[c].top \in LayerIds \cup Bases /\ image[c].default \in Manifest
      BY <1>1, <2>1
    <2> QED
      BY <2>1, <2>2 DEF FoundRecord
  <1> QED
    BY <1>2, <1>3

LEMMA ChainShape ==
  ASSUME StorageTypes, NEW top \in LayerIds \cup Bases,
         \A id \in LayerIds : Below(id, top) => layer[id] # None
  PROVE  ChainTo(top) \in Seq(ChainLink)
  <1> DEFINE base == IF top # <<>> /\ Head(top) = Toc THEN 1 ELSE 0
             n == Len(top) - base
             link(i) == [id |-> SubSeq(top, 1, base + i), diff |-> layer[SubSeq(top, 1, base + i)].diff,
                         blob |-> layer[SubSeq(top, 1, base + i)].blob]
  <1>1. ChainTo(top) = [i \in 1..n |-> link(i)]
    BY DEF ChainTo
  <1>2. /\ top \in Ids /\ Len(top) \in Nat /\ base \in {0, 1} /\ n \in Nat
        /\ top \in Bases => n = 0
    <2>1. CASE top \in LayerIds
      <3>1. top \in Ids /\ Len(top) \in Nat /\ Len(top) >= 1 /\ top \notin Bases
        BY <2>1, IdShape DEF LayerIds
      <3> QED
        BY <3>1
    <2>2. CASE top = <<>>
      BY <2>2 DEF Ids
    <2>3. CASE top = <<Toc>>
      <3>1. top \in Ids /\ Len(top) = 1 /\ Head(top) = Toc /\ top # <<>>
        BY <2>3 DEF Ids
      <3> QED
        BY <3>1
    <2> QED
      BY <2>1, <2>2, <2>3 DEF Bases
  <1>b. n = Len(top) - base /\ (base = 0 => top = <<>> \/ Head(top) # Toc)
    OBVIOUS
  <1> HIDE DEF base, n
  <1>3. ASSUME NEW i \in 1..n PROVE link(i) \in ChainLink
    <2> DEFINE id == SubSeq(top, 1, base + i)
    <2>1. top \in LayerIds /\ base + i \in 0..Len(top) /\ base + i >= 1
      BY <1>2, <1>3, <1>b
    <2>2. /\ id \in LayerIds \cup Bases /\ id \in Ids /\ Len(id) = base + i /\ Below(id, top)
          /\ \A j \in 1..(base + i) : id[j] = top[j]
      BY <1>2, <2>1, IdShape, FirstOf
    <2> HIDE DEF id
    <2>3. id # <<>>
      BY <2>1, <2>2
    <2>4. id # <<Toc>>
      <3>1. ASSUME id = <<Toc>> PROVE FALSE
        <4>1. Len(id) = 1 /\ id[1] = Toc
          BY <3>1
        <4>2. base = 0 /\ i = 1
          <5>1. i \in Nat /\ i >= 1 /\ base \in Nat
            BY <1>2, <1>3
          <5>2. base + i = 1
            BY <2>2, <4>1
          <5> QED
            BY <5>1, <5>2
        <4>3. Head(top) = Toc /\ top # <<>>
          BY <1>2, <2>1, <2>2, <4>1, <4>2 DEF Ids
        <4> QED
          BY <1>b, <4>2, <4>3
      <3> QED
        BY <3>1
    <2>5. id \in LayerIds
      BY <2>2, <2>3, <2>4 DEF Bases
    <2>6. layer[id] \in LayerRecord
      BY <2>2, <2>5 DEF StorageTypes
    <2>7. [id |-> id, diff |-> layer[id].diff, blob |-> layer[id].blob] \in ChainLink
      BY <2>5, <2>6 DEF ChainLink, LayerRecord
    <2> QED
      BY <2>7 DEF id
  <1> HIDE DEF link
  <1> QED
    BY <1>1, <1>2, <1>3

-----------------------------------------------------------------------------
(* Every step of a push.                                                    *)

LEMMA PushCatalog ==
  ASSUME CatalogTypes, SourceTypes, NEW w \in Pushers, PushOk(w),
         BeginSource(w) \/ SourceStep(w) \/ SourceFail(w) \/ SourceLeave(w)
  PROVE  CatalogTypes' /\ Grows
  <1>0. \A m \in Manifest : Needs(m) \subseteq Digests /\ m \in Digests /\ m.config \in Digests
    BY ManifestShape DEF Digests
  <1>1. CASE Export(w)
    <2>1. UNCHANGED catalogVars /\ (cache' = cache \/ \E d \in DiffIds : cache' = cache \cup {Zstd[d]})
      BY <1>1 DEF Export
    <2>2. \A d \in DiffIds : Zstd[d] \in Digests
      BY CStorageAssumption DEF Digests, Layers
    <2>3. ASSUME NEW d \in DiffIds, cache' = cache \cup {Zstd[d]} PROVE CatalogTypes' /\ Grows
      <3>1. {Zstd[d]} \in SUBSET Digests
        BY <2>2
      <3> QED
        BY <2>1, <2>3, <3>1, GrowsCache
    <2>4. CASE cache' = cache
      BY <2>1, <2>4, GrowsSame
    <2> QED
      BY <2>1, <2>3, <2>4
  <1>2. CASE PutManifest(w)
    <2>1. at[w] = "asis" /\ found[w].m \in Manifest /\ picked[w] \in Seq(Layers)
      BY <1>2 DEF PutManifest, PushOk, Choosing, FoundRecord, SourceTypes
    <2> DEFINE m == IF asIs[w] THEN Chosen(w)
                    ELSE [config |-> Chosen(w).config, layers |-> picked[w]]
    <2>2. m \in Manifest
      BY <2>1 DEF Chosen, Manifest
    <2>3. cache' = cache \cup {m, m.config} /\ UNCHANGED catalogVars
      BY <1>2 DEF PutManifest
    <2> HIDE DEF m
    <2>4. {m, m.config} \in SUBSET Digests
      BY <1>0, <2>2
    <2> QED
      BY <2>3, <2>4, GrowsCache
  <1>3. CASE SourceUpload(w)
    <2>1. served[w] \in Manifest /\ cache' = cache
      BY <1>3 DEF SourceUpload, PushOk, Serving
    <2>2. CASE UNCHANGED catalogVars
      BY <2>1, <2>2, GrowsSame
    <2>3. ASSUME NEW b \in Needs(served[w]), Upload(b) PROVE CatalogTypes' /\ Grows
      BY <1>0, <2>1, <2>3, GrowsUpload
    <2> QED
      BY <1>3, <2>2, <2>3 DEF SourceUpload
  <1>4. CASE SourceMarkers(w)
    BY <1>4, GrowsMarkers DEF SourceMarkers, PushOk, Serving
  <1>5. CASE SourceLeaf(w)
    BY <1>5, GrowsLeaf DEF SourceLeaf, PushOk, Serving
  <1>6. CASE \/ BeginSource(w) \/ Find(w) \/ WalkChain(w) \/ PickAsIs(w) \/ PickByDiffId(w)
             \/ SourceFail(w) \/ SourceLeave(w)
    <2>1. UNCHANGED <<cache, catalogVars>>
      BY <1>6 DEF BeginSource, Find, WalkChain, PickAsIs, PickByDiffId, SourceFail, SourceLeave,
         machineVars
    <2> QED
      BY <2>1, GrowsSame
  <1> QED
    BY <1>1, <1>2, <1>3, <1>4, <1>5, <1>6 DEF SourceStep

PushKept(w) == SourceTypes' /\ OtherPushers(w) /\ PushOk(w)'

LEMMA BeginSourceKeeps ==
  ASSUME SourceTypes, NEW w \in Pushers, PushOk(w), BeginSource(w) \/ SourceFail(w) \/ SourceLeave(w)
  PROVE  PushKept(w)
  <1> USE DEF PushKept, OtherPushers, SameSource, SourceTypes, PushStages
  <1>1. CASE BeginSource(w)
    <2>1. PICK r \in Wanted[w] : ref' = [ref EXCEPT ![w] = r]
      BY <1>1 DEF BeginSource
    <2>2. r \in Refs
      BY PushSourceAssumption
    <2>3. /\ at[w] = "idle" /\ at' = [at EXCEPT ![w] = "find"]
          /\ UNCHANGED <<found, chain, picked, asIs, served>>
      BY <1>1 DEF BeginSource, Move
    <2>4. SourceTypes' /\ OtherPushers(w) /\ at'[w] = "find" /\ ref'[w] \in Refs
      BY <2>1, <2>2, <2>3
    <2>5. PushOk(w)'
      BY <2>3, <2>4 DEF PushOk, Early, Choosing, Serving
    <2> QED
      BY <2>4, <2>5
  <1>2. CASE SourceFail(w)
    <2>1. SourceTypes' /\ OtherPushers(w) /\ at'[w] = "failed"
      BY <1>2 DEF SourceFail
    <2>2. PushOk(w)'
      BY <2>1 DEF PushOk, Early, Choosing, Serving
    <2> QED
      BY <2>1, <2>2
  <1>3. CASE SourceLeave(w)
    <2>1. <<>> \in Seq(ChainLink) /\ <<>> \in Seq(Layers)
      OBVIOUS
    <2>2. SourceTypes' /\ OtherPushers(w) /\ at'[w] = "idle" /\ picked'[w] = <<>> /\ asIs'[w] = TRUE
      BY <1>3, <2>1 DEF SourceLeave
    <2>3. PushOk(w)'
      BY <2>2 DEF PushOk, Early, Choosing, Serving
    <2> QED
      BY <2>2, <2>3
  <1> QED
    BY <1>1, <1>2, <1>3

LEMMA FindKeeps ==
  ASSUME SourceTypes, StorageTypes, NEW w \in Pushers, PushOk(w), Find(w)
  PROVE  PushKept(w)
  <1>0. /\ at[w] = "find" /\ ref[w] \in Refs /\ picked[w] = <<>> /\ asIs[w]
        /\ UNCHANGED <<ref, chain, picked, asIs, served>>
    BY DEF Find, PushOk, Early
  <1> USE DEF PushKept, OtherPushers, SameSource, SourceTypes, PushStages
  <1>1. ASSUME NEW f \in Candidates(ref[w]), Move(w, "find", "chain"),
               found' = [found EXCEPT ![w] = f]
        PROVE  PushKept(w)
    <2>1. f \in FoundRecord
      BY <1>0, CandidateShape
    <2>2. SourceTypes' /\ OtherPushers(w) /\ at'[w] = "chain" /\ found'[w] = f
      BY <1>0, <1>1, <2>1 DEF Move
    <2>3. PushOk(w)'
      BY <1>0, <2>1, <2>2 DEF PushOk, Early, Choosing, Serving
    <2> QED
      BY <2>2, <2>3
  <1>2. CASE Move(w, "find", "failed") /\ UNCHANGED found
    <2>1. SourceTypes' /\ OtherPushers(w) /\ at'[w] = "failed"
      BY <1>0, <1>2 DEF Move
    <2>2. PushOk(w)'
      BY <2>1 DEF PushOk, Early, Choosing, Serving
    <2> QED
      BY <2>1, <2>2
  <1> QED
    BY <1>1, <1>2 DEF Find

LEMMA WalkKeeps ==
  ASSUME SourceTypes, StorageTypes, NEW w \in Pushers, PushOk(w), WalkChain(w)
  PROVE  PushKept(w)
  <1>0. /\ at[w] = "chain" /\ ref[w] \in Refs /\ picked[w] = <<>> /\ asIs[w]
        /\ found[w] \in FoundRecord
        /\ UNCHANGED <<ref, found, picked, asIs, served>>
    BY DEF WalkChain, PushOk, Early
  <1> USE DEF PushKept, OtherPushers, SameSource, SourceTypes, PushStages
  <1>1. CASE /\ \A id \in LayerIds : Below(id, found[w].top) => layer[id] # None
             /\ Len(ChainTo(found[w].top)) = Len(Chosen(w).layers)
             /\ Move(w, "chain", "asis")
             /\ chain' = [chain EXCEPT ![w] = ChainTo(found[w].top)]
    <2>1. ChainTo(found[w].top) \in Seq(ChainLink)
      BY <1>0, <1>1, ChainShape DEF FoundRecord
    <2>2. SourceTypes' /\ OtherPushers(w) /\ at'[w] = "asis" /\ chain'[w] = ChainTo(found[w].top)
      BY <1>0, <1>1, <2>1 DEF Move
    <2>3. Chose(w)'
      <3>1. /\ Len(chain'[w]) = Len(found'[w].m.layers) /\ Len(chain'[w]) \in Nat
            /\ Len(picked'[w]) = 0
        BY <1>0, <1>1, <2>1, <2>2 DEF Chosen
      <3> QED
        BY <2>2, <3>1 DEF Chose
    <2>4. PushOk(w)'
      BY <1>0, <2>2, <2>3 DEF PushOk, Early, Choosing, Serving
    <2> QED
      BY <2>2, <2>4
  <1>2. CASE Move(w, "chain", "failed") /\ UNCHANGED chain
    <2>1. SourceTypes' /\ OtherPushers(w) /\ at'[w] = "failed"
      BY <1>0, <1>2 DEF Move
    <2>2. PushOk(w)'
      BY <2>1 DEF PushOk, Early, Choosing, Serving
    <2> QED
      BY <2>1, <2>2
  <1> QED
    BY <1>1, <1>2 DEF WalkChain

\* One more blob is chosen, which is there.
LEMMA PickKeeps ==
  ASSUME SourceTypes, NEW w \in Pushers, PushOk(w), Grows, at[w] \in Choosing,
         Len(picked[w]) < Len(chain[w]),
         NEW from, NEW b \in Layers, Pick(w, from, b), b \in There',
         UNCHANGED <<ref, found, chain, served>>
  PROVE  PushKept(w)
  <1> DEFINE longer == Append(picked[w], b)
             n == Len(picked[w])
  <1>1. /\ longer \in Seq(Layers) /\ Len(longer) = n + 1 /\ n \in Nat
        /\ longer[n + 1] = b /\ \A i \in 1..n : longer[i] = picked[w][i]
        /\ Len(chain[w]) \in Nat
    BY DEF SourceTypes
  <1>2. /\ at' = [at EXCEPT ![w] = "asis"] /\ picked' = [picked EXCEPT ![w] = longer]
        /\ asIs' = [asIs EXCEPT ![w] = asIs[w] /\ from = "asis" /\ b = ListedHere(w)]
    BY DEF Pick, Move
  <1>3. ref[w] \in Refs /\ found[w] \in FoundRecord /\ Chose(w)
    BY DEF PushOk, Choosing
  <1> HIDE DEF longer
  <1>4. SourceTypes' /\ OtherPushers(w) /\ at'[w] = "asis" /\ picked'[w] = longer
    BY <1>1, <1>2 DEF SourceTypes, OtherPushers, SameSource, PushStages
  <1>5. asIs'[w] => asIs[w] /\ b = found[w].m.layers[n + 1]
    BY <1>2 DEF SourceTypes, ListedHere, Chosen
  <1>6. There \subseteq There'
    BY DEF Grows, There
  <1>7. ASSUME NEW i \in 1..(n + 1)
        PROVE  longer[i] \in There' /\ (asIs'[w] => longer[i] = found[w].m.layers[i])
    <2>1. CASE i = n + 1
      BY <1>1, <1>5, <2>1
    <2>2. CASE i \in 1..n
      BY <1>1, <1>3, <1>5, <1>6, <2>2 DEF Chose
    <2> QED
      BY <1>1, <2>1, <2>2
  <1>8. Chose(w)'
    BY <1>1, <1>3, <1>4, <1>7 DEF Chose
  <1>9. PushOk(w)'
    BY <1>3, <1>4, <1>8 DEF PushOk, Early, Choosing, Serving
  <1> QED
    BY <1>4, <1>9 DEF PushKept

\* What may be chosen.
LEMMA ChoiceShape ==
  ASSUME CatalogTypes, SourceTypes, NEW w \in Pushers, PushOk(w), at[w] \in Choosing,
         Len(picked[w]) < Len(chain[w])
  PROVE  /\ Link(w) \in ChainLink
         /\ \A b \in AsIsBlobs(w) : b \in Layers /\ b \in There
         /\ \A d : \A b \in Recorded(d) : b \in Layers /\ b \in There
  <1>1. /\ found[w] \in FoundRecord /\ Len(chain[w]) = Len(found[w].m.layers)
        /\ picked[w] \in Seq(Layers) /\ chain[w] \in Seq(ChainLink)
    BY DEF PushOk, Chose, SourceTypes, Choosing
  <1>2. found[w].m.layers \in Seq(Layers)
    BY <1>1, ManifestShape DEF FoundRecord
  <1>3. /\ Len(picked[w]) + 1 \in 1..Len(chain[w])
        /\ Len(picked[w]) + 1 \in 1..Len(found[w].m.layers)
    BY <1>1
  <1>4. Link(w) \in ChainLink
    BY <1>1, <1>3 DEF Link
  <1>5. ListedHere(w) \in Layers
    BY <1>2, <1>3 DEF ListedHere, Chosen
  <1>6. Link(w).blob \in Layers \cup {None}
    BY <1>4 DEF ChainLink
  <1>7. \A b \in AsIsBlobs(w) : b \in Layers /\ b \in There
    BY <1>5, <1>6 DEF AsIsBlobs, There
  <1>8. \A d : \A b \in Recorded(d) : b \in Layers /\ b \in There
    BY DEF Recorded, There, Layers
  <1> QED
    BY <1>4, <1>7, <1>8

\* w looks for a blob elsewhere.
LEMMA LookKeeps ==
  ASSUME SourceTypes, NEW w \in Pushers, PushOk(w), Grows, at[w] \in Choosing,
         NEW to \in {"bydiff", "export", "failed"}, Len(picked[w]) < Len(chain[w]),
         at' = [at EXCEPT ![w] = to],
         UNCHANGED <<ref, found, chain, picked, asIs, served>>
  PROVE  PushKept(w)
  <1>1. SourceTypes' /\ OtherPushers(w) /\ at'[w] = to
    BY DEF SourceTypes, OtherPushers, SameSource, PushStages
  <1>2. There \subseteq There'
    BY DEF Grows, There
  <1>3. ref[w] \in Refs /\ found[w] \in FoundRecord /\ Chose(w)
    BY DEF PushOk, Choosing
  <1>4. Chose(w)'
    BY <1>1, <1>2, <1>3 DEF Chose
  <1>5. PushOk(w)'
    BY <1>1, <1>3, <1>4 DEF PushOk, Early, Choosing, Serving
  <1> QED
    BY <1>1, <1>5 DEF PushKept

LEMMA ChooseKeeps ==
  ASSUME CatalogTypes, SourceTypes, NEW w \in Pushers, PushOk(w), Grows,
         PickAsIs(w) \/ PickByDiffId(w) \/ Export(w)
  PROVE  PushKept(w)
  <1>0. at[w] \in Choosing /\ Len(picked[w]) < Len(chain[w])
    BY DEF PickAsIs, PickByDiffId, Export, LayersLeft, Choosing, PushOk, Chose
  <1>1. There \subseteq There'
    BY DEF Grows, There
  <1>2. /\ \A b \in AsIsBlobs(w) : b \in Layers /\ b \in There'
        /\ \A d : \A b \in Recorded(d) : b \in Layers /\ b \in There'
    BY <1>0, <1>1, ChoiceShape
  <1>3. UNCHANGED <<ref, found, chain, served>>
    BY DEF PickAsIs, PickByDiffId, Export
  <1>4. ASSUME NEW from, NEW b \in Layers, Pick(w, from, b), b \in There' PROVE PushKept(w)
    BY <1>0, <1>3, <1>4, PickKeeps
  <1>5. ASSUME NEW to \in {"bydiff", "export", "failed"}, NEW from, Move(w, from, to),
               UNCHANGED <<picked, asIs>>
        PROVE  PushKept(w)
    BY <1>0, <1>3, <1>5, LookKeeps DEF Move
  <1>6. CASE PickAsIs(w)
    BY <1>2, <1>4, <1>5, <1>6 DEF PickAsIs
  <1>7. CASE PickByDiffId(w)
    BY <1>2, <1>4, <1>5, <1>7 DEF PickByDiffId
  <1>8. CASE Export(w)
    <2>1. ASSUME NEW d \in DiffIds, cache' = cache \cup {Zstd[d]}, Pick(w, "export", Zstd[d])
          PROVE  PushKept(w)
      <3>1. Zstd[d] \in Layers /\ Zstd[d] \in There'
        BY <2>1, CStorageAssumption DEF Layers, There
      <3> QED
        BY <1>4, <2>1, <3>1
    <2>2. \/ \E d \in DiffIds : cache' = cache \cup {Zstd[d]} /\ Pick(w, "export", Zstd[d])
          \/ Move(w, "export", "failed") /\ UNCHANGED <<picked, asIs>>
      BY <1>8 DEF Export
    <2> QED
      BY <1>5, <2>1, <2>2
  <1> QED
    BY <1>6, <1>7, <1>8

\* What is served is there: the manifest that find chose, whose blobs are those chosen, or the new one.
LEMMA ManifestKeeps ==
  ASSUME SourceTypes, NEW w \in Pushers, PushOk(w), Grows, PutManifest(w)
  PROVE  PushKept(w)
  <1> DEFINE m == IF asIs[w] THEN Chosen(w)
                  ELSE [config |-> Chosen(w).config, layers |-> picked[w]]
  <1>1. /\ at[w] = "asis" /\ at' = [at EXCEPT ![w] = "upload"]
        /\ served' = [served EXCEPT ![w] = m] /\ cache' = cache \cup {m, m.config}
        /\ UNCHANGED <<ref, found, chain, picked, asIs>> /\ stored' = stored
    BY DEF PutManifest, Move, catalogVars
  <1>2. /\ found[w] \in FoundRecord /\ Chose(w) /\ ref[w] \in Refs
        /\ picked[w] \in Seq(Layers) /\ chain[w] \in Seq(ChainLink)
    BY <1>1 DEF PushOk, Choosing, SourceTypes
  <1>3. Chosen(w) \in Manifest
    BY <1>2 DEF FoundRecord, Chosen
  <1>4. m \in Manifest
    BY <1>2, <1>3 DEF Manifest
  <1>5. Len(picked[w]) = Len(Chosen(w).layers) /\ DOMAIN picked[w] = 1..Len(picked[w])
    BY <1>2 DEF PutManifest, LayersLeft, Chose, Chosen
  <1>6. DOMAIN m.layers = 1..Len(picked[w]) /\ \A i \in 1..Len(picked[w]) : m.layers[i] = picked[w][i]
    <2>1. CASE asIs[w]
      BY <1>2, <1>3, <1>5, <2>1, ManifestShape DEF Chose, Chosen
    <2>2. CASE ~asIs[w]
      BY <1>5, <2>2
    <2> QED
      BY <2>1, <2>2
  <1> HIDE DEF m
  <1>7. There \subseteq There' /\ m \in There' /\ m.config \in There'
    BY <1>1 DEF There
  <1>8. Needs(m) \subseteq There'
    BY <1>2, <1>6, <1>7 DEF Needs, Listed, Chose
  <1>9. SourceTypes' /\ OtherPushers(w) /\ at'[w] = "upload" /\ served'[w] = m
    BY <1>1, <1>4 DEF SourceTypes, OtherPushers, SameSource, PushStages
  <1>10. PushOk(w)'
    BY <1>1, <1>2, <1>4, <1>8, <1>9 DEF PushOk, Early, Choosing, Serving
  <1> QED
    BY <1>9, <1>10 DEF PushKept

LEMMA UploadKeeps ==
  ASSUME SourceTypes, NEW w \in Pushers, PushOk(w), Grows,
         SourceUpload(w) \/ SourceMarkers(w) \/ SourceLeaf(w)
  PROVE  PushKept(w)
  <1>0. /\ at[w] \in {"upload", "markers", "publish"} /\ ref[w] \in Refs
        /\ served[w] \in Manifest /\ Needs(served[w]) \subseteq There
        /\ UNCHANGED <<ref, found, chain, picked, asIs, served>>
    BY DEF SourceUpload, SourceMarkers, SourceLeaf, PushOk, Serving
  <1>1. There \subseteq There' /\ stored \subseteq stored'
    BY DEF Grows, There
  <1>2. ASSUME NEW to \in {"upload", "markers", "publish", "done", "failed"},
               at' = [at EXCEPT ![w] = to], to = "publish" => Needs(served[w]) \subseteq stored'
        PROVE  PushKept(w)
    <2>1. SourceTypes' /\ OtherPushers(w) /\ at'[w] = to
      BY <1>0, <1>2 DEF SourceTypes, OtherPushers, SameSource, PushStages
    <2>2. PushOk(w)'
      BY <1>0, <1>1, <1>2, <2>1 DEF PushOk, Early, Choosing, Serving
    <2> QED
      BY <2>1, <2>2 DEF PushKept
  <1>3. CASE SourceUpload(w)
    BY <1>2, <1>3 DEF SourceUpload, Move
  <1>4. CASE SourceMarkers(w)
    <2>1. Needs(served[w]) \subseteq stored'
      BY <1>1, <1>4 DEF SourceMarkers, CommitMarkers, CanCommit
    <2> QED
      BY <1>2, <1>4, <2>1 DEF SourceMarkers, Move
  <1>5. CASE SourceLeaf(w)
    BY <1>2, <1>5 DEF SourceLeaf, Move
  <1> QED
    BY <1>3, <1>4, <1>5

LEMMA PushStepKeeps ==
  ASSUME CatalogTypes, StorageTypes, SourceTypes, PushersOk, NEW w \in Pushers,
         BeginSource(w) \/ SourceStep(w) \/ SourceFail(w) \/ SourceLeave(w)
  PROVE  /\ CatalogTypes' /\ Grows /\ SourceTypes' /\ PushersOk' /\ StorageInv = StorageInv'
         /\ OtherPushers(w) /\ UNCHANGED storageVars
  <1>1. PushOk(w)
    BY DEF PushersOk
  <1>2. CatalogTypes' /\ Grows
    BY <1>1, PushCatalog
  <1>3. PushKept(w)
    BY <1>1, <1>2, BeginSourceKeeps, FindKeeps, WalkKeeps, ChooseKeeps, ManifestKeeps, UploadKeeps
       DEF SourceStep
  <1>4. UNCHANGED storageVars
    BY DEF BeginSource, SourceStep, SourceFail, SourceLeave, Find, WalkChain, PickAsIs, PickByDiffId,
       Export, PutManifest, SourceUpload, SourceMarkers, SourceLeaf, machineVars
  <1>5. StorageInv = StorageInv'
    BY <1>4 DEF storageVars, StorageInv, StorageTypes, Whole, RecordsWhole, Below, Tops, Top, TocTop
  <1> QED
    BY <1>2, <1>3, <1>4, <1>5, PushOfOthers DEF PushKept

-----------------------------------------------------------------------------
(* What a pull knows of the store.                                          *)

AfterKeep == {"fetch", "look", "put", "exists", "check", "create", "reuse", "data", "name"}

\* An image from the fallback is whole in the store before its leaf is written, and its leaf is
\* there from then on: for the entry at hand, and for those that ended without an error.
KeptOk(w) ==
  /\ stage[w] = "publish" => Needs(Img(w)) \subseteq stored
  /\ stage[w] \in AfterKeep /\ Current(w).fallback /\ Writable => leaf[Current(w).ref] = Img(w)
  /\ \A i \in 1..Len(answer[w]) : answer[w][i] = "ok" /\ plan[w][i].fallback /\ Writable =>
       leaf[plan[w][i].ref] = plan[w][i].m

AllKept == \A w \in Pullers : KeptOk(w)

\* w goes on, and knows what its next stage needs.
LEMMA KeptGoes ==
  ASSUME PullTypes, PlacesOk, NEW w \in Pullers, KeptOk(w), Grows,
         stage'[w] = "publish" => Needs(Img(w)) \subseteq stored',
         stage'[w] \in AfterKeep => \/ stage[w] \in AfterKeep
                                   \/ ~(Current(w).fallback /\ Writable)
                                   \/ leaf'[Current(w).ref] = Img(w),
         plan'[w] = plan[w], answer'[w] = answer[w]
  PROVE  KeptOk(w)'
  <1>1. Current(w)' = Current(w) /\ Img(w)' = Img(w) /\ \A m : Needs(m)' = Needs(m)
    BY DEF Current, Img, Needs, Listed
  <1>2. plan[w] \in Seq(Entry) /\ Len(answer[w]) \in Nat /\ PlaceOk(w)
    BY DEF PullTypes, PlacesOk
  <1>4. stage'[w] \in AfterKeep /\ Current(w).fallback /\ Writable => leaf'[Current(w).ref] = Img(w)
    <2>1. stage[w] \in AfterKeep => Current(w).ref \in Refs /\ Img(w) # None
      BY <1>2, AtEntry, ManifestShape DEF PlaceOk, AfterKeep, EntryStages
    <2> QED
      BY <2>1 DEF KeptOk, Grows
  <1>5. ASSUME NEW i \in 1..Len(answer[w]), answer[w][i] = "ok", plan[w][i].fallback, Writable
        PROVE  leaf'[plan[w][i].ref] = plan[w][i].m
    <2>1. plan[w][i] \in Entry
      BY <1>2 DEF PlaceOk
    <2>2. plan[w][i].ref \in Refs /\ plan[w][i].m # None
      BY <2>1, ManifestShape DEF Entry
    <2> QED
      BY <1>5, <2>2 DEF KeptOk, Grows
  <1> QED
    BY <1>1, <1>4, <1>5 DEF KeptOk

LEMMA KeptStays ==
  ASSUME PullTypes, PlacesOk, NEW w \in Pullers, KeptOk(w), Grows,
         stage'[w] = stage[w], plan'[w] = plan[w], answer'[w] = answer[w]
  PROVE  KeptOk(w)'
  <1>1. stage'[w] = "publish" => Needs(Img(w)) \subseteq stored'
    BY DEF KeptOk, Grows
  <1> QED
    BY <1>1, KeptGoes

LEMMA KeptOfOthers ==
  ASSUME PullTypes, PlacesOk, AllKept, NEW w \in Pullers, OtherPullers(w), Grows, KeptOk(w)'
  PROVE  AllKept'
  BY KeptStays DEF AllKept, OtherPullers

\* No entry ends without an error but by its name.
LEMMA KeptAnswers ==
  ASSUME PullTypes, PlacesOk, NEW w \in Pullers, KeptOk(w), Grows,
         NEW r \in Answers, Ends(w, r), Len(answer[w]) < Len(plan[w]),
         r = "ok" /\ Current(w).fallback /\ Writable => leaf'[Current(w).ref] = Img(w)
  PROVE  KeptOk(w)'
  <1> DEFINE n == Len(answer[w])
  <1>1. /\ answer[w] \in Seq(Answers) /\ n \in Nat /\ plan[w] \in Seq(Entry) /\ PlaceOk(w)
        /\ Len(plan[w]) \in Nat
    BY DEF PullTypes, PlacesOk
  <1>2. /\ answer'[w] = Append(answer[w], r) /\ plan' = plan /\ stage'[w] = "entry"
    BY DEF Ends, PullTypes
  <1>3. /\ Len(answer'[w]) = n + 1 /\ answer'[w][n + 1] = r
        /\ \A i \in 1..n : answer'[w][i] = answer[w][i]
    BY <1>1, <1>2
  <1>4. ASSUME NEW i \in 1..(n + 1), answer'[w][i] = "ok", plan[w][i].fallback, Writable
        PROVE  leaf'[plan[w][i].ref] = plan[w][i].m
    <2>1. CASE i = n + 1
      BY <1>3, <1>4, <2>1 DEF Current, Img
    <2>2. CASE i \in 1..n
      <3>1. plan[w][i] \in Entry
        BY <1>1, <2>2
      <3>2. plan[w][i].ref \in Refs /\ plan[w][i].m # None
        BY <3>1, ManifestShape DEF Entry
      <3>3. leaf[plan[w][i].ref] = plan[w][i].m
        BY <1>3, <1>4, <2>2 DEF KeptOk
      <3> QED
        BY <3>2, <3>3 DEF Grows
    <2> QED
      BY <1>1, <2>1, <2>2
  <1> QED
    BY <1>2, <1>3, <1>4 DEF KeptOk, AfterKeep

LEMMA PullKept ==
  ASSUME PullTypes, PlacesOk, NEW w \in Pullers, KeptOk(w), Grows,
         BeginPull(w) \/ PullStep(w) \/ PullFault(w) \/ Leave(w)
  PROVE  KeptOk(w)'
  <1> PlaceOk(w)
    BY DEF PlacesOk
  <1>a. /\ answer[w] \in Seq(Answers) /\ plan[w] \in Seq(Entry)
        /\ {"error", "conflict", "cancelled", "ok"} \subseteq Answers
        /\ stage[w] \in EntryStages => Len(answer[w]) < Len(plan[w])
    BY DEF PullTypes, PlaceOk, Answers
  \* Before the entries there are no answers.
  <1>1. ASSUME answer'[w] = <<>>, stage'[w] \notin AfterKeep \cup {"publish"} PROVE KeptOk(w)'
    BY <1>1 DEF KeptOk
  <1>2. CASE BeginPull(w) \/ PlanStep(w) \/ FailPlan(w) \/ PrefixEnds(w) \/ Leave(w)
    <2>1. answer[w] = <<>> \/ Leave(w)
      BY <1>2 DEF BeginPull, PlanStep, Resolve, FindPrefix, BeginEntries, Step, Goto, FailPlan,
         PrefixEnds, PlaceOk, PlanStages
    <2>2. answer'[w] = <<>>
      BY <1>2, <2>1 DEF BeginPull, PlanStep, Resolve, Planned, NotPlanned, FindPrefix, BeginEntries,
         Step, Goto, FailPlan, PrefixEnds, Leave, PullTypes
    <2>3. stage'[w] \in {"idle", "resolve", "prefix", "entry"}
      BY <1>2 DEF BeginPull, PlanStep, Resolve, Planned, NotPlanned, FindPrefix, BeginEntries,
         Step, Goto, FailPlan, PrefixEnds, Leave, PullTypes
    <2> QED
      BY <1>1, <2>2, <2>3 DEF AfterKeep
  <1>3. ASSUME NEW r \in Answers, NEW from, Conclude(w, from, r), Len(answer[w]) < Len(plan[w]),
               r = "ok" => stage[w] \in AfterKeep
        PROVE  KeptOk(w)'
    <2>1. Ends(w, r)
      BY <1>3, ConcludeEnds
    <2>2. r = "ok" /\ Current(w).fallback /\ Writable => leaf'[Current(w).ref] = Img(w)
      <3>1. stage[w] \in AfterKeep => Current(w).ref \in Refs /\ Img(w) # None
        BY <1>3, AtEntry, ManifestShape
      <3> QED
        BY <1>3, <3>1 DEF KeptOk, Grows
    <2> QED
      BY <1>3, <2>1, <2>2, KeptAnswers
  <1>4. ASSUME NEW from \in AfterKeep, NEW to \in AfterKeep, NEW n,
               Step(w, from, to) \/ Loop(w, from, to, n)
        PROVE  KeptOk(w)'
    <2>1. stage[w] = from /\ stage'[w] = to /\ plan' = plan /\ answer' = answer
      BY <1>4 DEF Step, Loop, Goto, PullTypes
    <2> QED
      BY <2>1, KeptGoes DEF AfterKeep
  <1>5. CASE BeginEntry(w)
    <2>1. /\ plan' = plan /\ answer' = answer
          /\ stage'[w] = IF Current(w).fallback /\ Writable THEN "keep" ELSE "fetch"
      BY <1>5 DEF BeginEntry, Step, Loop, Goto, PullTypes
    <2> QED
      BY <2>1, KeptGoes DEF AfterKeep
  <1>6. CASE SkipEntry(w)
    BY <1>3, <1>6, <1>a DEF SkipEntry, Left
  <1>7. CASE EndPull(w) \/ Cancel(w)
    <2>1. plan' = plan /\ answer' = answer /\ (stage' = stage \/ stage'[w] = "done")
      BY <1>7 DEF EndPull, Cancel, Step, Goto, PullTypes
    <2> QED
      BY <2>1, KeptGoes, KeptStays DEF AfterKeep
  <1>8. CASE KeepBlob(w) \/ KeepMarkers(w)
    <2>1. /\ plan' = plan /\ answer' = answer /\ stage'[w] \in {"keep", "markers", "publish"}
          /\ stage'[w] = "publish" => Needs(Img(w)) \subseteq stored
      BY <1>8 DEF KeepBlob, KeepMarkers, CommitMarkers, CanCommit, Step, Goto, PullTypes
    <2>2. stage'[w] = "publish" => Needs(Img(w)) \subseteq stored'
      BY <2>1 DEF Grows
    <2> QED
      BY <2>1, <2>2, KeptGoes DEF AfterKeep
  <1>9. CASE KeepLeaf(w)
    <2>1. stage[w] = "publish"
      BY <1>9 DEF KeepLeaf
    <2>2. CASE Conclude(w, "publish", "conflict")
      BY <1>3, <1>a, <2>1, <2>2 DEF EntryStages
    <2>3. CASE leaf'[Current(w).ref] = Img(w) /\ Loop(w, "publish", "fetch", Current(w).from)
      <3>1. stage'[w] = "fetch" /\ plan' = plan /\ answer' = answer
        BY <2>3 DEF Loop, Goto, PullTypes
      <3> QED
        BY <2>3, <3>1, KeptGoes
    <2> QED
      BY <1>9, <2>2, <2>3 DEF KeepLeaf
  <1>10. CASE Fetch(w)
    BY <1>3, <1>4, <1>10, <1>a DEF Fetch, AfterKeep, EntryStages
  <1>11. CASE LookLayer(w) \/ ReuseLayer(w) \/ CheckLayer(w)
    BY <1>3, <1>4, <1>11, <1>a DEF LookLayer, ReuseLayer, CheckLayer, AfterKeep, EntryStages
  <1>12. CASE PutLayer(w)
    BY <1>3, <1>4, <1>12, <1>a DEF PutLayer, AfterKeep, EntryStages
  <1>13. CASE CreateImage(w) \/ ReuseImage(w)
    BY <1>3, <1>4, <1>13, <1>a DEF CreateImage, ReuseImage, AfterKeep, EntryStages
  <1>14. CASE SetBigData(w) \/ AddNames(w)
    BY <1>3, <1>4, <1>14, <1>a DEF SetBigData, AddNames, AfterKeep, EntryStages
  <1>15. CASE FailEntry(w)
    <2>1. Ends(w, "error") /\ stage[w] \in EntryStages
      BY <1>15 DEF FailEntry, Ends, machineVars
    <2> QED
      BY <1>a, <2>1, KeptAnswers
  <1>16. CASE FailLayer(w) /\ ~PrefixEnds(w)
    <2>1. stage[w] = "look" /\ stage'[w] = "put" /\ plan' = plan /\ answer' = answer
      BY <1>16 DEF FailLayer, PullTypes
    <2> QED
      BY <2>1, KeptGoes DEF AfterKeep
  <1> QED
    BY <1>2, <1>5, <1>6, <1>7, <1>8, <1>9, <1>10, <1>11, <1>12, <1>13, <1>14, <1>15, <1>16
       DEF PullStep, PlanStep, EntryStep, PullFault

-----------------------------------------------------------------------------
(* The invariant.                                                           *)

PullerInv == PullTypes /\ PlacesOk /\ AllKept
PusherInv == SourceTypes /\ PushersOk
IInv == StorageInv /\ CatalogTypes /\ PullerInv /\ PusherInv

LEMMA Start == Init => IInv
  <1> SUFFICES ASSUME Init PROVE IInv
    OBVIOUS
  <1>1. StorageInv
    BY StorageStart DEF Init
  <1>2. CatalogTypes
    BY DEF Init, MachineInit, CatalogTypes
  <1>3. <<>> \in Seq(Refs) /\ <<>> \in Seq(Entry) /\ <<>> \in Seq(Answers)
        /\ <<>> \in Seq(ChainLink) /\ <<>> \in Seq(Layers)
    OBVIOUS
  <1>4. PullTypes /\ SourceTypes
    BY <1>3 DEF Init, PullInit, SourceInit, PullTypes, PullStages, SourceTypes, PushStages
  <1>5. PlacesOk
    BY DEF Init, PullInit, PlacesOk, PlaceOk, PlanStages, EntryStages, LayerStages
  <1>6. AllKept
    BY DEF Init, PullInit, AllKept, KeptOk, AfterKeep
  <1>7. PushersOk
    BY DEF Init, SourceInit, PushersOk, PushOk, Early, Choosing, Serving
  <1> QED
    BY <1>1, <1>2, <1>4, <1>5, <1>6, <1>7 DEF IInv, PullerInv, PusherInv

LEMMA PodmanStep ==
  ASSUME IInv, Podman
  PROVE  IInv' /\ Grows /\ UNCHANGED <<catalogVars, answer, plan>>
  <1>1. UNCHANGED <<cache, catalogVars, stage, todo, unplanned, plan, k, answer, cancelled, sourceLocals>>
    BY DEF Podman, PodmanAdds, PodmanDisturbs, PodmanLayer, PodmanImage, PodmanTag, PodmanRemove,
       PodmanPrune, pullLocals
  <1>2. calm' \in [Pullers -> BOOLEAN]
    BY DEF Podman, pullLocals, IInv, PullerInv, PullTypes
  <1>3. StorageInv'
    <2> StorageInv
      BY DEF IInv
    <2>1. ASSUME NEW m \in Local,
                 \/ \E top \in Tops(m.config), id \in LayerIds : Below(id, top) /\ PodmanLayer(id)
                 \/ PodmanImage(m.config, m, Top(m.config))
                 \/ \E r \in Refs : PodmanTag(m.config, r)
          PROVE  StorageInv'
      <3>1. m \in Manifest /\ m.config \in Configs /\ Top(m.config) \in Tops(m.config)
        BY ExchangeAssumption, ManifestShape DEF Tops
      <3>2. ASSUME NEW id \in LayerIds, PodmanLayer(id) PROVE StorageInv'
        <4>1. PICK b \in {None} \cup {z \in Blobs : Content[z] = DiffOf(id)} :
                NewLayer(id, [diff |-> DiffOf(id), blob |-> b])
          BY <3>2 DEF PodmanLayer
        <4>2. [diff |-> DiffOf(id), blob |-> b] \in LayerRecord
          BY ParentShape DEF LayerRecord, Layers
        <4> QED
          BY <3>2, <4>1, <4>2, NewLayerKeeps DEF PodmanLayer
      <3>3. CASE PodmanImage(m.config, m, Top(m.config))
        BY <3>1, <3>3, NewRecordKeeps DEF PodmanImage
      <3>4. ASSUME NEW r \in Refs, PodmanTag(m.config, r) PROVE StorageInv'
        BY <3>1, <3>4, AddNameKeeps DEF PodmanTag
      <3> QED
        BY <2>1, <3>2, <3>3, <3>4
    <2>2. ASSUME NEW c \in Configs, PodmanRemove(c) PROVE StorageInv'
      BY <2>2, RemoveKeeps
    <2>3. ASSUME NEW id \in LayerIds, PodmanPrune(id) PROVE StorageInv'
      BY <2>3, DeleteLayerKeeps DEF PodmanPrune
    <2>4. ASSUME NEW m \in Local, m.config \in Tocs, PodmanImage(m.config, m, TocTop(m.config))
          PROVE  StorageInv'
      <3>1. m \in Manifest /\ m.config \in Configs /\ TocTop(m.config) \in Tops(m.config)
        BY <2>4, ExchangeAssumption, ManifestShape DEF Tops
      <3> QED
        BY <2>4, <3>1, NewRecordKeeps DEF PodmanImage
    <2> QED
      BY <2>1, <2>2, <2>3, <2>4 DEF Podman, PodmanAdds, PodmanDisturbs
  <1>4. CatalogTypes' /\ Grows
    BY <1>1, GrowsSame DEF IInv
  <1>5. PullTypes' /\ PlacesOk'
    BY <1>1, <1>2 DEF IInv, PullerInv, PullTypes, PlacesOk, PlaceOk
  <1>6. AllKept'
    BY <1>1, <1>4, KeptStays DEF IInv, PullerInv, AllKept
  <1>7. SourceTypes' /\ PushersOk'
    BY <1>1, <1>4, PushKeeps DEF IInv, PusherInv, SourceTypes, sourceLocals, PushersOk, SameSource
  <1> QED
    BY <1>1, <1>3, <1>4, <1>5, <1>6, <1>7 DEF IInv, PullerInv, PusherInv

LEMMA PullNextKeeps ==
  ASSUME IInv, NEW w \in Pullers, BeginPull(w) \/ PullStep(w) \/ PullFault(w) \/ Leave(w),
         UNCHANGED sourceLocals
  PROVE  IInv' /\ Grows /\ OtherPullers(w)
  <1>1. StorageInv /\ StorageTypes /\ CatalogTypes /\ MachineTypeOK /\ PullTypes /\ PlacesOk /\ AllKept
    BY MachineTypes DEF IInv, PullerInv, StorageInv
  <1>2. Kept3(w)
    BY <1>1, PullLocals
  <1>3. CatalogTypes' /\ Grows
    BY <1>1, PullCatalog
  <1>4. StorageInv'
    BY <1>1, PullStorage
  <1>5. KeptOk(w)'
    BY <1>1, <1>3, PullKept DEF AllKept
  <1>6. AllKept'
    BY <1>1, <1>2, <1>3, <1>5, KeptOfOthers DEF Kept3
  <1>7. SourceTypes' /\ PushersOk'
    BY <1>3, PushKeeps DEF IInv, PusherInv, SourceTypes, sourceLocals, PushersOk, SameSource
  <1> QED
    BY <1>2, <1>3, <1>4, <1>6, <1>7 DEF IInv, PullerInv, PusherInv, Kept3

LEMMA PushNextKeeps ==
  ASSUME IInv, NEW w \in Pushers,
         BeginSource(w) \/ SourceStep(w) \/ SourceFail(w) \/ SourceLeave(w), UNCHANGED pullLocals
  PROVE  IInv' /\ Grows /\ OtherPushers(w) /\ UNCHANGED storageVars
  <1>1. /\ CatalogTypes' /\ Grows /\ SourceTypes' /\ PushersOk' /\ StorageInv'
        /\ OtherPushers(w) /\ UNCHANGED storageVars
    BY PushStepKeeps DEF IInv, PusherInv, StorageInv
  <1>2. PullTypes' /\ PlacesOk'
    BY DEF IInv, PullerInv, PullTypes, PlacesOk, PlaceOk, pullLocals
  <1>3. AllKept'
    BY <1>1, KeptStays DEF IInv, PullerInv, AllKept, pullLocals
  <1> QED
    BY <1>1, <1>2, <1>3 DEF IInv, PullerInv, PusherInv

LEMMA SameKeeps ==
  ASSUME IInv, UNCHANGED vars
  PROVE  IInv' /\ Grows
  <1>1. UNCHANGED storageVars /\ UNCHANGED <<cache, catalogVars>>
        /\ UNCHANGED pullLocals /\ UNCHANGED sourceLocals
    BY DEF vars, machineVars
  <1>2. StorageInv' /\ CatalogTypes' /\ Grows
    BY <1>1, StorageSame, GrowsSame DEF IInv
  <1>3. PullTypes' /\ PlacesOk'
    BY <1>1 DEF IInv, PullerInv, PullTypes, PlacesOk, PlaceOk, pullLocals
  <1>4. AllKept'
    BY <1>1, <1>2, KeptStays DEF IInv, PullerInv, AllKept, pullLocals
  <1>5. SourceTypes' /\ PushersOk'
    BY <1>1, <1>2, PushKeeps DEF IInv, PusherInv, SourceTypes, sourceLocals, PushersOk, SameSource
  <1> QED
    BY <1>2, <1>3, <1>4, <1>5 DEF IInv, PullerInv, PusherInv

LEMMA NextKeeps == IInv /\ [Next]_vars => IInv' /\ Grows
  BY PodmanStep, PullNextKeeps, PushNextKeeps, SameKeeps DEF Next, PullNext, SourceNext

THEOREM Invariance == Spec => []IInv
  <1>1. IInv /\ [Next]_vars => IInv'
    BY NextKeeps
  <1> QED
    BY <1>1, Start, PTL DEF Spec

-----------------------------------------------------------------------------
(* The properties.                                                          *)

\* The types of the machine and of every pull and push, through all their steps and podman's.
THEOREM TypeCorrect == Spec => []TypeOK
  <1>1. IInv => TypeOK
    BY MachineTypes
       DEF IInv, StorageInv, PullerInv, PusherInv, PullTypes, SourceTypes, TypeOK, PullTypeOK,
           SourceTypeOK, PullStages, FoundRecord
  <1> QED
    BY <1>1, Invariance, PTL

\* Every record has all the layers of its config, and every name a record, however pulls and podman
\* create and delete layers, records and names between one another's steps.
THEOREM RecordsAreWhole == Spec => []RecordsWhole
  <1>1. IInv => RecordsWhole
    BY DEF IInv, StorageInv
  <1> QED
    BY <1>1, Invariance, PTL

\* An entry from the fallback that was pulled without an error is in the store, for good and as
\* this very manifest.
THEOREM FallbackIsKept == Spec => []KeptInStore
  <1>1. IInv => KeptInStore
    <2> SUFFICES ASSUME IInv, NEW w \in Pullers, NEW i \in DOMAIN answer[w],
                        answer[w][i] = "ok", plan[w][i].fallback, Writable
                 PROVE  leaf[plan[w][i].ref] = plan[w][i].m
      BY DEF KeptInStore
    <2>1. i \in 1..Len(answer[w])
      BY DEF IInv, PullerInv, PullTypes
    <2> QED
      BY <2>1 DEF IInv, PullerInv, AllKept, KeptOk
  <1> QED
    BY <1>1, Invariance, PTL

\* Whichever blob a push takes for a layer, it is there when it is uploaded.
THEOREM ServedIsReadable == Spec => []ServedReadable
  <1>1. IInv => ServedReadable
    BY DEF IInv, PusherInv, PushersOk, PushOk, ServedReadable, There
  <1> QED
    BY <1>1, Invariance, PTL

\* A leaf is written once, for a manifest whose blobs are in the store.
LEMMA LeafWritten ==
  ASSUME IInv, [Next]_vars, NEW r \in Refs, leaf'[r] # leaf[r]
  PROVE  leaf[r] = None /\ Needs(leaf'[r]) \subseteq stored
  <1>0. ASSUME NEW q \in Refs, NEW m, CommitLeaf(q, m), Needs(m) \subseteq stored
        PROVE  leaf[r] = None /\ Needs(leaf'[r]) \subseteq stored
    BY <1>0 DEF CommitLeaf, IInv, CatalogTypes
  <1>1. ASSUME NEW w \in Pullers, BeginPull(w) \/ PullStep(w) \/ PullFault(w) \/ Leave(w)
        PROVE  leaf[r] = None /\ Needs(leaf'[r]) \subseteq stored
    <2>1. KeepLeaf(w)
      BY <1>1 DEF BeginPull, PullStep, PlanStep, EntryStep, PullFault, FailPlan, FailEntry, FailLayer,
         Cancel, Leave, Resolve, FindPrefix, PrefixEnds, BeginEntries, BeginEntry, SkipEntry, EndPull,
         KeepBlob, Upload, KeepMarkers, CommitMarkers, Fetch, LookLayer, PutLayer, ReuseLayer,
         CheckLayer, CreateImage, ReuseImage, SetBigData, AddNames, machineVars, catalogVars
    <2>2. stage[w] = "publish" /\ CommitLeaf(Current(w).ref, Img(w))
      BY <2>1 DEF KeepLeaf
    <2>3. Current(w).ref \in Refs
      BY <2>2, AtEntry DEF IInv, PullerInv, PlacesOk, PlaceOk, EntryStages
    <2>4. Needs(Img(w)) \subseteq stored
      BY <2>2 DEF IInv, PullerInv, AllKept, KeptOk
    <2> QED
      BY <1>0, <2>2, <2>3, <2>4
  <1>2. ASSUME NEW w \in Pushers, BeginSource(w) \/ SourceStep(w) \/ SourceFail(w) \/ SourceLeave(w)
        PROVE  leaf[r] = None /\ Needs(leaf'[r]) \subseteq stored
    <2>1. SourceLeaf(w)
      BY <1>2 DEF BeginSource, SourceStep, SourceFail, SourceLeave, Find, WalkChain, PickAsIs,
         PickByDiffId, Export, PutManifest, SourceUpload, Upload, SourceMarkers, CommitMarkers,
         machineVars, catalogVars
    <2>2. /\ CommitLeaf(ref[w], served[w]) /\ ref[w] \in Refs
          /\ Needs(served[w]) \subseteq stored
      BY <2>1 DEF SourceLeaf, IInv, PusherInv, PushersOk, PushOk
    <2> QED
      BY <1>0, <2>2
  <1>3. CASE Podman
    BY <1>3, PodmanStep DEF catalogVars
  <1>4. CASE UNCHANGED vars
    BY <1>4 DEF vars, machineVars, catalogVars
  <1> QED
    BY <1>1, <1>2, <1>3, <1>4 DEF Next, PullNext, SourceNext

\* Pulls and pushes use the store as its catalog lets them.
THEOREM StoreIsAsPromised == Spec => StoreAsPromised
  <1>1. IInv /\ [Next]_vars =>
          /\ stored \subseteq stored'
          /\ \A r \in Refs : leaf'[r] # leaf[r] => leaf[r] = None /\ Needs(leaf'[r]) \subseteq stored
    BY NextKeeps, LeafWritten DEF Grows
  <1> QED
    BY <1>1, Invariance, PTL DEF Spec, StoreAsPromised

-----------------------------------------------------------------------------
(* An answer without an error.                                              *)

\* A step of w leaves its answers, forgets them, ends an entry with another answer, or is AddNames.
LEMMA OnlyAddNamesIsOk ==
  ASSUME PullTypes, NEW w \in Pullers, BeginPull(w) \/ PullStep(w) \/ PullFault(w) \/ Leave(w)
  PROVE  \/ answer' = answer
         \/ answer' = [answer EXCEPT ![w] = <<>>]
         \/ \E r \in {"error", "conflict", "cancelled"} :
              answer' = [answer EXCEPT ![w] = Append(@, r)]
         \/ AddNames(w) /\ answer' = [answer EXCEPT ![w] = Append(@, "ok")]
  <1>1. CASE BeginPull(w) \/ PlanStep(w) \/ FailPlan(w) \/ FailLayer(w) \/ Cancel(w) \/ Leave(w)
    BY <1>1 DEF BeginPull, PlanStep, Resolve, Planned, NotPlanned, FindPrefix, PrefixEnds,
       BeginEntries, Step, Goto, FailPlan, FailLayer, Cancel, Leave
  <1>2. CASE BeginEntry(w) \/ EndPull(w) \/ KeepBlob(w) \/ KeepMarkers(w) \/ LookLayer(w)
    BY <1>2 DEF BeginEntry, EndPull, KeepBlob, KeepMarkers, LookLayer, Step, Loop, Goto
  <1>3. CASE SkipEntry(w) \/ KeepLeaf(w) \/ Fetch(w) \/ FailEntry(w)
    BY <1>3 DEF SkipEntry, KeepLeaf, Fetch, FailEntry, Conclude, Loop, Goto
  <1>4. CASE PutLayer(w) \/ ReuseLayer(w) \/ CheckLayer(w)
    BY <1>4 DEF PutLayer, ReuseLayer, CheckLayer, Conclude, Step, Loop, Goto
  <1>5. CASE CreateImage(w) \/ ReuseImage(w)
    BY <1>5 DEF CreateImage, ReuseImage, Conclude, Step, Loop, Goto
  <1>6. CASE SetBigData(w)
    BY <1>6 DEF SetBigData, Conclude, Loop, Goto
  <1>7. CASE AddNames(w)
    BY <1>7 DEF AddNames, Conclude
  <1> QED
    BY <1>1, <1>2, <1>3, <1>4, <1>5, <1>6, <1>7 DEF PullStep, PlanStep, EntryStep, PullFault

\* An answer that is there after a step and was not before.
LEMMA NewAnswer ==
  ASSUME PullTypes, NEW w \in Pullers, NEW v \in Pullers, NEW i,
         BeginPull(w) \/ PullStep(w) \/ PullFault(w) \/ Leave(w),
         Ended(v, i), answer'[v][i] = "ok"
  PROVE  v = w /\ AddNames(w) /\ i = Len(answer[w]) + 1
  <1>1. answer[v] \in Seq(Answers) /\ answer[w] \in Seq(Answers) /\ answer \in [Pullers -> Seq(Answers)]
    BY DEF PullTypes
  <1>2. answer' # answer
    BY DEF Ended
  <1>3. answer' # [answer EXCEPT ![w] = <<>>]
    <2>1. \A x \in Pullers : [answer EXCEPT ![w] = <<>>][x] \in {answer[x], <<>>}
      BY <1>1
    <2>2. i \in DOMAIN answer'[v] /\ i \notin DOMAIN answer[v]
      BY DEF Ended
    <2>3. answer'[v] # <<>> /\ answer'[v] # answer[v]
      BY <2>2
    <2> QED
      BY <2>1, <2>3
  <1>4. ASSUME NEW r, answer' = [answer EXCEPT ![w] = Append(@, r)]
        PROVE  v = w /\ i = Len(answer[w]) + 1 /\ answer'[v][i] = r
    <2>1. v = w
      BY <1>1, <1>4 DEF Ended
    <2>2. answer'[w] = Append(answer[w], r)
      BY <1>1, <1>4
    <2>3. /\ DOMAIN answer[w] = 1..Len(answer[w]) /\ Len(answer[w]) \in Nat
          /\ DOMAIN answer'[w] = 1..(Len(answer[w]) + 1)
          /\ answer'[w][Len(answer[w]) + 1] = r
      BY <1>1, <2>2
    <2> QED
      BY <2>1, <2>3 DEF Ended
  <1> QED
    BY <1>2, <1>3, <1>4, OnlyAddNamesIsOk

\* An entry ends without an error only in the step in which its reference comes to name the record
\* of its config, which then is there.
THEOREM OkMeansImported == Spec => OkIsImported
  <1>1. ASSUME IInv, [Next]_vars, NEW v \in Pullers, NEW i \in DOMAIN plan[v],
               Ended(v, i), answer'[v][i] = "ok"
        PROVE  /\ name'[plan[v][i].ref] = plan[v][i].m.config
               /\ image'[plan[v][i].m.config] # None
    <2>1. answer' # answer
      BY <1>1 DEF Ended
    <2>2. PICK w \in Pullers : BeginPull(w) \/ PullStep(w) \/ PullFault(w) \/ Leave(w)
      BY <1>1, <2>1, PodmanStep DEF Next, PullNext, pullLocals, vars
    <2>3. v = w /\ AddNames(w) /\ i = Len(answer[w]) + 1
      BY <1>1, <2>2, NewAnswer DEF IInv, PullerInv
    <2>4. /\ stage[w] = "name" /\ AddName(Config(w), Current(w).ref) /\ UNCHANGED image
      <3>1. answer'[w] = Append(answer[w], "ok") /\ answer[w] \in Seq(Answers)
        <4>1. answer'[w][Len(answer[w]) + 1] = "ok" /\ answer[w] \in Seq(Answers)
              /\ answer \in [Pullers -> Seq(Answers)]
          BY <1>1, <2>3 DEF IInv, PullerInv, PullTypes
        <4> QED
          BY <4>1, <2>3 DEF AddNames, Conclude
      <3>2. ~(Conclude(w, "name", "error"))
        <4>1. Conclude(w, "name", "error") => answer'[w] = Append(answer[w], "error")
          BY <1>1 DEF Conclude, IInv, PullerInv, PullTypes
        <4>2. \A r \in Answers : Append(answer[w], r)[Len(answer[w]) + 1] = r
          BY <3>1
        <4>3. "ok" \in Answers /\ "error" \in Answers /\ "ok" # "error"
          BY DEF Answers
        <4> QED
          BY <3>1, <4>1, <4>2, <4>3
      <3> QED
        BY <2>3, <3>2 DEF AddNames, Conclude
    <2>5. plan[v][i] = Current(w) /\ plan[v][i].m.config = Config(w)
      BY <2>3 DEF Current, Config, Img
    <2>6. Current(w).ref \in Refs /\ name \in [Refs -> Configs \cup {None}]
      BY <1>1, <2>4, AtEntry DEF IInv, PullerInv, PlacesOk, PlaceOk, EntryStages, StorageInv, StorageTypes
    <2> QED
      BY <2>4, <2>5, <2>6 DEF AddName
  <1>2. IInv /\ [Next]_vars =>
          \A w \in Pullers : \A i \in DOMAIN plan[w] :
            Ended(w, i) /\ answer'[w][i] = "ok" =>
              /\ name'[plan[w][i].ref] = plan[w][i].m.config
              /\ image'[plan[w][i].m.config] # None
    BY <1>1
  <1> QED
    BY <1>2, Invariance, PTL DEF Spec, OkIsImported

-----------------------------------------------------------------------------
(* Where every image is what it says it is.                                 *)
(*                                                                          *)
(* Whatever a push takes for a layer then decompresses to it, because all    *)
(* that the machine knows of a blob is true: what cache and store hold, what *)
(* a marker records of a blob, which blob a layer was applied from, which    *)
(* blobs a record's manifests list.                                          *)

\* Blobs, configs, and manifests whose layers are those of their configs.
Sound == Blobs \cup Configs \cup {m \in Manifest : Decompresses(m)}

TrueStore ==
  /\ cache \cup stored \subseteq Sound
  /\ \A r \in Refs : leaf[r] # None => Decompresses(leaf[r])
  /\ \A e \in markers : e[2] \in Blobs /\ Content[e[2]] = e[1]

TrueLayers ==
  \A id \in LayerIds : layer[id] # None =>
    /\ layer[id].diff = DiffOf(id)
    /\ layer[id].blob # None => Content[layer[id].blob] = DiffOf(id)

TrueRecords ==
  \A c \in Configs : image[c] # None =>
    \A m \in image[c].manifests \cup {image[c].default} : m.config = c /\ Truthful(m)

TruePlans == \A w \in Pullers : \A i \in 1..Len(plan[w]) : Decompresses(plan[w][i].m)

\* Blob b is of layer i of config c.
LayerOf(c, i, b) == b \in Blobs /\ Content[b] = DiffIdsOf[c][i]

TruePush(w) ==
  LET c == found[w].m.config
  IN  /\ at[w] \in {"chain"} \cup Choosing => Truthful(found[w].m) /\ found[w].top \in Tops(c)
      /\ at[w] \in Choosing =>
           /\ \A i \in 1..Len(chain[w]) :
                /\ chain[w][i].diff = DiffIdsOf[c][i]
                /\ chain[w][i].blob # None => Content[chain[w][i].blob] = DiffIdsOf[c][i]
           /\ \A i \in 1..Len(picked[w]) : LayerOf(c, i, picked[w][i])
      /\ at[w] \in Serving => Decompresses(served[w])

TruePushers == \A w \in Pushers : TruePush(w)

TrueStorage == TrueLayers /\ TrueRecords
TrueInv == TrueStore /\ TrueStorage /\ TruePlans /\ TruePushers

LEMMA SoundNeeds ==
  ASSUME NEW m \in Manifest, Decompresses(m)
  PROVE  Needs(m) \subseteq Sound /\ Truthful(m)
  BY ManifestShape DEF Needs, Listed, Sound, Decompresses, Truthful

LEMMA SoundManifest ==
  ASSUME NEW m \in Manifest, m \in Sound
  PROVE  Decompresses(m)
  BY CStorageAssumption DEF Sound, Layers

LEMMA SoundLayer ==
  ASSUME NEW b \in Layers, b \in Sound
  PROVE  b \in Blobs
  BY CStorageAssumption DEF Sound, Layers

\* The changes of cache and store.
Truly ==
  \/ UNCHANGED <<cache, catalogVars>>
  \/ UNCHANGED catalogVars /\ \E D \in SUBSET Sound : cache' = cache \cup D
  \/ cache' = cache /\ \E b \in Sound : Upload(b)
  \/ cache' = cache /\ \E m \in Manifest : Decompresses(m) /\ CommitMarkers(m)
  \/ cache' = cache /\ \E m \in Manifest, r \in Refs : Decompresses(m) /\ CommitLeaf(r, m)

LEMMA TrueStoreKept ==
  ASSUME CatalogTypes, TrueStore, Truly
  PROVE  TrueStore'
  <1>0. Sound' = Sound /\ \A m : Decompresses(m)' = Decompresses(m)
    BY DEF Sound, Decompresses
  <1> SUFFICES /\ cache' \cup stored' \subseteq Sound
               /\ \A r \in Refs : leaf'[r] # None => Decompresses(leaf'[r])
               /\ \A e \in markers' : e[2] \in Blobs /\ Content[e[2]] = e[1]
    BY DEF TrueStore, Decompresses, Sound
  <1>1. CASE UNCHANGED <<cache, catalogVars>>
    BY <1>1 DEF TrueStore, catalogVars
  <1>2. CASE UNCHANGED catalogVars /\ \E D \in SUBSET Sound : cache' = cache \cup D
    BY <1>2 DEF TrueStore, catalogVars
  <1>3. CASE cache' = cache /\ \E b \in Sound : Upload(b)
    BY <1>3 DEF TrueStore, Upload
  <1>4. ASSUME NEW m \in Manifest, Decompresses(m), CommitMarkers(m), cache' = cache
        PROVE  \A e \in markers' : e[2] \in Blobs /\ Content[e[2]] = e[1]
    BY <1>4 DEF TrueStore, CommitMarkers, Decompresses
  <1>5. ASSUME NEW m \in Manifest, NEW r \in Refs, Decompresses(m), CommitLeaf(r, m)
        PROVE  \A q \in Refs : leaf'[q] # None => Decompresses(leaf'[q])
    BY <1>5 DEF TrueStore, CommitLeaf, CatalogTypes
  <1> QED
    BY <1>1, <1>2, <1>3, <1>4, <1>5 DEF Truly, TrueStore, CommitMarkers, CommitLeaf

\* The image of an entry.
LEMMA EntrySound ==
  ASSUME PullTypes, PlacesOk, TruePlans, NEW w \in Pullers, stage[w] \in EntryStages
  PROVE  /\ Img(w) \in Manifest /\ Decompresses(Img(w)) /\ Needs(Img(w)) \subseteq Sound
         /\ Current(w).ref \in Refs /\ Config(w) \in Configs
  <1>1. /\ Img(w) \in Manifest /\ Current(w).ref \in Refs /\ Config(w) \in Configs
        /\ Len(answer[w]) + 1 \in 1..Len(plan[w])
    BY AtEntry DEF PlacesOk, PlaceOk
  <1>2. Decompresses(Img(w))
    BY <1>1 DEF TruePlans, Img, Current
  <1> QED
    BY <1>1, <1>2, SoundNeeds

\* What planEntry finds.
LEMMA FoundSound ==
  ASSUME Honest, CatalogTypes, TrueStore, NEW r \in Refs
  PROVE  /\ InStore(r) # None => InStore(r) \in Manifest /\ Decompresses(InStore(r))
         /\ Registry[r] # None => Registry[r] \in Manifest /\ Decompresses(Registry[r])
  <1>1. leaf[r] # None => leaf[r] \in Manifest /\ Decompresses(leaf[r])
    BY DEF CatalogTypes, TrueStore
  <1>2. Pin[r] \in stored => (Pin[r] # None => Pin[r] \in Manifest /\ Decompresses(Pin[r]))
    BY RegistryShape, SoundManifest DEF TrueStore
  <1>3. Registry[r] # None => Registry[r] \in Manifest /\ Decompresses(Registry[r])
    BY RegistryShape DEF Honest
  <1> QED
    BY <1>1, <1>2, <1>3 DEF InStore

\* What a pull puts into cache and store.
LEMMA PullTruly ==
  ASSUME Honest, CatalogTypes, PullTypes, PlacesOk, TrueStore, TruePlans, NEW w \in Pullers,
         BeginPull(w) \/ PullStep(w) \/ PullFault(w) \/ Leave(w)
  PROVE  Truly
  <1>0. /\ stage[w] \in EntryStages =>
             /\ Img(w) \in Manifest /\ Decompresses(Img(w)) /\ Needs(Img(w)) \subseteq Sound
             /\ Current(w).ref \in Refs
        /\ todo[w] # <<>> => Head(todo[w]) \in Refs
    <2>1. todo[w] # <<>> => Head(todo[w]) \in Refs
      BY DEF PullTypes
    <2> QED
      BY <2>1, EntrySound
  <1> USE DEF EntryStages
  <1>1. CASE Resolve(w)
    <2> DEFINE r == Head(todo[w])
               m == IF InStore(r) = None THEN Registry[r] ELSE InStore(r)
    <2>1. /\ todo[w] # <<>> /\ UNCHANGED catalogVars
          /\ cache' = cache \/ (m # None /\ InStore(r) = None /\ cache' = cache \cup Needs(m))
      BY <1>1 DEF Resolve, Download
    <2>2. InStore(r) = None /\ m # None => Needs(m) \in SUBSET Sound
      BY <1>0, <2>1, FoundSound, SoundNeeds
    <2> HIDE DEF m
    <2> QED
      BY <2>1, <2>2 DEF Truly
  <1>2. CASE FailPlan(w)
    <2> DEFINE r == Head(todo[w])
               m == IF InStore(r) = None THEN Registry[r] ELSE None
    <2>1. todo[w] # <<>> /\ UNCHANGED catalogVars /\ \E D \in Partly(m) : cache' = cache \cup D
      BY <1>2 DEF FailPlan, Download
    <2>2. m # None => Needs(m) \subseteq Sound
      BY <1>0, <2>1, FoundSound, SoundNeeds
    <2> HIDE DEF m
    <2>3. Partly(m) \subseteq SUBSET Sound
      BY <2>2 DEF Partly
    <2> QED
      BY <2>1, <2>3 DEF Truly
  <1>3. CASE KeepBlob(w)
    <2>1. stage[w] = "keep" /\ cache' = cache
      BY <1>3 DEF KeepBlob
    <2>2. UNCHANGED catalogVars \/ \E b \in Needs(Img(w)) \ stored : Upload(b)
      BY <1>3 DEF KeepBlob
    <2> QED
      BY <1>0, <2>1, <2>2 DEF Truly
  <1>4. CASE KeepMarkers(w)
    <2>1. stage[w] = "markers" /\ CommitMarkers(Img(w)) /\ cache' = cache
      BY <1>4 DEF KeepMarkers, Step, Goto
    <2> QED
      BY <1>0, <2>1 DEF Truly
  <1>5. CASE KeepLeaf(w)
    <2>1. stage[w] = "publish" /\ CommitLeaf(Current(w).ref, Img(w)) /\ cache' = cache
      BY <1>5 DEF KeepLeaf
    <2> QED
      BY <1>0, <2>1 DEF Truly
  <1>6. CASE Fetch(w)
    <2>1. stage[w] = "fetch" /\ UNCHANGED catalogVars
      BY <1>6 DEF Fetch
    <2>2. cache' = cache \/ (~LayersDone(w) /\ cache' = cache \cup {Blob(w)})
      BY <1>6 DEF Fetch
    <2>3. ASSUME ~LayersDone(w) PROVE {Blob(w)} \in SUBSET Sound
      <3>1. k[w] \in 1..Len(Img(w).layers) /\ DOMAIN Img(w).layers = 1..Len(Img(w).layers)
        BY <1>0, <2>1, <2>3, ManifestShape DEF LayersDone, PlacesOk, PlaceOk, PullTypes
      <3>2. Blob(w) \in Needs(Img(w))
        BY <3>1 DEF Blob, Needs, Listed
      <3> QED
        BY <1>0, <2>1, <3>2
    <2> QED
      BY <2>1, <2>2, <2>3 DEF Truly
  <1>7. CASE \/ BeginPull(w) \/ FindPrefix(w) \/ BeginEntries(w) \/ FailEntry(w) \/ FailLayer(w)
             \/ Cancel(w) \/ Leave(w) \/ BeginEntry(w) \/ SkipEntry(w) \/ EndPull(w)
             \/ LookLayer(w) \/ PutLayer(w) \/ ReuseLayer(w) \/ CheckLayer(w) \/ CreateImage(w)
             \/ ReuseImage(w) \/ SetBigData(w) \/ AddNames(w)
    <2>1. UNCHANGED <<cache, catalogVars>>
      BY <1>7 DEF BeginPull, FindPrefix, PrefixEnds, BeginEntries, FailEntry, FailLayer, Cancel,
         Leave, BeginEntry, SkipEntry, EndPull, LookLayer, PutLayer, ReuseLayer, CheckLayer,
         CreateImage, ReuseImage, SetBigData, AddNames, machineVars
    <2> QED
      BY <2>1 DEF Truly
  <1> QED
    BY <1>1, <1>2, <1>3, <1>4, <1>5, <1>6, <1>7 DEF PullStep, PlanStep, EntryStep, PullFault

\* An entry is planned for an image of the store or of the registry.
LEMMA PullTruePlans ==
  ASSUME Honest, CatalogTypes, PullTypes, PlacesOk, TrueStore, TruePlans, NEW w \in Pullers,
         BeginPull(w) \/ PullStep(w) \/ PullFault(w) \/ Leave(w)
  PROVE  TruePlans'
  <1>0. plan \in [Pullers -> Seq(Entry)] /\ plan[w] \in Seq(Entry)
    BY DEF PullTypes
  <1>1. ASSUME NEW new, plan' = [plan EXCEPT ![w] = new],
               \A i \in 1..Len(new) : Decompresses(new[i].m)
        PROVE  TruePlans'
    <2> SUFFICES ASSUME NEW v \in Pullers, NEW i \in 1..Len(plan'[v])
                 PROVE  Decompresses(plan'[v][i].m)
      BY DEF TruePlans, Decompresses
    <2>1. plan'[w] = new /\ (v # w => plan'[v] = plan[v])
      BY <1>0, <1>1
    <2>2. CASE v = w
      BY <1>1, <2>1, <2>2
    <2>3. CASE v # w
      BY <2>1, <2>3 DEF TruePlans
    <2> QED
      BY <2>2, <2>3
  <1>2. ASSUME plan' = plan PROVE TruePlans'
    <2> SUFFICES ASSUME NEW v \in Pullers, NEW i \in 1..Len(plan'[v])
                 PROVE  Decompresses(plan'[v][i].m)
      BY DEF TruePlans, Decompresses
    <2> QED
      BY <1>2 DEF TruePlans
  <1>3. CASE Resolve(w)
    <2> DEFINE r == Head(todo[w])
               fallback == InStore(r) = None
               m == IF fallback THEN Registry[r] ELSE InStore(r)
    <2>1. /\ todo[w] # <<>>
          /\ (m # None /\ Planned(w, m, fallback)) \/ NotPlanned(w)
      BY <1>3 DEF Resolve
    <2>2. r \in Refs
      BY <2>1 DEF PullTypes
    <2>3. m # None => m \in Manifest /\ Decompresses(m)
      BY <2>2, FoundSound
    <2> HIDE DEF m, fallback
    <2>4. CASE m # None /\ Planned(w, m, fallback)
      <3> DEFINE e == [ref |-> r, m |-> m, from |-> 1, fallback |-> fallback]
      <3>1. plan' = [plan EXCEPT ![w] = Append(plan[w], e)] /\ e.m = m
        BY <2>4 DEF Planned
      <3> HIDE DEF e
      <3>2. /\ Len(Append(plan[w], e)) = Len(plan[w]) + 1 /\ Len(plan[w]) \in Nat
            /\ \A i \in 1..Len(plan[w]) : Append(plan[w], e)[i] = plan[w][i]
            /\ Append(plan[w], e)[Len(plan[w]) + 1] = e
        BY <1>0
      <3>3. \A i \in 1..(Len(plan[w]) + 1) : Decompresses(Append(plan[w], e)[i].m)
        <4> TAKE i \in 1..(Len(plan[w]) + 1)
        <4>1. CASE i \in 1..Len(plan[w])
          BY <3>2, <4>1 DEF TruePlans
        <4>2. CASE i = Len(plan[w]) + 1
          BY <2>3, <2>4, <3>1, <3>2, <4>2
        <4> QED
          BY <3>2, <4>1, <4>2
      <3> QED
        BY <1>1, <3>1, <3>2, <3>3
    <2>5. CASE NotPlanned(w)
      BY <1>2, <2>5 DEF NotPlanned
    <2> QED
      BY <2>1, <2>4, <2>5
  <1>4. CASE FindPrefix(w)
    <2> DEFINE n == Len(plan[w])
               e == [plan[w][n] EXCEPT !.from = @ + 1]
    <2>0. n \in Nat /\ n >= 1
      BY <1>0, <1>4 DEF FindPrefix, PlacesOk, PlaceOk
    <2>1. plan' = plan \/ plan' = [plan EXCEPT ![w][n].from = @ + 1]
      BY <1>4 DEF FindPrefix, PrefixEnds
    <2>2. CASE plan' = [plan EXCEPT ![w][n].from = @ + 1]
      <3>1. plan[w][n] \in Entry
        BY <1>0, <2>0
      <3>2. e.m = plan[w][n].m
        BY <3>1 DEF Entry
      <3>3. plan' = [plan EXCEPT ![w] = [plan[w] EXCEPT ![n] = e]]
        BY <2>2
      <3> HIDE DEF e
      <3>4. /\ Len([plan[w] EXCEPT ![n] = e]) = n
            /\ \A i \in 1..n : [plan[w] EXCEPT ![n] = e][i] = IF i = n THEN e ELSE plan[w][i]
        BY <1>0, <2>0
      <3>5. \A i \in 1..n : Decompresses([plan[w] EXCEPT ![n] = e][i].m)
        BY <3>2, <3>4 DEF TruePlans
      <3> QED
        BY <1>1, <2>0, <3>3, <3>4, <3>5
    <2> QED
      BY <1>2, <2>1, <2>2
  <1>5. CASE Leave(w)
    <2>1. plan' = [plan EXCEPT ![w] = <<>>]
      BY <1>5 DEF Leave
    <2>2. \A i \in 1..Len(<<>>) : Decompresses(<<>>[i].m)
      OBVIOUS
    <2> QED
      BY <1>1, <2>1, <2>2
  <1>6. CASE BeginPull(w) \/ BeginEntries(w) \/ FailPlan(w) \/ FailLayer(w) \/ Cancel(w)
    BY <1>2, <1>6 DEF BeginPull, BeginEntries, Step, Goto, FailPlan, FailLayer, PrefixEnds, Cancel
  <1>7. CASE EntryStep(w) \/ FailEntry(w)
    <2>1. EntryMove(w)
      BY <1>7, EntryStepMoves
    <2> QED
      BY <1>2, <2>1 DEF EntryMove, Goes, Ends
  <1> QED
    BY <1>3, <1>4, <1>5, <1>6, <1>7 DEF PullStep, PlanStep, PullFault

\* The changes of layers and records.
NewTrueLayer ==
  \E id \in LayerIds, l \in LayerRecord :
    /\ layer' = [layer EXCEPT ![id] = l]
    /\ l.diff = DiffOf(id) /\ (l.blob # None => Content[l.blob] = DiffOf(id))

FewerLayers == \A id \in LayerIds : layer'[id] \in {layer[id], None}

\* A record has what it had and, if anything else, m.
NewTrueManifest ==
  \E c \in Configs, m \in Manifest :
    /\ m.config = c /\ Truthful(m)
    /\ \A d \in Configs \ {c} : image'[d] = image[d]
    /\ image'[c] # None
    /\ \A x \in image'[c].manifests \cup {image'[c].default} :
         x = m \/ (image[c] # None /\ x \in image[c].manifests \cup {image[c].default})

FewerRecords == \A c \in Configs : image'[c] \in {image[c], None}

LEMMA TrueLayersKept ==
  ASSUME StorageTypes, TrueLayers, layer' = layer \/ NewTrueLayer \/ FewerLayers
  PROVE  TrueLayers'
  <1> SUFFICES ASSUME NEW id \in LayerIds, layer'[id] # None
               PROVE  /\ layer'[id].diff = DiffOf(id)
                      /\ layer'[id].blob # None => Content[layer'[id].blob] = DiffOf(id)
    BY DEF TrueLayers, DiffOf
  <1>1. CASE layer'[id] = layer[id]
    BY <1>1 DEF TrueLayers
  <1>2. CASE NewTrueLayer
    <2>1. PICK x \in LayerIds, l \in LayerRecord :
            /\ layer' = [layer EXCEPT ![x] = l]
            /\ l.diff = DiffOf(x) /\ (l.blob # None => Content[l.blob] = DiffOf(x))
      BY <1>2 DEF NewTrueLayer
    <2>2. layer'[id] = IF id = x THEN l ELSE layer[id]
      BY <2>1 DEF StorageTypes
    <2> QED
      BY <1>1, <2>1, <2>2
  <1> QED
    BY <1>1, <1>2 DEF FewerLayers

LEMMA TrueRecordsKept ==
  ASSUME TrueRecords, image' = image \/ NewTrueManifest \/ FewerRecords
  PROVE  TrueRecords'
  <1> SUFFICES ASSUME NEW c \in Configs, image'[c] # None,
                      NEW x \in image'[c].manifests \cup {image'[c].default}
               PROVE  x.config = c /\ Truthful(x)
    BY DEF TrueRecords, Truthful
  <1>1. CASE image'[c] = image[c]
    BY <1>1 DEF TrueRecords
  <1>2. CASE NewTrueManifest
    <2>1. PICK d \in Configs, m \in Manifest :
            /\ m.config = d /\ Truthful(m)
            /\ \A e \in Configs \ {d} : image'[e] = image[e]
            /\ image'[d] # None
            /\ \A y \in image'[d].manifests \cup {image'[d].default} :
                 y = m \/ (image[d] # None /\ y \in image[d].manifests \cup {image[d].default})
      BY <1>2 DEF NewTrueManifest
    <2>2. CASE c # d
      BY <1>1, <2>1, <2>2
    <2>3. CASE c = d
      BY <2>1, <2>3 DEF TrueRecords
    <2> QED
      BY <2>2, <2>3
  <1> QED
    BY <1>1, <1>2 DEF FewerRecords

LEMMA NewRecordTrue ==
  ASSUME StorageTypes, NEW c \in Configs, NEW top, NEW m \in Manifest, m.config = c, Truthful(m),
         NewRecord(c, top, m), top \in LayerIds \cup Bases
  PROVE  NewTrueManifest
  <1> DEFINE new == [top |-> top, manifests |-> {m}, default |-> m]
  <1>1. image' = [image EXCEPT ![c] = new] /\ new.manifests = {m} /\ new.default = m /\ new # None
    BY RecordAssumption DEF NewRecord, ImageRecord
  <1> HIDE DEF new
  <1>2. image'[c] = new /\ \A d \in Configs \ {c} : image'[d] = image[d]
    BY <1>1 DEF StorageTypes
  <1> QED
    BY <1>1, <1>2 DEF NewTrueManifest

\* What a pull puts into layers and records.
LEMMA PullTrueStorage ==
  ASSUME StorageTypes, PullTypes, PlacesOk, TrueStorage, TruePlans, NEW w \in Pullers,
         BeginPull(w) \/ PullStep(w) \/ PullFault(w) \/ Leave(w)
  PROVE  TrueStorage'
  <1> SUFFICES /\ layer' = layer \/ NewTrueLayer \/ FewerLayers
               /\ image' = image \/ NewTrueManifest \/ FewerRecords
    BY TrueLayersKept, TrueRecordsKept DEF TrueStorage
  <1>0. stage[w] \in EntryStages =>
          /\ Img(w) \in Manifest /\ Decompresses(Img(w)) /\ Truthful(Img(w))
          /\ Config(w) \in Configs /\ Img(w).config = Config(w)
    BY EntrySound, SoundNeeds DEF Config
  <1> USE DEF EntryStages, LayerStages
  <1>1. CASE PutLayer(w)
    <2>1. stage[w] = "put" /\ UNCHANGED image
      BY <1>1 DEF PutLayer
    <2>2. /\ Id(w) \in LayerIds /\ [diff |-> Content[Blob(w)], blob |-> Blob(w)] \in LayerRecord
      BY <2>1, AtLayer
    <2>3. Content[Blob(w)] = DiffOf(Id(w))
      <3>1. /\ k[w] \in Nat /\ k[w] >= 1 /\ k[w] <= Len(Img(w).layers)
        BY <2>1 DEF PlacesOk, PlaceOk, PullTypes, Img, Current
      <3>2. /\ Len(Img(w).layers) = Len(DiffIdsOf[Config(w)])
            /\ DOMAIN Img(w).layers = 1..Len(Img(w).layers)
            /\ DiffIdsOf[Config(w)] \in Seq(DiffIds) /\ Len(DiffIdsOf[Config(w)]) \in Nat
        BY <1>0, <2>1, ManifestShape DEF Decompresses
      <3>3. Content[Blob(w)] = DiffIdsOf[Config(w)][k[w]]
        BY <1>0, <2>1, <3>1, <3>2 DEF Decompresses, Blob
      <3>4. DiffIdsOf[Config(w)] \in Ids /\ k[w] \in 0..Len(DiffIdsOf[Config(w)])
        BY <3>1, <3>2 DEF Ids
      <3>5. Len(Id(w)) = k[w] /\ Id(w)[k[w]] = DiffIdsOf[Config(w)][k[w]]
        BY <3>1, <3>4, FirstOf DEF Id, ChainId
      <3> QED
        BY <3>3, <3>5 DEF DiffOf
    <2>4. layer' = layer \/ layer' = [layer EXCEPT ![Id(w)] = [diff |-> Content[Blob(w)], blob |-> Blob(w)]]
      BY <1>1 DEF PutLayer, NewLayer
    <2> DEFINE l == [diff |-> Content[Blob(w)], blob |-> Blob(w)]
    <2>5. l.diff = Content[Blob(w)] /\ l.blob = Blob(w)
      OBVIOUS
    <2> HIDE DEF l
    <2>6. layer' = layer \/ layer' = [layer EXCEPT ![Id(w)] = l]
      BY <2>4 DEF l
    <2>7. l \in LayerRecord
      BY <2>2 DEF l
    <2> QED
      BY <2>1, <2>2, <2>3, <2>5, <2>6, <2>7 DEF NewTrueLayer
  <1>2. CASE CheckLayer(w)
    <2>1. stage[w] = "check" /\ UNCHANGED image
      BY <1>2 DEF CheckLayer
    <2>2. layer' = layer \/ layer' = [layer EXCEPT ![Id(w)] = None]
      BY <1>2 DEF CheckLayer, DeleteLayer
    <2>3. layer' = layer \/ FewerLayers
      BY <2>2 DEF FewerLayers, StorageTypes
    <2> QED
      BY <2>1, <2>3
  <1>3. CASE CreateImage(w)
    <2>1. stage[w] = "create" /\ UNCHANGED layer
      BY <1>3 DEF CreateImage
    <2>2. Top(Config(w)) \in LayerIds \cup Bases
      BY <1>0, <2>1, TopIsId DEF Tops
    <2>3. image' = image \/ NewRecord(Config(w), Top(Config(w)), Img(w))
      BY <1>3 DEF CreateImage
    <2> QED
      BY <1>0, <2>1, <2>2, <2>3, NewRecordTrue
  <1>4. CASE SetBigData(w)
    <2>1. stage[w] = "data" /\ UNCHANGED layer
      BY <1>4 DEF SetBigData
    <2>2. \/ image' = image
          \/ /\ image[Config(w)] # None
             /\ \/ image' = [image EXCEPT ![Config(w)].manifests = @ \cup {Img(w)}]
                \/ image' = [image EXCEPT ![Config(w)].default = Img(w)]
      BY <1>4 DEF SetBigData
    <2>3. CASE /\ image[Config(w)] # None
               /\ \/ image' = [image EXCEPT ![Config(w)].manifests = @ \cup {Img(w)}]
                  \/ image' = [image EXCEPT ![Config(w)].default = Img(w)]
      <3> DEFINE c == Config(w)
                 new == image'[c]
      <3>1. c \in Configs /\ image[c] \in ImageRecord
        BY <1>0, <2>1, <2>3 DEF StorageTypes
      <3>2. /\ new \in ImageRecord
            /\ \A x \in new.manifests \cup {new.default} :
                 x = Img(w) \/ x \in image[c].manifests \cup {image[c].default}
            /\ \A d \in Configs \ {c} : image'[d] = image[d]
        BY <1>0, <2>1, <2>3, <3>1 DEF StorageTypes, ImageRecord
      <3>3. new # None
        BY <3>2, RecordAssumption
      <3> QED
        BY <1>0, <2>1, <2>3, <3>1, <3>2, <3>3 DEF NewTrueManifest
    <2> QED
      BY <2>1, <2>2, <2>3
  <1>5. CASE AddNames(w)
    BY <1>5 DEF AddNames
  <1>6. CASE BeginPull(w) \/ PlanStep(w) \/ PullFault(w) \/ Leave(w)
    BY <1>6 DEF BeginPull, PlanStep, Resolve, FindPrefix, PrefixEnds, BeginEntries, PullFault,
       FailPlan, FailEntry, FailLayer, Cancel, Leave, machineVars, storageVars
  <1>7. CASE \/ BeginEntry(w) \/ SkipEntry(w) \/ EndPull(w) \/ KeepBlob(w) \/ KeepMarkers(w)
             \/ KeepLeaf(w) \/ Fetch(w) \/ LookLayer(w) \/ ReuseLayer(w) \/ ReuseImage(w)
    BY <1>7 DEF BeginEntry, SkipEntry, EndPull, KeepBlob, KeepMarkers, KeepLeaf, Fetch, LookLayer,
       ReuseLayer, ReuseImage, machineVars, storageVars
  <1> QED
    BY <1>1, <1>2, <1>3, <1>4, <1>5, <1>6, <1>7 DEF PullStep, EntryStep

\* What podman does to them.
LEMMA PodmanTrueStorage ==
  ASSUME Honest, StorageTypes, TrueStorage, Podman
  PROVE  TrueStorage'
  <1> SUFFICES /\ layer' = layer \/ NewTrueLayer \/ FewerLayers
               /\ image' = image \/ NewTrueManifest \/ FewerRecords
    BY TrueLayersKept, TrueRecordsKept DEF TrueStorage
  <1>1. ASSUME NEW id \in LayerIds, PodmanLayer(id)
        PROVE  NewTrueLayer /\ image' = image
    <2>1. PICK b \in {None} \cup {z \in Blobs : Content[z] = DiffOf(id)} :
            NewLayer(id, [diff |-> DiffOf(id), blob |-> b])
      BY <1>1 DEF PodmanLayer
    <2> DEFINE l == [diff |-> DiffOf(id), blob |-> b]
    <2>2. l \in LayerRecord /\ l.diff = DiffOf(id) /\ l.blob = b /\ layer' = [layer EXCEPT ![id] = l]
      BY <2>1, ParentShape DEF LayerRecord, Layers, NewLayer
    <2> HIDE DEF l
    <2>3. l.blob # None => Content[l.blob] = DiffOf(id)
      BY <2>1, <2>2
    <2> QED
      BY <1>1, <2>2, <2>3 DEF PodmanLayer, NewTrueLayer
  <1>2. ASSUME NEW m \in Local, NEW top \in Tops(m.config), PodmanImage(m.config, m, top)
        PROVE  NewTrueManifest /\ layer' = layer
    <2>1. m \in Manifest /\ m.config \in Configs /\ Truthful(m)
      BY ExchangeAssumption, ManifestShape DEF Honest
    <2>2. top \in LayerIds \cup Bases
      BY <2>1, TopIsId
    <2> QED
      BY <1>2, <2>1, <2>2, NewRecordTrue DEF PodmanImage
  <1>3. ASSUME NEW c \in Configs, PodmanRemove(c) PROVE FewerLayers /\ FewerRecords
    BY <1>3 DEF PodmanRemove, FewerLayers, FewerRecords, StorageTypes
  <1>4. ASSUME NEW id \in LayerIds, PodmanPrune(id) PROVE FewerLayers /\ image' = image
    BY <1>4 DEF PodmanPrune, DeleteLayer, FewerLayers, StorageTypes
  <1>5. ASSUME NEW c, NEW r, PodmanTag(c, r) PROVE layer' = layer /\ image' = image
    BY <1>5 DEF PodmanTag
  <1>6. \A m \in Local : Top(m.config) \in Tops(m.config)
                         /\ (m.config \in Tocs => TocTop(m.config) \in Tops(m.config))
    BY DEF Tops
  <1> QED
    BY <1>1, <1>2, <1>3, <1>4, <1>5, <1>6 DEF Podman, PodmanAdds, PodmanDisturbs

\* What a push puts into cache and store.
LEMMA PushTruly ==
  ASSUME SourceTypes, NEW w \in Pushers, PushOk(w), TruePush(w), TruePush(w)',
         BeginSource(w) \/ SourceStep(w) \/ SourceFail(w) \/ SourceLeave(w)
  PROVE  Truly
  <1>0. at[w] \in Serving => /\ served[w] \in Manifest /\ Decompresses(served[w])
                            /\ Needs(served[w]) \subseteq Sound
    BY SoundNeeds DEF PushOk, TruePush
  <1> USE DEF Serving
  <1>1. CASE Export(w)
    <2>1. UNCHANGED catalogVars /\ (cache' = cache \/ \E d \in DiffIds : cache' = cache \cup {Zstd[d]})
      BY <1>1 DEF Export
    <2>2. \A d \in DiffIds : {Zstd[d]} \in SUBSET Sound
      BY CStorageAssumption DEF Sound
    <2> QED
      BY <2>1, <2>2 DEF Truly
  <1>2. CASE PutManifest(w)
    <2>1. at[w] = "asis" /\ found[w].m \in Manifest /\ picked[w] \in Seq(Layers)
      BY <1>2 DEF PutManifest, PushOk, Choosing, FoundRecord, SourceTypes
    <2> DEFINE m == IF asIs[w] THEN Chosen(w)
                    ELSE [config |-> Chosen(w).config, layers |-> picked[w]]
    <2>2. m \in Manifest
      BY <2>1 DEF Chosen, Manifest
    <2>3. /\ cache' = cache \cup {m, m.config} /\ UNCHANGED catalogVars
          /\ served' = [served EXCEPT ![w] = m] /\ at' = [at EXCEPT ![w] = "upload"]
      BY <1>2 DEF PutManifest, Move
    <2> HIDE DEF m
    <2>4. at'[w] = "upload" /\ served'[w] = m
      BY <2>3 DEF SourceTypes
    <2>5. Decompresses(m)
      BY <2>4 DEF TruePush, Decompresses
    <2>6. {m, m.config} \in SUBSET Sound
      BY <2>2, <2>5, SoundNeeds DEF Needs
    <2> QED
      BY <2>3, <2>6 DEF Truly
  <1>3. CASE SourceUpload(w)
    <2>1. at[w] = "upload" /\ cache' = cache
      BY <1>3 DEF SourceUpload
    <2>2. UNCHANGED catalogVars \/ \E b \in (Needs(served[w]) \ stored) \cap cache : Upload(b)
      BY <1>3 DEF SourceUpload
    <2> QED
      BY <1>0, <2>1, <2>2 DEF Truly
  <1>4. CASE SourceMarkers(w)
    <2>1. at[w] = "markers" /\ CommitMarkers(served[w]) /\ cache' = cache
      BY <1>4 DEF SourceMarkers
    <2> QED
      BY <1>0, <2>1 DEF Truly
  <1>5. CASE SourceLeaf(w)
    <2>1. at[w] = "publish" /\ CommitLeaf(ref[w], served[w]) /\ cache' = cache
      BY <1>5 DEF SourceLeaf
    <2>2. ref[w] \in Refs
      BY <2>1 DEF PushOk
    <2> QED
      BY <1>0, <2>1, <2>2 DEF Truly
  <1>6. CASE \/ BeginSource(w) \/ Find(w) \/ WalkChain(w) \/ PickAsIs(w) \/ PickByDiffId(w)
             \/ SourceFail(w) \/ SourceLeave(w)
    <2>1. UNCHANGED <<cache, catalogVars>>
      BY <1>6 DEF BeginSource, Find, WalkChain, PickAsIs, PickByDiffId, SourceFail, SourceLeave,
         machineVars
    <2> QED
      BY <2>1 DEF Truly
  <1> QED
    BY <1>1, <1>2, <1>3, <1>4, <1>5, <1>6 DEF SourceStep

\* What is known of w's locals stays as long as they do.
LEMMA TruePushStays ==
  ASSUME NEW w \in Pushers, TruePush(w), at'[w] = at[w], found'[w] = found[w], chain'[w] = chain[w],
         picked'[w] = picked[w], served'[w] = served[w]
  PROVE  TruePush(w)'
  BY DEF TruePush, Truthful, Decompresses, LayerOf, Tops, Top, TocTop

\* find: a manifest of a record, which is on the layers of its config.
LEMMA CandidateTrue ==
  ASSUME StorageInv, TrueRecords, NEW r \in Refs, NEW f \in Candidates(r)
  PROVE  Truthful(f.m) /\ f.top \in Tops(f.m.config)
  <1> DEFINE pinned == {c \in Configs : image[c] # None /\ Pin[r] \in image[c].manifests}
             named == {c \in Configs : image[c] # None /\ name[r] = c}
  <1>1. \A c \in Configs : image[c] # None => image[c].top \in Tops(c)
    BY DEF StorageInv, RecordsWhole
  <1>2. CASE pinned # {}
    <2>1. PICK c \in pinned : f = [top |-> image[c].top, m |-> Pin[r]]
      BY <1>2 DEF Candidates
    <2>2. Pin[r].config = c /\ Truthful(Pin[r])
      BY <2>1 DEF TrueRecords
    <2> QED
      BY <1>1, <2>1, <2>2
  <1>3. CASE pinned = {}
    <2>1. PICK c \in named : f = [top |-> image[c].top, m |-> image[c].default]
      BY <1>3 DEF Candidates
    <2>2. image[c].default.config = c /\ Truthful(image[c].default)
      BY <2>1 DEF TrueRecords
    <2> QED
      BY <1>1, <2>1, <2>2
  <1> QED
    BY <1>2, <1>3

\* The chain of layers: as many as the config lists, above podman's base or not.
LEMMA ChainTrue ==
  ASSUME StorageTypes, TrueLayers, NEW c \in Configs, NEW top \in Tops(c),
         \A id \in LayerIds : Below(id, top) => layer[id] # None,
         NEW i \in 1..Len(ChainTo(top))
  PROVE  /\ ChainTo(top)[i].diff = DiffIdsOf[c][i]
         /\ ChainTo(top)[i].blob # None => Content[ChainTo(top)[i].blob] = DiffIdsOf[c][i]
  <1> DEFINE base == IF top # <<>> /\ Head(top) = Toc THEN 1 ELSE 0
             n == Len(top) - base
             id == SubSeq(top, 1, base + i)
             link(j) == [id |-> SubSeq(top, 1, base + j), diff |-> layer[SubSeq(top, 1, base + j)].diff,
                         blob |-> layer[SubSeq(top, 1, base + j)].blob]
  <1>1. ChainTo(top) = [j \in 1..n |-> link(j)]
    BY DEF ChainTo
  <1>2. /\ DiffIdsOf[c] \in Seq(DiffIds) /\ Len(DiffIdsOf[c]) \in Nat /\ Toc \notin DiffIds
        /\ top \in Ids /\ Len(top) \in Nat /\ top \in LayerIds \cup Bases
    BY CStorageAssumption, TopShape, TopIsId
  <1>3. /\ base \in {0, 1} /\ Len(top) = base + Len(DiffIdsOf[c])
        /\ \A j \in 1..Len(DiffIdsOf[c]) : top[base + j] = DiffIdsOf[c][j]
    <2>1. CASE top = DiffIdsOf[c]
      <3>1. base = 0
        <4>1. ASSUME top # <<>> PROVE Head(top) \in DiffIds
          BY <1>2, <2>1, <4>1
        <4> QED
          BY <1>2, <4>1
      <3> HIDE DEF base
      <3>2. \A j \in 1..Len(DiffIdsOf[c]) : base + j = j
        BY <1>2, <3>1
      <3>3. Len(top) = base + Len(DiffIdsOf[c])
        BY <1>2, <2>1, <3>1
      <3> QED
        BY <2>1, <3>1, <3>2, <3>3
    <2>2. CASE top = <<Toc>> \o DiffIdsOf[c]
      <3>1. /\ Len(top) = 1 + Len(DiffIdsOf[c]) /\ top[1] = Toc
            /\ \A j \in 1..Len(DiffIdsOf[c]) : top[1 + j] = DiffIdsOf[c][j]
        BY <1>2, <2>2
      <3>2. base = 1
        BY <1>2, <3>1 DEF Ids
      <3> HIDE DEF base
      <3> QED
        BY <3>1, <3>2
    <2>3. top = DiffIdsOf[c] \/ top = <<Toc>> \o DiffIdsOf[c]
      BY DEF Tops, Top, TocTop
    <2> QED
      BY <2>1, <2>2, <2>3
  <1>4. n = Len(DiffIdsOf[c])
    BY <1>2, <1>3
  <1> HIDE DEF base, n, link
  <1>5. i \in 1..Len(DiffIdsOf[c])
    BY <1>1, <1>2, <1>4
  <1>6. ChainTo(top) \in Seq(ChainLink)
    BY <1>2, ChainShape
  <1>7. ChainTo(top)[i] = link(i) /\ ChainTo(top)[i] \in ChainLink
    BY <1>1, <1>4, <1>5, <1>6
  <1>8. /\ link(i).id = id /\ link(i).diff = layer[id].diff /\ link(i).blob = layer[id].blob
        /\ base + i \in 0..Len(top)
    BY <1>2, <1>3, <1>5 DEF link
  <1>9. Below(id, top) /\ Len(id) = base + i /\ id[base + i] = top[base + i]
    BY <1>2, <1>3, <1>5, <1>8, FirstOf
  <1> HIDE DEF id
  <1>10. id \in LayerIds /\ layer[id] # None
    BY <1>7, <1>8, <1>9 DEF ChainLink
  <1>11. DiffOf(id) = DiffIdsOf[c][i]
    BY <1>3, <1>5, <1>9 DEF DiffOf
  <1> QED
    BY <1>7, <1>8, <1>10, <1>11 DEF TrueLayers

\* What may be chosen for a layer is of that layer.
LEMMA ChoiceTrue ==
  ASSUME CatalogTypes, SourceTypes, TrueStore, NEW w \in Pushers, PushOk(w), TruePush(w),
         at[w] \in Choosing, Len(picked[w]) < Len(chain[w])
  PROVE  LET c == found[w].m.config
             n == Len(picked[w]) + 1
         IN  /\ \A b \in AsIsBlobs(w) \cup Recorded(Link(w).diff) : LayerOf(c, n, b)
             /\ Link(w).diff \in DiffIds /\ LayerOf(c, n, Zstd[Link(w).diff])
  <1> DEFINE c == found[w].m.config
             n == Len(picked[w]) + 1
  <1>1. /\ found[w] \in FoundRecord /\ Len(chain[w]) = Len(found[w].m.layers)
        /\ picked[w] \in Seq(Layers) /\ chain[w] \in Seq(ChainLink)
    BY DEF PushOk, Chose, SourceTypes, Choosing
  <1>2. /\ n \in 1..Len(chain[w]) /\ n \in 1..Len(found[w].m.layers)
        /\ found[w].m.layers \in Seq(Layers)
    BY <1>1, ManifestShape DEF FoundRecord
  <1>3. /\ Link(w) = chain[w][n] /\ Link(w) \in ChainLink /\ ListedHere(w) = found[w].m.layers[n]
        /\ ListedHere(w) \in Layers
    BY <1>1, <1>2 DEF Link, ListedHere, Chosen
  <1>4. /\ Link(w).diff \in DiffIds /\ Link(w).blob \in Layers \cup {None}
        /\ Link(w).diff = DiffIdsOf[c][n]
        /\ Link(w).blob # None => Content[Link(w).blob] = DiffIdsOf[c][n]
    BY <1>2, <1>3 DEF TruePush, ChainLink
  <1>5. Content[ListedHere(w)] = DiffIdsOf[c][n]
    BY <1>1, <1>2, <1>3, ManifestShape DEF TruePush, Truthful, FoundRecord
  <1>6. \A b \in AsIsBlobs(w) : LayerOf(c, n, b)
    <2> SUFFICES ASSUME NEW b \in AsIsBlobs(w) PROVE LayerOf(c, n, b)
      OBVIOUS
    <2>1. /\ b \in cache \cup stored /\ b # None
          /\ b = ListedHere(w) \/ b = Link(w).blob
      BY DEF AsIsBlobs
    <2>2. b \in Layers /\ Content[b] = DiffIdsOf[c][n]
      BY <1>3, <1>4, <1>5, <2>1
    <2>3. b \in Blobs
      BY <2>1, <2>2, SoundLayer DEF TrueStore
    <2> QED
      BY <2>2, <2>3 DEF LayerOf
  <1>7. \A b \in Recorded(Link(w).diff) : LayerOf(c, n, b)
    BY <1>4 DEF Recorded, TrueStore, LayerOf
  <1>8. LayerOf(c, n, Zstd[Link(w).diff])
    BY <1>4, CStorageAssumption DEF LayerOf
  <1> QED
    BY <1>4, <1>6, <1>7, <1>8

LEMMA PickTrue ==
  ASSUME SourceTypes, NEW w \in Pushers, PushOk(w), TruePush(w), at[w] \in Choosing,
         NEW from, NEW b, Pick(w, from, b), LayerOf(found[w].m.config, Len(picked[w]) + 1, b),
         UNCHANGED <<ref, found, chain, served>>
  PROVE  TruePush(w)'
  <1> DEFINE longer == Append(picked[w], b)
             c == found[w].m.config
             n == Len(picked[w])
  <1>1. /\ picked[w] \in Seq(Layers) /\ Len(longer) = n + 1 /\ n \in Nat
        /\ longer[n + 1] = b /\ \A i \in 1..n : longer[i] = picked[w][i]
    BY DEF SourceTypes
  <1>2. at'[w] = "asis" /\ picked'[w] = longer
    BY DEF Pick, Move, SourceTypes
  <1> HIDE DEF longer
  <1>3. \A i \in 1..Len(picked'[w]) : LayerOf(c, i, picked'[w][i])
    <2> TAKE i \in 1..Len(picked'[w])
    <2>1. CASE i = n + 1
      BY <1>1, <1>2, <2>1
    <2>2. CASE i \in 1..n
      BY <1>1, <1>2, <2>2 DEF TruePush
    <2> QED
      BY <1>1, <1>2, <2>1, <2>2
  <1>4. Truthful(found[w].m)' /\ found'[w] = found[w] /\ chain'[w] = chain[w]
        /\ found[w].top \in Tops(c)'
    BY DEF TruePush, Truthful, Tops, Top, TocTop
  <1> HIDE DEF c
  <1>5. /\ \A i \in 1..Len(chain[w]) :
             /\ chain[w][i].diff = DiffIdsOf[c][i]
             /\ chain[w][i].blob # None => Content[chain[w][i].blob] = DiffIdsOf[c][i]
    BY DEF TruePush, c
  <1> QED
    BY <1>2, <1>3, <1>4, <1>5 DEF TruePush, LayerOf, Choosing, Serving, c, Truthful

LEMMA PushTrue ==
  ASSUME StorageInv, CatalogTypes, SourceTypes, TrueStorage, TrueStore,
         NEW w \in Pushers, PushOk(w), TruePush(w),
         BeginSource(w) \/ SourceStep(w) \/ SourceFail(w) \/ SourceLeave(w)
  PROVE  TruePush(w)'
  <1>0. at \in [Pushers -> PushStages]
    BY DEF SourceTypes
  \* Before find, and after a failure, nothing is known.
  <1>1. ASSUME at'[w] \in {"idle", "find", "failed"} PROVE TruePush(w)'
    BY <1>1 DEF TruePush, Choosing, Serving
  <1>2. CASE BeginSource(w) \/ SourceFail(w) \/ SourceLeave(w)
    BY <1>0, <1>1, <1>2 DEF BeginSource, SourceFail, SourceLeave, Move
  <1>3. ASSUME NEW to, NEW from, Move(w, from, to), to \in {"failed"} PROVE TruePush(w)'
    BY <1>0, <1>1, <1>3 DEF Move
  <1>4. CASE Find(w)
    <2>1. ASSUME NEW f \in Candidates(ref[w]), Move(w, "find", "chain"), found' = [found EXCEPT ![w] = f]
          PROVE  TruePush(w)'
      <3>1. ref[w] \in Refs /\ at'[w] = "chain" /\ found'[w] = f
        BY <1>0, <2>1 DEF PushOk, Move, SourceTypes
      <3>2. Truthful(f.m) /\ f.top \in Tops(f.m.config)
        BY <3>1, CandidateTrue DEF TrueStorage
      <3> QED
        BY <3>1, <3>2 DEF TruePush, Choosing, Serving, Truthful, Tops, Top, TocTop
    <2> QED
      BY <1>3, <1>4, <2>1 DEF Find
  <1>5. CASE WalkChain(w)
    <2>0. /\ at[w] = "chain" /\ picked[w] = <<>> /\ found[w] \in FoundRecord
          /\ UNCHANGED <<found, picked>>
          /\ Truthful(found[w].m) /\ found[w].top \in Tops(found[w].m.config)
          /\ found[w].m.config \in Configs
      BY <1>5, ManifestShape DEF WalkChain, Move, PushOk, Early, TruePush, FoundRecord
    <2>1. CASE /\ \A id \in LayerIds : Below(id, found[w].top) => layer[id] # None
               /\ Move(w, "chain", "asis")
               /\ chain' = [chain EXCEPT ![w] = ChainTo(found[w].top)]
      <3>1. at'[w] = "asis" /\ chain'[w] = ChainTo(found[w].top)
        BY <1>0, <2>1 DEF Move, SourceTypes
      <3>2. \A i \in 1..Len(chain'[w]) :
              /\ chain'[w][i].diff = DiffIdsOf[found[w].m.config][i]
              /\ chain'[w][i].blob # None => Content[chain'[w][i].blob] = DiffIdsOf[found[w].m.config][i]
        BY <2>0, <2>1, <3>1, ChainTrue DEF StorageInv, TrueStorage
      <3>3. \A i \in 1..Len(picked'[w]) : FALSE
        BY <2>0
      <3> QED
        BY <2>0, <3>1, <3>2, <3>3 DEF TruePush, Choosing, Serving, Truthful, Tops, Top, TocTop
    <2> QED
      BY <1>3, <1>5, <2>1 DEF WalkChain
  <1>6. CASE PickAsIs(w) \/ PickByDiffId(w) \/ Export(w)
    <2>0. /\ at[w] \in Choosing /\ Len(picked[w]) < Len(chain[w])
          /\ UNCHANGED <<ref, found, chain, served>>
      BY <1>6 DEF PickAsIs, PickByDiffId, Export, LayersLeft, Choosing, PushOk, Chose
    <2>1. ASSUME NEW from, NEW b, Pick(w, from, b), LayerOf(found[w].m.config, Len(picked[w]) + 1, b)
          PROVE  TruePush(w)'
      BY <2>0, <2>1, PickTrue
    <2>2. ASSUME NEW to \in Choosing, NEW from, Move(w, from, to), UNCHANGED <<picked, asIs>>
          PROVE  TruePush(w)'
      <3>1. /\ at'[w] \in Choosing /\ found'[w] = found[w] /\ chain'[w] = chain[w]
            /\ picked'[w] = picked[w]
        BY <1>0, <2>0, <2>2 DEF Move
      <3> QED
        BY <2>0, <3>1 DEF TruePush, Choosing, Serving, Truthful, LayerOf, Tops, Top, TocTop
    <2>3. /\ \A b \in AsIsBlobs(w) \cup Recorded(Link(w).diff) :
               LayerOf(found[w].m.config, Len(picked[w]) + 1, b)
          /\ LayerOf(found[w].m.config, Len(picked[w]) + 1, Zstd[Link(w).diff])
      BY <2>0, ChoiceTrue
    <2>4. "bydiff" \in Choosing /\ "export" \in Choosing
      BY DEF Choosing
    <2>5. CASE PickAsIs(w)
      BY <2>1, <2>2, <2>3, <2>4, <2>5 DEF PickAsIs
    <2>6. CASE PickByDiffId(w)
      BY <2>1, <2>2, <2>3, <2>4, <2>6 DEF PickByDiffId
    <2>7. CASE Export(w)
      BY <1>3, <2>1, <2>3, <2>7 DEF Export
    <2> QED
      BY <1>6, <2>5, <2>6, <2>7
  <1>7. CASE PutManifest(w)
    <2> DEFINE c == found[w].m.config
               m == IF asIs[w] THEN Chosen(w) ELSE [config |-> c, layers |-> picked[w]]
    <2>1. /\ at[w] = "asis" /\ at'[w] = "upload" /\ served'[w] = m
      BY <1>0, <1>7 DEF PutManifest, Move, SourceTypes, Chosen
    <2>2. /\ found[w] \in FoundRecord /\ Chose(w) /\ picked[w] \in Seq(Layers)
          /\ chain[w] \in Seq(ChainLink)
      BY <2>1 DEF PushOk, Choosing, SourceTypes
    <2>3. found[w].m \in Manifest /\ Truthful(found[w].m)
      BY <2>1, <2>2 DEF FoundRecord, TruePush, Choosing
    <2>4. Len(picked[w]) = Len(Chosen(w).layers) /\ DOMAIN picked[w] = 1..Len(picked[w])
      BY <1>7, <2>2 DEF PutManifest, LayersLeft, Chose, Chosen
    <2>5. /\ DOMAIN m.layers = 1..Len(picked[w]) /\ Len(m.layers) = Len(picked[w]) /\ m.config = c
          /\ \A i \in 1..Len(picked[w]) : m.layers[i] = picked[w][i]
      <3>1. CASE asIs[w]
        BY <2>2, <2>3, <2>4, <3>1, ManifestShape DEF Chose, Chosen
      <3>2. CASE ~asIs[w]
        BY <2>4, <3>2
      <3> QED
        BY <3>1, <3>2
    <2> HIDE DEF m
    <2>6. \A i \in 1..Len(picked[w]) : LayerOf(c, i, picked[w][i])
      BY <2>1 DEF TruePush, Choosing
    <2>7. Len(picked[w]) = Len(DiffIdsOf[c])
      BY <2>3, <2>4 DEF Truthful, Chosen
    <2>8. Decompresses(m)
      BY <2>5, <2>6, <2>7 DEF Decompresses, LayerOf
    <2> QED
      BY <2>1, <2>8 DEF TruePush, Choosing, Serving, Decompresses
  <1>8. CASE SourceUpload(w) \/ SourceMarkers(w) \/ SourceLeaf(w)
    <2>1. /\ at[w] \in Serving /\ served' = served
          /\ at'[w] \in {"upload", "markers", "publish", "done", "failed"}
      BY <1>0, <1>8 DEF SourceUpload, SourceMarkers, SourceLeaf, Move, Serving
    <2>2. Decompresses(served[w])
      BY <2>1 DEF TruePush
    <2> QED
      BY <2>1, <2>2 DEF TruePush, Choosing, Serving, Decompresses
  <1> QED
    BY <1>2, <1>4, <1>5, <1>6, <1>7, <1>8 DEF SourceStep

LEMMA TrueStart ==
  ASSUME Init
  PROVE  TrueInv
  <1>1. TrueStore
    BY DEF Init, MachineInit, TrueStore
  <1>2. TrueStorage
    BY DEF Init, MachineInit, TrueStorage, TrueLayers, TrueRecords
  <1>3. TruePlans
    BY DEF Init, PullInit, TruePlans
  <1>4. TruePushers
    BY DEF Init, SourceInit, TruePushers, TruePush, Choosing, Serving
  <1> QED
    BY <1>1, <1>2, <1>3, <1>4 DEF TrueInv

LEMMA TrueSame ==
  /\ TrueStore /\ UNCHANGED <<cache, catalogVars>> => TrueStore'
  /\ TrueStorage /\ UNCHANGED storageVars => TrueStorage'
  /\ TruePlans /\ plan' = plan => TruePlans'
  /\ TruePushers /\ UNCHANGED sourceLocals => TruePushers'
  <1>1. TrueStore /\ UNCHANGED <<cache, catalogVars>> => TrueStore'
    BY DEF TrueStore, catalogVars, Sound, Decompresses
  <1>2. TrueStorage /\ UNCHANGED storageVars => TrueStorage'
    BY DEF TrueStorage, TrueLayers, TrueRecords, storageVars, DiffOf, Truthful
  <1>3. ASSUME TruePlans, plan' = plan PROVE TruePlans'
    <2> SUFFICES \A v \in Pullers : \A i \in 1..Len(plan'[v]) : Decompresses(plan'[v][i].m)
      BY DEF TruePlans, Decompresses
    <2> QED
      BY <1>3 DEF TruePlans
  <1>4. TruePushers /\ UNCHANGED sourceLocals => TruePushers'
    BY TruePushStays DEF TruePushers, sourceLocals
  <1> QED
    BY <1>1, <1>2, <1>3, <1>4

LEMMA TrueNext ==
  ASSUME Honest, IInv, TrueInv, [Next]_vars
  PROVE  TrueInv'
  <1>0. /\ StorageInv /\ StorageTypes /\ CatalogTypes /\ PullTypes /\ PlacesOk /\ SourceTypes /\ PushersOk
        /\ TrueStore /\ TrueStorage /\ TruePlans /\ TruePushers
    BY DEF IInv, StorageInv, PullerInv, PusherInv, TrueInv
  <1>1. ASSUME NEW w \in Pullers, BeginPull(w) \/ PullStep(w) \/ PullFault(w) \/ Leave(w),
               UNCHANGED sourceLocals
        PROVE  TrueInv'
    <2>1. TrueStore'
      BY <1>0, <1>1, PullTruly, TrueStoreKept
    <2>2. TrueStorage' /\ TruePlans' /\ TruePushers'
      BY <1>0, <1>1, PullTrueStorage, PullTruePlans, TrueSame
    <2> QED
      BY <2>1, <2>2 DEF TrueInv
  <1>2. ASSUME NEW w \in Pushers, BeginSource(w) \/ SourceStep(w) \/ SourceFail(w) \/ SourceLeave(w),
               UNCHANGED pullLocals
        PROVE  TrueInv'
    <2>1. PushOk(w) /\ TruePush(w)
      BY <1>0 DEF PushersOk, TruePushers
    <2>2. TruePush(w)'
      BY <1>0, <1>2, <2>1, PushTrue
    <2>3. OtherPushers(w) /\ UNCHANGED storageVars
      BY <1>2, PushNextKeeps
    <2>4. TruePushers'
      <3> SUFFICES ASSUME NEW v \in Pushers PROVE TruePush(v)'
        BY DEF TruePushers
      <3>1. CASE v = w
        BY <2>2, <3>1
      <3>2. CASE v # w
        BY <1>0, <2>3, <3>2, TruePushStays DEF TruePushers, OtherPushers, SameSource
      <3> QED
        BY <3>1, <3>2
    <2>5. TrueStore'
      BY <1>0, <1>2, <2>1, <2>2, PushTruly, TrueStoreKept
    <2>6. TrueStorage' /\ TruePlans'
      BY <1>0, <1>2, <2>3, TrueSame DEF pullLocals
    <2> QED
      BY <2>4, <2>5, <2>6 DEF TrueInv
  <1>3. CASE Podman
    <2>1. UNCHANGED <<cache, catalogVars, plan, sourceLocals>>
      BY <1>3 DEF Podman, PodmanAdds, PodmanDisturbs, PodmanLayer, PodmanImage, PodmanTag,
         PodmanRemove, PodmanPrune, pullLocals
    <2> QED
      BY <1>0, <1>3, <2>1, PodmanTrueStorage, TrueSame DEF TrueInv
  <1>4. CASE UNCHANGED vars
    BY <1>0, <1>4, TrueSame DEF TrueInv, vars, machineVars, pullLocals
  <1> QED
    BY <1>1, <1>2, <1>3, <1>4 DEF Next, PullNext, SourceNext

LEMMA TrueInvariance ==
  ASSUME Honest
  PROVE  Spec => []TrueInv
  <1>1. Init => TrueInv
    BY TrueStart
  <1>2. IInv /\ TrueInv /\ [Next]_vars => TrueInv'
    BY TrueNext
  <1> QED
    BY <1>1, <1>2, Invariance, PTL DEF Spec

\* Whichever blob a push takes for a layer - listed, original, recorded or made - it decompresses to
\* what the config says, if the images of the registry and of podman do.
THEOREM ServedIsTrue ==
  ASSUME Honest
  PROVE  Spec => []ServedDecompresses
  <1>1. TrueInv => ServedDecompresses
    BY DEF TrueInv, TruePushers, TruePush, ServedDecompresses
  <1> QED
    BY <1>1, TrueInvariance, PTL

\* So does every leaf: what is pushed, recompressed or not, pulls back to the same image.
THEOREM LeavesAreTrue ==
  ASSUME Honest
  PROVE  Spec => []LeavesDecompress
  <1>1. TrueInv => LeavesDecompress
    BY DEF TrueInv, TrueStore, LeavesDecompress
  <1> QED
    BY <1>1, TrueInvariance, PTL

\* And the layers under a record, those that a pull found and took for its own among them, hold what
\* the config says.
THEOREM RecordsAreTrue ==
  ASSUME Honest
  PROVE  Spec => []RecordsAgree
  <1>1. IInv /\ TrueInv => RecordsAgree
    BY DEF IInv, StorageInv, RecordsWhole, TrueInv, TrueStorage, TrueLayers, RecordsAgree
  <1> QED
    BY <1>1, Invariance, TrueInvariance, PTL

-----------------------------------------------------------------------------
(* Calm pulls.                                                              *)
(*                                                                          *)
(* As long as no call fails and podman takes nothing away, a pull finds what *)
(* it has seen: layers and records stay (Lasts), since other pulls only add  *)
(* to them, and cache and store only grow.  So a calm pull knows which blobs *)
(* of its entries it can have (Held), and which layers are there (AtWork).   *)
(* All this for a set S of references, which are sure to be resolved to what *)
(* is there: those without a digest, or all of them where stored manifests   *)
(* have their blobs.                                                         *)

\* What Resolve by digest trusts: "the write order (layers, config, manifest blob)".
WriteOrder == \A m \in Manifest \cap stored : Needs(m) \subseteq stored

Unpinned == {r \in Refs : Pin[r] = None}
SureOf(S) == S \subseteq Refs /\ (S \subseteq Unpinned \/ WriteOrder)

\* The first n layers of config c are there.
Layered(c, n) == \A j \in 1..n : Present(ChainId(c, j))

\* What is known of an entry since it was planned.
Held(S, e) ==
  /\ e.ref \in S => Needs(e.m) \subseteq IF e.fallback THEN cache ELSE stored
  /\ e.from <= Len(e.m.layers) + 1
  /\ Layered(e.m.config, e.from - 1)

AtWork(w) ==
  LET m == Img(w)
  IN  /\ stage[w] = "fetch" =>
           /\ k[w] <= Len(m.layers) + 1
           /\ \A j \in Current(w).from..(k[w] - 1) : m.layers[j] \in cache
      /\ stage[w] \in {"look"} \cup LayerStages =>
           /\ k[w] <= Len(m.layers) + 1
           /\ \A j \in Current(w).from..Len(m.layers) : m.layers[j] \in cache
           /\ Layered(m.config, k[w] - 1)
      /\ stage[w] \in {"exists", "check"} => Present(Id(w))
      /\ stage[w] = "create" => Layered(m.config, Len(m.layers))
      /\ stage[w] \in {"reuse", "data", "name"} => image[m.config] # None

CalmPull(S, w) ==
  /\ stage[w] = "idle" => plan[w] = <<>> /\ unplanned[w] = {}
  /\ calm[w] =>
       /\ \A r \in unplanned[w] : Registry[r] = None \/ r \notin S
       /\ \A i \in 1..Len(plan[w]) : Held(S, plan[w][i])
       /\ \A i \in 1..Len(answer[w]) : plan[w][i].ref \in S => Imported(w, i)
       /\ stage[w] \in EntryStages => AtWork(w)

LeavesHeld == \A r \in Refs : leaf[r] # None => Needs(leaf[r]) \subseteq stored

CalmInv(S) == LeavesHeld /\ \A w \in Pullers : CalmPull(S, w)

\* Nothing is taken away.
Lasts ==
  /\ Grows
  /\ \A id \in LayerIds : layer[id] # None => layer'[id] # None
  /\ \A c \in Configs : image[c] # None => image'[c] # None

LEMMA LayeredLasts ==
  ASSUME Lasts, NEW c, NEW n, Layered(c, n)
  PROVE  \A j \in 1..n : ChainId(c, j) \in LayerIds => layer'[ChainId(c, j)] # None
  BY DEF Lasts, Layered, Present

LEMMA HeldLasts ==
  ASSUME NEW S, Lasts, NEW e \in Entry, Held(S, e)
  PROVE  /\ e.ref \in S => Needs(e.m) \subseteq IF e.fallback THEN cache' ELSE stored'
         /\ e.from <= Len(e.m.layers) + 1
         /\ \A j \in 1..(e.from - 1) :
              ChainId(e.m.config, j) \in LayerIds => layer'[ChainId(e.m.config, j)] # None
  <1>1. Layered(e.m.config, e.from - 1)
    BY DEF Held
  <1> QED
    BY <1>1, LayeredLasts DEF Held, Lasts, Grows

\* What is held of a plan stays so, and an answer that is right stays right.
LEMMA PlanLasts ==
  ASSUME NEW S, PullTypes, PlacesOk, NEW w \in Pullers, Lasts, plan'[w] = plan[w],
         \A i \in 1..Len(plan[w]) : Held(S, plan[w][i])
  PROVE  (\A i \in 1..Len(plan[w]) : Held(S, plan[w][i]))'
  <1> SUFFICES ASSUME NEW i \in 1..Len(plan[w]) PROVE Held(S, plan[w][i])'
    OBVIOUS
  <1>0. plan'[w][i] = plan[w][i]
    OBVIOUS
  <1>1. plan[w][i] \in Entry
    BY DEF PullTypes
  <1>2. /\ plan[w][i].ref \in S =>
             Needs(plan[w][i].m) \subseteq IF plan[w][i].fallback THEN cache' ELSE stored'
        /\ plan[w][i].from <= Len(plan[w][i].m.layers) + 1
        /\ \A j \in 1..(plan[w][i].from - 1) :
             ChainId(plan[w][i].m.config, j) \in LayerIds =>
               layer'[ChainId(plan[w][i].m.config, j)] # None
    BY <1>1, HeldLasts
  <1> QED
    BY <1>0, <1>2 DEF Held, Layered, Present, ChainId, Needs, Listed

LEMMA AnswerLasts ==
  ASSUME PullTypes, PlacesOk, NEW w \in Pullers, Grows, plan'[w] = plan[w],
         NEW i \in 1..Len(answer[w]), answer'[w][i] = answer[w][i], Imported(w, i)
  PROVE  Imported(w, i)'
  <1>1. plan[w] \in Seq(Entry) /\ answer[w] \in Seq(Answers) /\ Len(answer[w]) <= Len(plan[w])
    BY DEF PullTypes, PlacesOk, PlaceOk
  <1>2. i \in 1..Len(plan[w])
    BY <1>1
  <1>3. plan[w][i] \in Entry
    BY <1>1, <1>2
  <1>4. plan[w][i].ref \in Refs
    BY <1>3 DEF Entry
  <1> QED
    BY <1>4 DEF Imported, Grows

\* The layer at k, and the one below it.
LEMMA LayerIdShape ==
  ASSUME NEW c \in Configs, NEW n \in 1..Len(DiffIdsOf[c])
  PROVE  /\ ChainId(c, n) \in LayerIds /\ DiffOf(ChainId(c, n)) = DiffIdsOf[c][n]
         /\ Parent(ChainId(c, n)) = ChainId(c, n - 1)
         /\ ChainId(c, 0) \notin LayerIds
  <1>1. DiffIdsOf[c] \in Seq(DiffIds) /\ Len(DiffIdsOf[c]) \in Nat /\ n \in Nat /\ n >= 1
    BY CStorageAssumption
  <1>2. DiffIdsOf[c] \in Ids /\ n \in 0..Len(DiffIdsOf[c]) /\ n - 1 \in 0..n /\ n # 0
    BY <1>1 DEF Ids
  <1> DEFINE id == SubSeq(DiffIdsOf[c], 1, n)
  <1>3. id \in Ids /\ Len(id) = n /\ \A i \in 1..n : id[i] = DiffIdsOf[c][i]
    BY <1>2, FirstOf
  <1>4. id \in LayerIds \cup Bases
    BY <1>2, FirstOfTop DEF Tops, Top
  <1>5. SubSeq(id, 1, n - 1) = SubSeq(DiffIdsOf[c], 1, n - 1)
    BY <1>2, FirstOfFirst
  <1>6. id = ChainId(c, n) /\ SubSeq(DiffIdsOf[c], 1, n - 1) = ChainId(c, n - 1)
    BY DEF ChainId
  <1> HIDE DEF id
  <1>7. id # <<>> /\ id # <<Toc>>
    <2>1. id[1] \in DiffIds /\ Len(id) >= 1
      BY <1>1, <1>3
    <2>2. <<Toc>>[1] = Toc /\ Len(<<>>) = 0 /\ Toc \notin DiffIds
      BY CStorageAssumption
    <2> QED
      BY <2>1, <2>2
  <1>8. ChainId(c, 0) = <<>>
    BY <1>1 DEF ChainId
  <1> QED
    BY <1>1, <1>3, <1>4, <1>5, <1>6, <1>7, <1>8 DEF Bases, Parent, DiffOf, LayerIds

\* The whole chain.
LEMMA TopThere ==
  ASSUME NEW c \in Configs, Layered(c, Len(DiffIdsOf[c]))
  PROVE  Present(Top(c))
  <1>1. DiffIdsOf[c] \in Seq(DiffIds) /\ Len(DiffIdsOf[c]) \in Nat
    BY CStorageAssumption
  <1>2. CASE Len(DiffIdsOf[c]) = 0
    <2>1. Top(c) = <<>> /\ <<>> \notin LayerIds
      BY <1>1, <1>2 DEF Top, LayerIds, Bases
    <2> QED
      BY <2>1 DEF Present
  <1>3. CASE Len(DiffIdsOf[c]) > 0
    <2>1. ChainId(c, Len(DiffIdsOf[c])) = Top(c)
      BY <1>1 DEF ChainId, Top
    <2> QED
      BY <1>1, <1>3, <2>1 DEF Layered
  <1> QED
    BY <1>1, <1>2, <1>3

\* w's locals as they were.
LEMMA CalmStays ==
  ASSUME NEW S, PullTypes, PlacesOk, NEW w \in Pullers, CalmPull(S, w), calm'[w] => calm[w] /\ Lasts,
         stage'[w] = stage[w], unplanned'[w] = unplanned[w], plan'[w] = plan[w], k'[w] = k[w],
         answer'[w] = answer[w]
  PROVE  CalmPull(S, w)'
  <1>1. stage'[w] = "idle" => plan'[w] = <<>> /\ unplanned'[w] = {}
    BY DEF CalmPull
  <1> SUFFICES ASSUME calm'[w]
               PROVE  /\ \A r \in unplanned'[w] : Registry[r] = None \/ r \notin S
                      /\ (\A i \in 1..Len(plan[w]) : Held(S, plan[w][i]))'
                      /\ \A i \in 1..Len(answer'[w]) : plan'[w][i].ref \in S => Imported(w, i)'
                      /\ stage'[w] \in EntryStages => AtWork(w)'
    BY <1>1 DEF CalmPull
  <1>2. calm[w] /\ Lasts /\ Grows
    BY DEF Lasts
  <1>3. (\A i \in 1..Len(plan[w]) : Held(S, plan[w][i]))'
    BY <1>2, PlanLasts DEF CalmPull
  <1>4. \A i \in 1..Len(answer'[w]) : plan'[w][i].ref \in S => Imported(w, i)'
    BY <1>2, AnswerLasts DEF CalmPull
  <1>5. ASSUME stage[w] \in EntryStages PROVE AtWork(w)'
    <2>1. /\ AtWork(w) /\ Img(w) \in Manifest /\ Img(w).config \in Configs
          /\ Img(w)' = Img(w) /\ Current(w)' = Current(w) /\ Id(w)' = Id(w)
      BY <1>2, <1>5, AtEntry DEF CalmPull, PlacesOk, PlaceOk, Img, Current, Id, ChainId, Config
    <2> DEFINE c == Img(w).config
    <2>2. /\ Layered(c, k[w] - 1) => \A j \in 1..(k[w] - 1) : Present(ChainId(c, j))'
          /\ Layered(c, Len(Img(w).layers)) => \A j \in 1..Len(Img(w).layers) : Present(ChainId(c, j))'
          /\ Present(Id(w)) => Present(Id(w))'
      BY <1>2, <2>1 DEF Layered, Present, Lasts, ChainId
    <2>3. cache \subseteq cache' /\ (image[c] # None => image'[c] # None)
      BY <1>2, <2>1 DEF Lasts, Grows
    <2> QED
      BY <2>1, <2>2, <2>3 DEF AtWork, Layered, ChainId, LayerStages
  <1> QED
    BY <1>2, <1>3, <1>4, <1>5 DEF CalmPull

\* w goes on with its entry, and knows what its next stage needs.
LEMMA CalmGoes ==
  ASSUME NEW S, PullTypes, PlacesOk, NEW w \in Pullers, CalmPull(S, w), Lasts,
         NEW to, NEW n, Goes(w, to, n), to # "idle",
         calm'[w] /\ to \in EntryStages => AtWork(w)'
  PROVE  CalmPull(S, w)'
  <1>1. /\ stage'[w] = to /\ plan' = plan /\ answer' = answer /\ unplanned' = unplanned
        /\ calm'[w] => calm[w]
    BY DEF Goes, PullTypes
  <1>2. calm'[w] => (\A i \in 1..Len(plan[w]) : Held(S, plan[w][i]))'
    BY <1>1, PlanLasts DEF CalmPull
  <1>3. calm'[w] => \A i \in 1..Len(answer'[w]) : plan'[w][i].ref \in S => Imported(w, i)'
    BY <1>1, AnswerLasts DEF CalmPull, Lasts
  <1> QED
    BY <1>1, <1>2, <1>3 DEF CalmPull

\* The entry ends as a calm pull's may.
LEMMA CalmEnds ==
  ASSUME NEW S, PullTypes, PlacesOk, NEW w \in Pullers, CalmPull(S, w), Lasts,
         NEW r \in Answers, Ends(w, r), Len(answer[w]) < Len(plan[w]),
         calm'[w] /\ Current(w).ref \in S =>
           \/ r \in {"ok", "cancelled"}
           \/ r = "conflict" /\ Config(w) \in Tocs
           \/ r = "conflict" /\ leaf'[Current(w).ref] \notin {None, Img(w)}
  PROVE  CalmPull(S, w)'
  <1> DEFINE n == Len(answer[w])
  <1>1. /\ stage'[w] = "entry" /\ plan' = plan /\ answer'[w] = Append(answer[w], r)
        /\ unplanned' = unplanned
        /\ calm'[w] => calm[w]
        /\ answer[w] \in Seq(Answers)
    BY DEF Ends, PullTypes
  <1>2. /\ Len(answer'[w]) = n + 1 /\ n \in Nat /\ answer'[w][n + 1] = r
        /\ \A i \in 1..n : answer'[w][i] = answer[w][i]
    BY <1>1
  <1>3. calm'[w] => (\A i \in 1..Len(plan[w]) : Held(S, plan[w][i]))'
    BY <1>1, PlanLasts DEF CalmPull
  <1>4. ASSUME calm'[w], NEW i \in 1..(n + 1), plan[w][i].ref \in S PROVE Imported(w, i)'
    <2>1. CASE i = n + 1
      BY <1>1, <1>2, <1>4, <2>1 DEF Imported, Current, Config, Img
    <2>2. CASE i \in 1..n
      BY <1>1, <1>2, <1>4, <2>2, AnswerLasts DEF CalmPull, Lasts
    <2> QED
      BY <1>2, <2>1, <2>2
  <1>5. "entry" \notin EntryStages
    BY DEF EntryStages
  <1> QED
    BY <1>1, <1>2, <1>3, <1>4, <1>5 DEF CalmPull

\* What w has to know to go on at item n of the next stage.
ThereThen(c, n) == \A j \in 1..n : ChainId(c, j) \in LayerIds => layer'[ChainId(c, j)] # None

Knows(w, to, n) ==
  LET m == Img(w)
  IN  /\ to = "fetch" =>
           /\ n <= Len(m.layers) + 1
           /\ \A j \in Current(w).from..(n - 1) : m.layers[j] \in cache'
      /\ to \in {"look"} \cup LayerStages =>
           /\ n <= Len(m.layers) + 1
           /\ \A j \in Current(w).from..Len(m.layers) : m.layers[j] \in cache'
           /\ ThereThen(m.config, n - 1)
      /\ to \in {"exists", "check"} =>
           (ChainId(m.config, n) \in LayerIds => layer'[ChainId(m.config, n)] # None)
      /\ to = "create" => ThereThen(m.config, Len(m.layers))
      /\ to \in {"reuse", "data", "name"} => image'[m.config] # None

LEMMA CalmMoves ==
  ASSUME NEW S, PullTypes, PlacesOk, NEW w \in Pullers, CalmPull(S, w), Lasts,
         NEW to, NEW n, Goes(w, to, n), to # "idle",
         calm'[w] /\ calm[w] /\ to \in EntryStages => Knows(w, to, n)
  PROVE  CalmPull(S, w)'
  <1>1. /\ stage'[w] = to /\ k'[w] = n /\ plan' = plan /\ answer' = answer
        /\ calm'[w] => calm[w]
    BY DEF Goes, PullTypes
  <1>2. Img(w)' = Img(w) /\ Current(w)' = Current(w)
    BY <1>1 DEF Img, Current
  <1>3. Config(w)' = Img(w).config /\ Id(w)' = ChainId(Img(w).config, n)
    BY <1>1, <1>2 DEF Config, Id, ChainId
  <1>4. ASSUME Knows(w, to, n) PROVE AtWork(w)'
    BY <1>1, <1>2, <1>3, <1>4 DEF Knows, ThereThen, AtWork, Layered, Present, ChainId, LayerStages
  <1> QED
    BY <1>1, <1>4, CalmGoes

\* The entry of a calm pull, and what it knows of it.
LEMMA CalmEntry ==
  ASSUME NEW S, PullTypes, PlacesOk, TruePlans, NEW w \in Pullers, CalmPull(S, w), Lasts,
         Len(answer[w]) < Len(plan[w])
  PROVE  /\ Img(w) \in Manifest /\ Config(w) \in Configs /\ Img(w).config = Config(w)
         /\ Current(w).ref \in Refs /\ Current(w).m = Img(w)
         /\ Len(Img(w).layers) \in Nat /\ DOMAIN Img(w).layers = 1..Len(Img(w).layers)
         /\ Len(DiffIdsOf[Config(w)]) = Len(Img(w).layers)
         /\ Current(w).from \in Nat /\ Current(w).from >= 1 /\ k[w] \in Nat
         /\ stage[w] \in {"fetch", "look"} \cup LayerStages => k[w] >= 1
         /\ Decompresses(Img(w))
         /\ calm[w] => Held(S, Current(w)) /\ (stage[w] \in EntryStages => AtWork(w))
  <1>1. /\ Img(w) \in Manifest /\ Config(w) \in Configs /\ Current(w).ref \in Refs
        /\ Current(w).from \in Nat /\ Current(w).from >= 1
        /\ Len(DiffIdsOf[Config(w)]) = Len(Img(w).layers)
        /\ Len(answer[w]) + 1 \in 1..Len(plan[w])
    BY AtEntry DEF PlacesOk
  <1>2. Decompresses(Img(w)) /\ (calm[w] => Held(S, Current(w)))
    BY <1>1 DEF TruePlans, Img, Current, CalmPull
  <1> QED
    BY <1>1, <1>2, ManifestShape DEF Config, Img, CalmPull, PullTypes, PlacesOk, PlaceOk

\* keepInStore, and the fetch of the missing layers.
LEMMA CalmFetches ==
  ASSUME NEW S, StorageInv, CatalogTypes, PullTypes, PlacesOk, TruePlans,
         NEW w \in Pullers, CalmPull(S, w), Lasts,
         \/ BeginEntry(w) \/ SkipEntry(w) \/ EndPull(w) \/ KeepBlob(w) \/ KeepMarkers(w)
         \/ KeepLeaf(w) \/ Fetch(w)
  PROVE  CalmPull(S, w)'
  <1> DEFINE m == Img(w)
             l == Current(w).from
  <1>a. /\ stage[w] \in EntryStages => Len(answer[w]) < Len(plan[w])
        /\ k[w] \in Nat
        /\ cache \subseteq cache'
        /\ {"ok", "error", "conflict", "cancelled"} \subseteq Answers
    BY DEF PlacesOk, PlaceOk, PullTypes, Lasts, Grows, Answers
  <1>b. Len(answer[w]) < Len(plan[w]) =>
          /\ m \in Manifest /\ m.config = Config(w) /\ Len(m.layers) \in Nat /\ l \in Nat /\ l >= 1
          /\ Current(w).ref \in Refs /\ Current(w).m = m
          /\ DOMAIN m.layers = 1..Len(m.layers)
          /\ stage[w] = "fetch" => k[w] >= 1
          /\ calm[w] => Held(S, Current(w)) /\ (stage[w] \in EntryStages => AtWork(w))
    BY CalmEntry
  <1>c. ASSUME NEW from, NEW to, NEW n, (Step(w, from, to) /\ n = k[w]) \/ Loop(w, from, to, n),
               to # "idle", calm[w] /\ to \in EntryStages => Knows(w, to, n)
        PROVE  CalmPull(S, w)'
    BY <1>c, StepGoes, LoopGoes, CalmMoves
  <1>d. ASSUME NEW r \in Answers, NEW from, Conclude(w, from, r), Len(answer[w]) < Len(plan[w]),
               calm[w] /\ Current(w).ref \in S =>
                 \/ r \in {"ok", "cancelled"}
                 \/ r = "conflict" /\ leaf'[Current(w).ref] \notin {None, Img(w)}
        PROVE  CalmPull(S, w)'
    <2>1. Ends(w, r) /\ (calm'[w] => calm[w])
      BY <1>d, ConcludeEnds DEF Conclude
    <2> QED
      BY <1>d, <2>1, CalmEnds
  <1> USE DEF EntryStages, LayerStages
  <1>1. CASE BeginEntry(w)
    <2>1. Len(answer[w]) < Len(plan[w])
      BY <1>1 DEF BeginEntry, Left
    <2>2. Knows(w, "keep", k[w])
      BY DEF Knows
    <2>3. calm[w] => Knows(w, "fetch", l)
      BY <1>b, <2>1 DEF Knows, Held
    <2> QED
      BY <1>1, <1>c, <2>2, <2>3 DEF BeginEntry
  <1>2. CASE SkipEntry(w)
    BY <1>2, <1>a, <1>d DEF SkipEntry, Left
  <1>3. CASE EndPull(w)
    BY <1>3, <1>c DEF EndPull
  <1>4. CASE KeepBlob(w) \/ KeepMarkers(w)
    <2>1. \A to \in {"keep", "markers", "publish"} : Knows(w, to, k[w])
      BY DEF Knows
    <2> QED
      BY <1>4, <1>c, <2>1 DEF KeepBlob, KeepMarkers
  <1>5. CASE KeepLeaf(w)
    <2>1. stage[w] = "publish" /\ CommitLeaf(Current(w).ref, m) /\ Len(answer[w]) < Len(plan[w])
      BY <1>5, <1>a DEF KeepLeaf
    <2>2. calm[w] => Knows(w, "fetch", l)
      BY <1>b, <2>1 DEF Knows, Held
    <2>3. leaf'[Current(w).ref] # None
      BY <1>b, <2>1, ManifestShape DEF CommitLeaf, CatalogTypes
    <2> QED
      BY <1>5, <1>a, <1>c, <1>d, <2>1, <2>2, <2>3 DEF KeepLeaf
  <1>6. CASE Fetch(w)
    <2>1. stage[w] = "fetch" /\ Len(answer[w]) < Len(plan[w])
      BY <1>6, <1>a DEF Fetch
    <2>2. calm[w] => /\ k[w] <= Len(m.layers) + 1
                     /\ \A j \in l..(k[w] - 1) : m.layers[j] \in cache
      BY <1>b, <2>1 DEF AtWork
    <2>3. CASE LayersDone(w) /\ Loop(w, "fetch", "look", 1)
      <3>1. k[w] > Len(m.layers)
        BY <2>3 DEF LayersDone
      <3>2. calm[w] => k[w] - 1 = Len(m.layers)
        <4>1. k[w] \in Nat /\ Len(m.layers) \in Nat
          BY <1>a, <1>b, <2>1
        <4>2. calm[w] => k[w] <= Len(m.layers) + 1
          BY <2>2
        <4> HIDE DEF m
        <4> QED
          BY <3>1, <4>1, <4>2
      <3>3. calm[w] => Knows(w, "look", 1)
        BY <1>a, <1>b, <2>1, <2>2, <3>2 DEF Knows, ThereThen
      <3> QED
        BY <1>c, <2>3, <3>3
    <2>4. CASE ~LayersDone(w) /\ cache' = cache \cup {Blob(w)} /\ Loop(w, "fetch", "fetch", k[w] + 1)
      <3>1. k[w] <= Len(m.layers) /\ m.layers[k[w]] \in cache'
        BY <1>a, <1>b, <2>1, <2>4 DEF LayersDone, Blob
      <3>2. calm[w] => \A j \in l..(k[w] + 1 - 1) : m.layers[j] \in cache'
        <4> SUFFICES ASSUME calm[w], NEW j \in l..k[w] PROVE m.layers[j] \in cache'
          BY <1>a
        <4>1. j = k[w] \/ j \in l..(k[w] - 1)
          BY <1>a, <1>b, <2>1
        <4> QED
          BY <1>a, <2>2, <3>1, <4>1
      <3>3. calm[w] => Knows(w, "fetch", k[w] + 1)
        BY <1>a, <1>b, <2>1, <3>1, <3>2 DEF Knows
      <3> QED
        BY <1>c, <2>4, <3>3
    <2>5. CASE /\ ~LayersDone(w)
               /\ Blob(w) \notin cache /\ (Current(w).fallback \/ Blob(w) \notin stored)
               /\ Conclude(w, "fetch", "error")
      <3>1. Blob(w) \in Needs(m)
        <4>1. k[w] \in 1..Len(m.layers)
          BY <1>a, <1>b, <2>1, <2>5 DEF LayersDone
        <4> QED
          BY <1>b, <2>1, <4>1 DEF Blob, Needs, Listed
      <3>2. ~(calm[w] /\ Current(w).ref \in S)
        BY <1>b, <2>1, <2>5, <3>1 DEF Held
      <3> QED
        BY <1>a, <1>d, <2>1, <2>5, <3>2
    <2> QED
      BY <1>6, <2>3, <2>4, <2>5 DEF Fetch
  <1> QED
    BY <1>1, <1>2, <1>3, <1>4, <1>5, <1>6

\* The layers.  What was there when the plan was made is there; what was not was fetched.
LEMMA CalmLayers ==
  ASSUME NEW S, StorageInv, TrueLayers, PullTypes, PlacesOk, TruePlans,
         NEW w \in Pullers, CalmPull(S, w), Lasts,
         LookLayer(w) \/ PutLayer(w) \/ ReuseLayer(w) \/ CheckLayer(w)
  PROVE  CalmPull(S, w)'
  <1> DEFINE m == Img(w)
             c == Config(w)
             l == Current(w).from
             n == k[w]
  <1>a. /\ stage[w] \in {"look"} \cup LayerStages /\ Len(answer[w]) < Len(plan[w])
        /\ {"ok", "error"} \subseteq Answers
        /\ layer \in [LayerIds -> LayerRecord \cup {None}]
    BY DEF LookLayer, PutLayer, ReuseLayer, CheckLayer, Step, Loop, Conclude, Goto,
       PlacesOk, PlaceOk, EntryStages, LayerStages, Answers, StorageInv, StorageTypes
  <1>b. /\ m \in Manifest /\ m.config = c /\ c \in Configs /\ l \in Nat /\ l >= 1 /\ n \in Nat /\ n >= 1
        /\ Len(m.layers) \in Nat /\ Len(DiffIdsOf[c]) = Len(m.layers) /\ Current(w).m = m
        /\ DOMAIN m.layers = 1..Len(m.layers)
        /\ Decompresses(m)
        /\ calm[w] => Held(S, Current(w)) /\ AtWork(w)
    BY <1>a, CalmEntry DEF EntryStages, LayerStages
  <1>c. ASSUME NEW from, NEW to, NEW i, (Step(w, from, to) /\ i = k[w]) \/ Loop(w, from, to, i),
               to # "idle", calm[w] /\ to \in EntryStages => Knows(w, to, i)
        PROVE  CalmPull(S, w)'
    BY <1>c, StepGoes, LoopGoes, CalmMoves
  <1>d. ASSUME NEW from, Conclude(w, from, "error"), ~(calm[w] /\ Current(w).ref \in S)
        PROVE  CalmPull(S, w)'
    <2>1. Ends(w, "error") /\ (calm'[w] => calm[w])
      BY <1>d, ConcludeEnds DEF Conclude
    <2> QED
      BY <1>a, <1>d, <2>1, CalmEnds
  \* What is known of the layers below this one, and of the blobs.
  <1>e. calm[w] =>
          /\ n <= Len(m.layers) + 1 /\ Layered(c, n - 1)
          /\ \A j \in l..Len(m.layers) : m.layers[j] \in cache
    BY <1>a, <1>b DEF AtWork
  <1>f. calm[w] => /\ \A j \in l..Len(m.layers) : m.layers[j] \in cache'
                   /\ ThereThen(c, n - 1)
    BY <1>e, LayeredLasts DEF ThereThen, Lasts, Grows
  <1>g. ASSUME n <= Len(m.layers)
        PROVE  /\ Id(w) = ChainId(c, n) /\ Id(w) \in LayerIds /\ DiffOf(Id(w)) = DiffIdsOf[c][n]
               /\ Parent(Id(w)) = ChainId(c, n - 1) /\ ChainId(c, 0) \notin LayerIds
    <2>1. n \in 1..Len(DiffIdsOf[c])
      BY <1>b, <1>g
    <2> QED
      BY <1>b, <2>1, LayerIdShape DEF Id
  \* With this layer there, on to the next.
  <1>h. ASSUME calm[w], n <= Len(m.layers), layer'[Id(w)] # None PROVE Knows(w, "look", n + 1)
    <2>1. ThereThen(c, n)
      <3> SUFFICES ASSUME NEW j \in 1..n, ChainId(c, j) \in LayerIds PROVE layer'[ChainId(c, j)] # None
        BY DEF ThereThen
      <3>1. j = n \/ j \in 1..(n - 1)
        BY <1>b
      <3> QED
        BY <1>f, <1>g, <1>h, <3>1 DEF ThereThen
    <2>2. n + 1 - 1 = n /\ n + 1 <= Len(m.layers) + 1
      BY <1>b, <1>h
    <2> QED
      BY <1>b, <1>f, <1>h, <2>1, <2>2 DEF Knows, LayerStages
  <1> HIDE DEF n
  <1> USE DEF EntryStages, LayerStages
  <1>1. CASE LookLayer(w)
    <2>1. layer' = layer /\ stage[w] = "look"
      BY <1>1 DEF LookLayer, machineVars, storageVars, Step, Loop, Goto
    <2>2. CASE LayersDone(w) /\ Loop(w, "look", "create", 0)
      <3>1. calm[w] => n - 1 = Len(m.layers)
        BY <1>b, <1>e, <2>2 DEF LayersDone, n
      <3>2. calm[w] => Knows(w, "create", 0)
        BY <1>b, <1>f, <3>1 DEF Knows
      <3> QED
        BY <1>c, <2>2, <3>2
    <2>3. CASE ~LayersDone(w) /\ Present(Id(w)) /\ Loop(w, "look", "look", k[w] + 1)
      <3>1. n <= Len(m.layers)
        BY <1>b, <2>3 DEF LayersDone, n
      <3>2. layer'[Id(w)] # None
        BY <1>g, <2>1, <2>3, <3>1 DEF Present
      <3>3. calm[w] => Knows(w, "look", k[w] + 1)
        BY <1>h, <3>1, <3>2 DEF n
      <3> QED
        BY <1>c, <2>3, <3>3
    <2>4. CASE Step(w, "look", "put")
      <3>1. calm[w] => Knows(w, "put", k[w])
        BY <1>b, <1>e, <1>f DEF Knows, n
      <3> QED
        BY <1>c, <2>4, <3>1
    <2> QED
      BY <1>1, <2>2, <2>3, <2>4 DEF LookLayer
  <1>2. ASSUME stage[w] \in LayerStages PROVE n <= Len(m.layers)
    BY <1>a, <1>2 DEF PlacesOk, PlaceOk, Img, Current, n
  <1>3. CASE PutLayer(w)
    <2>1. stage[w] = "put" /\ n <= Len(m.layers)
      BY <1>2, <1>3 DEF PutLayer
    <2>2. ASSUME NEW to \in {"exists", "check"}, Step(w, "put", to), layer'[Id(w)] # None
          PROVE  CalmPull(S, w)'
      <3>1. calm[w] => Knows(w, to, k[w])
        BY <1>b, <1>e, <1>f, <1>g, <2>1, <2>2 DEF Knows, n
      <3> QED
        BY <1>c, <2>2, <3>1
    <2>3. CASE layer[Id(w)] # None /\ Step(w, "put", "exists") /\ UNCHANGED layer
      BY <2>2, <2>3
    <2>4. CASE /\ NewLayer(Id(w), [diff |-> Content[Blob(w)], blob |-> Blob(w)])
               /\ Step(w, "put", "check")
      <3>1. [diff |-> Content[Blob(w)], blob |-> Blob(w)] \in LayerRecord
        BY <2>1, AtLayer
      <3>2. layer'[Id(w)] # None
        BY <1>a, <1>g, <2>1, <2>4, <3>1, RecordAssumption DEF NewLayer
      <3> QED
        BY <2>2, <2>4, <3>2
    <2>5. CASE /\ layer[Id(w)] = None /\ (Blob(w) \notin cache \/ ~Present(Parent(Id(w))))
               /\ Conclude(w, "put", "error")
      <3>1. ASSUME calm[w] PROVE FALSE
        <4>1. n \notin 1..(l - 1)
          <5>1. Layered(c, l - 1)
            BY <1>b, <3>1 DEF Held
          <5>2. ~Present(ChainId(c, n))
            BY <1>g, <2>1, <2>5 DEF Present
          <5> QED
            BY <5>1, <5>2 DEF Layered
        <4>2. Blob(w) \in cache
          <5>1. n \in l..Len(m.layers)
            BY <1>b, <2>1, <4>1
          <5> QED
            BY <1>e, <3>1, <5>1 DEF Blob, n
        <4>3. Present(Parent(Id(w)))
          <5>1. CASE n = 1
            BY <1>g, <2>1, <5>1 DEF Present
          <5>2. CASE n # 1
            <6>1. n - 1 \in 1..(n - 1)
              BY <1>b, <5>2
            <6> QED
              BY <1>e, <1>g, <2>1, <3>1, <6>1 DEF Layered
          <5> QED
            BY <5>1, <5>2
        <4> QED
          BY <2>5, <4>2, <4>3
      <3> QED
        BY <1>d, <2>5, <3>1
    <2> QED
      BY <1>3, <2>3, <2>4, <2>5 DEF PutLayer
  <1>4. CASE ReuseLayer(w)
    <2>1. stage[w] = "exists" /\ n <= Len(m.layers) /\ layer' = layer
      BY <1>2, <1>4 DEF ReuseLayer, Loop, Conclude, Goto, machineVars, storageVars
    <2>2. calm[w] => /\ Present(Id(w)) /\ layer[Id(w)] # None /\ layer[Id(w)].diff = DiffId(w)
      BY <1>b, <1>g, <2>1 DEF AtWork, Present, TrueLayers, DiffId, n
    <2>3. calm[w] => Knows(w, "look", k[w] + 1)
      BY <1>h, <2>1, <2>2 DEF n
    <2> QED
      BY <1>4, <1>c, <1>d, <2>2, <2>3 DEF ReuseLayer
  <1>5. CASE CheckLayer(w)
    <2>1. stage[w] = "check" /\ n <= Len(m.layers)
      BY <1>2, <1>5 DEF CheckLayer
    <2>2. Content[Blob(w)] = DiffId(w)
      <3>1. n \in DOMAIN m.layers
        BY <1>b, <2>1
      <3> QED
        BY <1>b, <3>1 DEF Decompresses, Blob, DiffId, n
    <2>3. Loop(w, "check", "look", k[w] + 1) /\ UNCHANGED layer
      BY <1>5, <2>2 DEF CheckLayer
    <2>4. calm[w] => layer'[Id(w)] # None
      BY <1>b, <1>g, <2>1, <2>3 DEF AtWork, Present
    <2>5. calm[w] => Knows(w, "look", k[w] + 1)
      BY <1>h, <2>1, <2>4 DEF n
    <2> QED
      BY <1>c, <2>3, <2>5
  <1> QED
    BY <1>1, <1>3, <1>4, <1>5

\* The record.
LEMMA CalmRecord ==
  ASSUME NEW S, StorageInv, StorageInv', PullTypes, PlacesOk, TruePlans,
         NEW w \in Pullers, CalmPull(S, w), Lasts,
         CreateImage(w) \/ ReuseImage(w) \/ SetBigData(w) \/ AddNames(w)
  PROVE  CalmPull(S, w)'
  <1> DEFINE c == Config(w)
  <1>a. /\ stage[w] \in {"create", "reuse", "data", "name"} /\ Len(answer[w]) < Len(plan[w])
        /\ {"ok", "error", "conflict"} \subseteq Answers
    BY DEF CreateImage, ReuseImage, SetBigData, AddNames, Step, Loop, Conclude, Goto,
       PlacesOk, PlaceOk, EntryStages, Answers
  <1>b. /\ Img(w).config = c /\ c \in Configs /\ Len(DiffIdsOf[c]) = Len(Img(w).layers)
        /\ calm[w] => AtWork(w)
    BY <1>a, CalmEntry DEF EntryStages
  <1>c. ASSUME NEW from, NEW to, NEW i, (Step(w, from, to) /\ i = k[w]) \/ Loop(w, from, to, i),
               to # "idle", calm[w] /\ to \in EntryStages => Knows(w, to, i)
        PROVE  CalmPull(S, w)'
    BY <1>c, StepGoes, LoopGoes, CalmMoves
  <1>d. ASSUME NEW r \in Answers, NEW from, Conclude(w, from, r),
               calm[w] => r = "ok" \/ (r = "conflict" /\ c \in Tocs)
        PROVE  CalmPull(S, w)'
    <2>1. Ends(w, r) /\ (calm'[w] => calm[w])
      BY <1>d, ConcludeEnds DEF Conclude
    <2> QED
      BY <1>a, <1>d, <2>1, CalmEnds
  <1>e. ASSUME NEW to \in {"reuse", "data", "name"}, NEW i, image'[c] # None
        PROVE  Knows(w, to, i)
    BY <1>b, <1>e DEF Knows, LayerStages
  <1>f. image[c] # None => image'[c] # None
    BY <1>b DEF Lasts
  <1>g. stage[w] \in {"reuse", "data", "name"} /\ calm[w] => image[c] # None
    BY <1>b DEF AtWork
  <1>1. CASE CreateImage(w)
    <2>1. stage[w] = "create"
      BY <1>1 DEF CreateImage
    <2>2. CASE NewRecord(c, Top(c), Img(w)) /\ Step(w, "create", "name")
      <3>1. image'[c] # None
        <4> DEFINE new == [top |-> Top(c), manifests |-> {Img(w)}, default |-> Img(w)]
        <4>1. image' = [image EXCEPT ![c] = new] /\ image \in [Configs -> ImageRecord \cup {None}]
          BY <2>2 DEF NewRecord, StorageInv, StorageTypes
        <4>2. new \in ImageRecord
          BY <1>a, <1>b, TopIsId, CalmEntry DEF ImageRecord, Tops
        <4> HIDE DEF new
        <4> QED
          BY <1>b, <4>1, <4>2, RecordAssumption
      <3> QED
        BY <1>c, <1>e, <2>2, <3>1
    <2>3. CASE image[c] # None /\ Step(w, "create", "reuse")
      BY <1>c, <1>e, <1>f, <2>3
    <2>4. CASE image[c] = None /\ ~Present(Top(c)) /\ Conclude(w, "create", "error")
      <3>1. ~calm[w]
        BY <1>b, <2>1, <2>4, TopThere DEF AtWork
      <3> QED
        BY <1>a, <1>d, <2>4, <3>1
    <2> QED
      BY <1>1, <2>2, <2>3, <2>4 DEF CreateImage
  <1>2. CASE ReuseImage(w)
    <2>1. stage[w] = "reuse"
      BY <1>2 DEF ReuseImage, Conclude, Loop, Goto
    <2>2. calm[w] => image[c] # None
      BY <1>g, <2>1
    <2>3. image[c] # None /\ image[c].top # Top(c) => c \in Tocs
      BY <1>b DEF StorageInv, RecordsWhole, Tops
    <2>4. calm[w] => Knows(w, "data", 1)
      BY <1>e, <1>f, <2>2
    <2> QED
      BY <1>2, <1>a, <1>c, <1>d, <2>2, <2>3, <2>4 DEF ReuseImage
  <1>3. CASE SetBigData(w)
    <2>1. stage[w] = "data"
      BY <1>3 DEF SetBigData, Conclude, Loop, Goto
    <2>2. calm[w] => image[c] # None
      BY <1>g, <2>1
    <2>3. calm[w] => Knows(w, "data", k[w] + 1) /\ Knows(w, "name", 0)
      BY <1>e, <1>f, <2>2
    <2>4. CASE image[c] = None /\ Conclude(w, "data", "error")
      BY <1>a, <1>d, <2>2, <2>4
    <2>5. CASE Loop(w, "data", "data", k[w] + 1) \/ Loop(w, "data", "name", 0)
      BY <1>c, <2>3, <2>5
    <2> QED
      BY <1>3, <2>4, <2>5 DEF SetBigData
  <1>4. CASE AddNames(w)
    <2>1. stage[w] = "name"
      BY <1>4 DEF AddNames, Conclude
    <2>2. calm[w] => image[c] # None
      BY <1>g, <2>1
    <2> QED
      BY <1>4, <1>a, <1>d, <2>2 DEF AddNames
  <1> QED
    BY <1>1, <1>2, <1>3, <1>4

-----------------------------------------------------------------------------
(* Calm pulls: the plan.                                                    *)

HeldThen(S, e) ==
  /\ e.ref \in S => Needs(e.m) \subseteq IF e.fallback THEN cache' ELSE stored'
  /\ e.from <= Len(e.m.layers) + 1
  /\ ThereThen(e.m.config, e.from - 1)

LEMMA CalmPlanned ==
  ASSUME NEW S, NEW w \in Pullers, stage'[w] \notin {"idle"} \cup EntryStages, answer'[w] = <<>>,
         calm'[w] => /\ \A r \in unplanned'[w] : Registry[r] = None \/ r \notin S
                     /\ \A i \in 1..Len(plan'[w]) : HeldThen(S, plan'[w][i])
  PROVE  CalmPull(S, w)'
  <1>1. ASSUME calm'[w] PROVE (\A i \in 1..Len(plan[w]) : Held(S, plan[w][i]))'
    <2> SUFFICES ASSUME NEW i \in 1..Len(plan'[w]) PROVE Held(S, plan[w][i])'
      OBVIOUS
    <2>1. HeldThen(S, plan'[w][i])
      BY <1>1
    <2> QED
      BY <2>1 DEF HeldThen, ThereThen, Held, Layered, Present, ChainId, Needs, Listed
  <1> QED
    BY <1>1 DEF CalmPull

\* What planEntry finds is there.
LEMMA ResolveHeld ==
  ASSUME NEW S, SureOf(S), Honest, CatalogTypes, TrueStore, LeavesHeld, NEW w \in Pullers, Resolve(w),
         Grows,
         Head(todo[w]) \in Refs
  PROVE  LET r == Head(todo[w])
             fallback == InStore(r) = None
             m == IF fallback THEN Registry[r] ELSE InStore(r)
         IN  \/ /\ m \in Manifest /\ Planned(w, m, fallback)
                /\ r \in S => Needs(m) \subseteq IF fallback THEN cache' ELSE stored'
             \/ NotPlanned(w) /\ (Registry[r] = None \/ r \notin S)
  <1> DEFINE r == Head(todo[w])
             fallback == InStore(r) = None
             m == IF fallback THEN Registry[r] ELSE InStore(r)
  <1>1. m # None => m \in Manifest /\ Decompresses(m)
    BY FoundSound
  <1>2. fallback /\ m # None => Needs(m) \subseteq cache'
    BY DEF Resolve, Download
  <1>3. r \in S /\ ~fallback => m # None /\ Needs(m) \subseteq stored
    <2> SUFFICES ASSUME r \in S, InStore(r) # None
                 PROVE  InStore(r) # None /\ Needs(InStore(r)) \subseteq stored
      OBVIOUS
    <2>1. CASE leaf[r] # None
      BY <2>1 DEF InStore, LeavesHeld
    <2>2. CASE leaf[r] = None
      <3>1. InStore(r) = Pin[r] /\ Pin[r] # None /\ Pin[r] \in stored
        BY <2>2 DEF InStore
      <3>2. Pin[r] \in Manifest /\ WriteOrder
        BY <3>1, RegistryShape DEF SureOf, Unpinned
      <3> QED
        BY <3>1, <3>2 DEF WriteOrder
    <2> QED
      BY <2>1, <2>2
  <1>4. stored \subseteq stored'
    BY DEF Grows
  <1>5. IF m # None /\ Readable(m, IF fallback THEN cache' ELSE stored)
        THEN Planned(w, m, fallback) ELSE NotPlanned(w)
    BY DEF Resolve
  <1>6. ASSUME Registry[r] # None, r \in S
        PROVE  m # None /\ Needs(m) \subseteq IF fallback THEN cache' ELSE stored
    <2>1. fallback => m = Registry[r]
      OBVIOUS
    <2> QED
      BY <1>2, <1>3, <1>6, <2>1
  <1> HIDE DEF m, fallback
  <1>7. ASSUME m # None, Needs(m) \subseteq IF fallback THEN cache' ELSE stored
        PROVE  Readable(m, IF fallback THEN cache' ELSE stored)
    <2>1. m \in Needs(m) /\ m.config \in Needs(m)
      BY <1>1, <1>7, ManifestShape
    <2> QED
      BY <1>1, <1>7, <2>1 DEF Readable, Decompresses
  <1>8. CASE m # None /\ Planned(w, m, fallback)
    <2>1. r \in S => Needs(m) \subseteq IF fallback THEN cache' ELSE stored'
      BY <1>2, <1>3, <1>4, <1>8
    <2> QED
      BY <1>1, <1>8, <2>1 DEF m, fallback
  <1>9. CASE NotPlanned(w) /\ ~(m # None /\ Readable(m, IF fallback THEN cache' ELSE stored))
    <2>1. Registry[r] = None \/ r \notin S
      BY <1>6, <1>7, <1>9
    <2> QED
      BY <1>9, <2>1
  <1> QED
    BY <1>5, <1>8, <1>9

LEMMA CalmPlans ==
  ASSUME NEW S, SureOf(S), Honest, CatalogTypes, PullTypes, PlacesOk, TrueStore, LeavesHeld,
         NEW w \in Pullers, CalmPull(S, w), Lasts,
         BeginPull(w) \/ Resolve(w) \/ FindPrefix(w) \/ FailPlan(w) \/ (PrefixEnds(w) /\ ~calm'[w])
  PROVE  CalmPull(S, w)'
  <1>a. /\ stage'[w] \notin {"idle"} \cup EntryStages /\ answer'[w] = <<>>
        /\ plan[w] \in Seq(Entry) /\ Len(plan[w]) \in Nat
        /\ Grows
    BY DEF BeginPull, Resolve, Planned, NotPlanned, FindPrefix, PrefixEnds, FailPlan, PullTypes,
       PlacesOk, PlaceOk, PlanStages, EntryStages, Lasts
  <1>b. calm[w] => \A i \in 1..Len(plan[w]) : HeldThen(S, plan[w][i])
    <2> SUFFICES ASSUME calm[w], NEW i \in 1..Len(plan[w]) PROVE HeldThen(S, plan[w][i])
      OBVIOUS
    <2>1. plan[w][i] \in Entry /\ Held(S, plan[w][i])
      BY <1>a DEF CalmPull
    <2> QED
      BY <2>1, HeldLasts DEF HeldThen, ThereThen
  <1>c. calm[w] => \A r \in unplanned[w] : Registry[r] = None \/ r \notin S
    BY DEF CalmPull
  <1>1. CASE BeginPull(w)
    <2>1. plan'[w] = <<>> /\ unplanned'[w] = {}
      BY <1>1 DEF BeginPull, CalmPull
    <2> QED
      BY <1>a, <2>1, CalmPlanned
  <1>2. CASE FailPlan(w) \/ (PrefixEnds(w) /\ ~calm'[w])
    <2>1. ~calm'[w]
      BY <1>2 DEF FailPlan, PullTypes
    <2> QED
      BY <1>a, <2>1, CalmPlanned
  <1>3. CASE Resolve(w)
    <2> DEFINE r == Head(todo[w])
               fallback == InStore(r) = None
               m == IF fallback THEN Registry[r] ELSE InStore(r)
               e == [ref |-> r, m |-> m, from |-> 1, fallback |-> fallback]
    <2>1. r \in Refs
      BY <1>3 DEF Resolve, PullTypes
    <2>2. \/ /\ m \in Manifest /\ Planned(w, m, fallback)
             /\ r \in S => Needs(m) \subseteq IF fallback THEN cache' ELSE stored'
          \/ NotPlanned(w) /\ (Registry[r] = None \/ r \notin S)
      BY <1>3, <1>a, <2>1, ResolveHeld
    <2> HIDE DEF m, fallback
    <2>3. CASE /\ m \in Manifest /\ Planned(w, m, fallback)
               /\ r \in S => Needs(m) \subseteq IF fallback THEN cache' ELSE stored'
      <3>1. /\ plan'[w] = Append(plan[w], e) /\ unplanned' = unplanned /\ calm' = calm
            /\ e.ref = r /\ e.m = m /\ e.from = 1 /\ e.fallback = fallback
        BY <2>3 DEF Planned, PullTypes
      <3>2. HeldThen(S, e)
        <4>1. Len(m.layers) \in Nat
          BY <2>3, ManifestShape
        <4>2. 1 <= Len(m.layers) + 1 /\ ThereThen(m.config, 1 - 1)
          BY <4>1 DEF ThereThen
        <4> QED
          BY <2>3, <3>1, <4>2 DEF HeldThen
      <3> HIDE DEF e
      <3>3. /\ Len(plan'[w]) = Len(plan[w]) + 1 /\ plan'[w][Len(plan[w]) + 1] = e
            /\ \A i \in 1..Len(plan[w]) : plan'[w][i] = plan[w][i]
        BY <1>a, <3>1
      <3>4. \A i \in 1..Len(plan'[w]) : i = Len(plan[w]) + 1 \/ i \in 1..Len(plan[w])
        BY <1>a, <3>3
      <3>5. calm'[w] => \A i \in 1..Len(plan'[w]) : HeldThen(S, plan'[w][i])
        BY <1>b, <3>1, <3>2, <3>3, <3>4
      <3> QED
        BY <1>a, <1>c, <3>1, <3>5, CalmPlanned
    <2>4. CASE NotPlanned(w) /\ (Registry[r] = None \/ r \notin S)
      <3>1. unplanned'[w] = unplanned[w] \cup {r} /\ plan' = plan /\ calm' = calm
        BY <2>4 DEF NotPlanned, PullTypes
      <3> QED
        BY <1>a, <1>b, <1>c, <2>4, <3>1, CalmPlanned
    <2> QED
      BY <2>2, <2>3, <2>4
  <1>4. CASE FindPrefix(w)
    <2> DEFINE n == Len(plan[w])
               old == plan[w][n]
               e == [old EXCEPT !.from = @ + 1]
    <2>0. n >= 1 /\ old \in Entry /\ unplanned' = unplanned /\ calm' = calm
      BY <1>a, <1>4 DEF FindPrefix, PrefixEnds, PlacesOk, PlaceOk
    <2>1. CASE plan' = plan
      BY <1>a, <1>b, <1>c, <2>0, <2>1, CalmPlanned
    <2>2. CASE /\ old.from <= Len(old.m.layers) /\ Present(ChainId(old.m.config, old.from))
               /\ plan' = [plan EXCEPT ![w][n].from = @ + 1]
      <3>1. /\ e.ref = old.ref /\ e.m = old.m /\ e.fallback = old.fallback /\ e.from = old.from + 1
            /\ old.from \in Nat /\ Len(old.m.layers) \in Nat
        <4>1. old \in [ref : Refs, m : Manifest, from : Nat, fallback : BOOLEAN]
          BY <2>0 DEF Entry
        <4> HIDE DEF old
        <4>2. e.ref = old.ref /\ e.m = old.m /\ e.fallback = old.fallback /\ e.from = old.from + 1
          BY <4>1
        <4> QED
          BY <4>1, <4>2, ManifestShape
      <3>2. HeldThen(S, old) => HeldThen(S, e)
        <4>1. ChainId(old.m.config, old.from) \in LayerIds =>
                layer'[ChainId(old.m.config, old.from)] # None
          BY <2>2 DEF Present, Lasts
        <4>2. \A j \in 1..(e.from - 1) : j = old.from \/ j \in 1..(old.from - 1)
          BY <3>1
        <4>3. ThereThen(old.m.config, old.from - 1) => ThereThen(e.m.config, e.from - 1)
          BY <3>1, <4>1, <4>2 DEF ThereThen
        <4>4. e.from <= Len(e.m.layers) + 1
          BY <2>2, <3>1
        <4> QED
          BY <3>1, <4>3, <4>4 DEF HeldThen
      <3>3. plan'[w] = [plan[w] EXCEPT ![n] = e]
        BY <2>2 DEF PullTypes
      <3> HIDE DEF e
      <3>4. /\ Len(plan'[w]) = n
            /\ \A i \in 1..n : plan'[w][i] = IF i = n THEN e ELSE plan[w][i]
        BY <1>a, <3>3
      <3>5. calm'[w] => \A i \in 1..Len(plan'[w]) : HeldThen(S, plan'[w][i])
        <4> SUFFICES ASSUME calm'[w], NEW i \in 1..n PROVE HeldThen(S, plan'[w][i])
          BY <3>4
        <4>1. HeldThen(S, plan[w][i])
          BY <1>b, <2>0
        <4>2. CASE i = n
          BY <3>2, <3>4, <4>1, <4>2
        <4>3. CASE i # n
          BY <3>4, <4>1, <4>3
        <4> QED
          BY <4>2, <4>3
      <3> QED
        BY <1>a, <1>c, <2>0, <3>5, CalmPlanned
    <2> QED
      BY <1>4, <2>1, <2>2 DEF FindPrefix, PrefixEnds
  <1> QED
    BY <1>1, <1>2, <1>3, <1>4

\* The rest: a failure ends the calm.
LEMMA CalmOthers ==
  ASSUME NEW S, PullTypes, PlacesOk, NEW w \in Pullers, CalmPull(S, w), Lasts,
         \/ BeginEntries(w) \/ FailEntry(w) \/ (FailLayer(w) /\ ~PrefixEnds(w)) \/ Cancel(w) \/ Leave(w)
  PROVE  CalmPull(S, w)'
  <1>1. CASE BeginEntries(w)
    <2>1. Goes(w, "entry", k[w]) /\ "entry" \notin EntryStages
      BY <1>1, StepGoes DEF BeginEntries, EntryStages
    <2> QED
      BY <2>1, CalmGoes
  <1>2. CASE FailEntry(w)
    <2>1. /\ Ends(w, "error") /\ ~calm'[w] /\ Len(answer[w]) < Len(plan[w]) /\ "error" \in Answers
      BY <1>2 DEF FailEntry, Ends, PullTypes, PlacesOk, PlaceOk, Answers
    <2> QED
      BY <2>1, CalmEnds
  <1>3. CASE FailLayer(w) /\ ~PrefixEnds(w)
    <2>1. Goes(w, "put", k[w]) /\ ~calm'[w]
      BY <1>3 DEF FailLayer, Goes, PullTypes
    <2> QED
      BY <2>1, CalmGoes
  <1>4. CASE Cancel(w)
    BY <1>4, CalmStays DEF Cancel
  <1>5. CASE Leave(w)
    <2>1. stage'[w] = "idle" /\ plan'[w] = <<>> /\ unplanned'[w] = {} /\ answer'[w] = <<>>
      BY <1>5 DEF Leave, PullTypes
    <2> QED
      BY <2>1 DEF CalmPull, EntryStages
  <1> QED
    BY <1>1, <1>2, <1>3, <1>4, <1>5

-----------------------------------------------------------------------------
(* Calm pulls: what the others do.                                          *)

\* A pull takes nothing away: a layer that it put and that has another diffID, which it deletes, is
\* none of an image that is what it says.
LEMMA LastsPull ==
  ASSUME StorageTypes, PullTypes, PlacesOk, TruePlans, Grows, NEW w \in Pullers,
         BeginPull(w) \/ PullStep(w) \/ PullFault(w) \/ Leave(w)
  PROVE  Lasts
  <1> SUFFICES /\ \A id \in LayerIds : layer[id] # None => layer'[id] # None
               /\ \A c \in Configs : image[c] # None => image'[c] # None
    BY DEF Lasts
  <1>0. stage[w] \in EntryStages =>
          /\ Img(w) \in Manifest /\ Decompresses(Img(w)) /\ Img(w).config = Config(w)
          /\ Config(w) \in Configs
    BY EntrySound DEF Config
  <1> USE DEF EntryStages, LayerStages
  <1>1. CASE PutLayer(w)
    <2>1. stage[w] = "put" /\ UNCHANGED image
      BY <1>1 DEF PutLayer
    <2> DEFINE l == [diff |-> Content[Blob(w)], blob |-> Blob(w)]
    <2>2. layer' = layer \/ layer' = [layer EXCEPT ![Id(w)] = l]
      BY <1>1 DEF PutLayer, NewLayer
    <2>3. l # None
      BY <2>1, AtLayer, RecordAssumption
    <2> HIDE DEF l
    <2> QED
      BY <2>1, <2>2, <2>3 DEF StorageTypes
  <1>2. CASE CheckLayer(w)
    <2>1. stage[w] = "check"
      BY <1>2 DEF CheckLayer
    <2>2. k[w] \in DOMAIN Img(w).layers
      <3>1. k[w] >= 1 /\ k[w] <= Len(Img(w).layers) /\ k[w] \in Nat
        BY <2>1 DEF PlacesOk, PlaceOk, PullTypes, Img, Current
      <3> QED
        BY <1>0, <2>1, <3>1, ManifestShape
    <2>3. Content[Blob(w)] = DiffId(w)
      BY <1>0, <2>1, <2>2 DEF Decompresses, Blob, DiffId
    <2> QED
      BY <1>2, <2>3 DEF CheckLayer
  <1>3. CASE CreateImage(w)
    <2>1. stage[w] = "create" /\ UNCHANGED layer
      BY <1>3 DEF CreateImage
    <2>2. image' = image \/ (image[Config(w)] = None /\ \A d \in Configs \ {Config(w)} : image'[d] = image[d])
      BY <1>3 DEF CreateImage, NewRecord, StorageTypes
    <2> QED
      BY <2>1, <2>2
  <1>4. CASE SetBigData(w)
    <2>1. stage[w] = "data" /\ UNCHANGED layer
      BY <1>4 DEF SetBigData
    <2> DEFINE c == Config(w)
    <2>2. \/ image' = image
          \/ /\ image[c] # None
             /\ \/ image' = [image EXCEPT ![c].manifests = @ \cup {Img(w)}]
                \/ image' = [image EXCEPT ![c].default = Img(w)]
      BY <1>4 DEF SetBigData
    <2>3. CASE /\ image[c] # None
               /\ \/ image' = [image EXCEPT ![c].manifests = @ \cup {Img(w)}]
                  \/ image' = [image EXCEPT ![c].default = Img(w)]
      <3>1. c \in Configs /\ image[c] \in ImageRecord
        BY <1>0, <2>1, <2>3 DEF StorageTypes
      <3>2. /\ image'[c] \in ImageRecord
            /\ \A d \in Configs \ {c} : image'[d] = image[d]
        BY <1>0, <2>1, <2>3, <3>1 DEF StorageTypes, ImageRecord
      <3>3. image'[c] # None
        BY <3>2, RecordAssumption
      <3> QED
        BY <2>1, <3>1, <3>2, <3>3
    <2> QED
      BY <2>1, <2>2, <2>3
  <1>5. CASE AddNames(w)
    BY <1>5 DEF AddNames
  <1>6. CASE BeginPull(w) \/ PlanStep(w) \/ PullFault(w) \/ Leave(w)
    BY <1>6 DEF BeginPull, PlanStep, Resolve, FindPrefix, PrefixEnds, BeginEntries, PullFault,
       FailPlan, FailEntry, FailLayer, Cancel, Leave, machineVars, storageVars
  <1>7. CASE \/ BeginEntry(w) \/ SkipEntry(w) \/ EndPull(w) \/ KeepBlob(w) \/ KeepMarkers(w)
             \/ KeepLeaf(w) \/ Fetch(w) \/ LookLayer(w) \/ ReuseLayer(w) \/ ReuseImage(w)
    BY <1>7 DEF BeginEntry, SkipEntry, EndPull, KeepBlob, KeepMarkers, KeepLeaf, Fetch, LookLayer,
       ReuseLayer, ReuseImage, machineVars, storageVars
  <1> QED
    BY <1>1, <1>2, <1>3, <1>4, <1>5, <1>6, <1>7 DEF PullStep, EntryStep

LEMMA LastsAdds ==
  ASSUME StorageTypes, Grows, PodmanAdds
  PROVE  Lasts
  <1> SUFFICES /\ \A id \in LayerIds : layer[id] # None => layer'[id] # None
               /\ \A c \in Configs : image[c] # None => image'[c] # None
    BY DEF Lasts
  <1>1. ASSUME NEW id \in LayerIds, PodmanLayer(id)
        PROVE  image' = image /\ \A x \in LayerIds : layer[x] # None => layer'[x] # None
    BY <1>1 DEF PodmanLayer, NewLayer, StorageTypes
  <1>2. ASSUME NEW c, NEW m, NEW top, PodmanImage(c, m, top)
        PROVE  layer' = layer /\ \A d \in Configs : image[d] # None => image'[d] # None
    BY <1>2 DEF PodmanImage, NewRecord, StorageTypes
  <1>3. ASSUME NEW c, NEW r, PodmanTag(c, r) PROVE layer' = layer /\ image' = image
    BY <1>3 DEF PodmanTag
  <1> QED
    BY <1>1, <1>2, <1>3 DEF PodmanAdds

\* Podman takes something away: the pulls that have not begun are calm still.
LEMMA CalmDisturbed ==
  ASSUME NEW S, PullTypes, PlacesOk, NEW w \in Pullers, CalmPull(S, w), calm'[w] = (stage[w] = "idle"),
         stage'[w] = stage[w], unplanned'[w] = unplanned[w], plan'[w] = plan[w], answer'[w] = answer[w]
  PROVE  CalmPull(S, w)'
  <1>1. stage[w] = "idle" => plan[w] = <<>> /\ unplanned[w] = {} /\ answer[w] = <<>>
    BY DEF CalmPull, PlacesOk, PlaceOk
  <1>2. "idle" \notin EntryStages
    BY DEF EntryStages
  <1>3. CASE stage[w] # "idle"
    BY <1>3 DEF CalmPull
  <1>4. CASE stage[w] = "idle"
    <2>1. stage'[w] = "idle" /\ plan'[w] = <<>> /\ unplanned'[w] = {} /\ answer'[w] = <<>>
      BY <1>1, <1>4
    <2> QED
      BY <1>2, <2>1 DEF CalmPull
  <1> QED
    BY <1>3, <1>4

LEMMA LeavesStayHeld ==
  ASSUME IInv, [Next]_vars, LeavesHeld
  PROVE  LeavesHeld'
  <1> SUFFICES ASSUME NEW r \in Refs, leaf'[r] # None PROVE Needs(leaf'[r]) \subseteq stored'
    BY DEF LeavesHeld, Needs, Listed
  <1>1. stored \subseteq stored'
    BY NextKeeps DEF Grows
  <1> QED
    BY <1>1, LeafWritten DEF LeavesHeld

LEMMA CalmNext ==
  ASSUME NEW S, SureOf(S), Honest, IInv, TrueInv, CalmInv(S), [Next]_vars
  PROVE  CalmInv(S)'
  <1>0. /\ StorageInv /\ StorageTypes /\ CatalogTypes /\ PullTypes /\ PlacesOk
        /\ TrueStore /\ TrueLayers /\ TruePlans /\ LeavesHeld
        /\ \A w \in Pullers : CalmPull(S, w)
        /\ IInv' /\ StorageInv' /\ Grows
    BY NextKeeps DEF IInv, StorageInv, PullerInv, TrueInv, TrueStorage, CalmInv
  <1>1. LeavesHeld'
    BY <1>0, LeavesStayHeld
  <1> SUFFICES ASSUME NEW v \in Pullers PROVE CalmPull(S, v)'
    BY <1>1 DEF CalmInv
  <1>2. ASSUME NEW w \in Pullers, BeginPull(w) \/ PullStep(w) \/ PullFault(w) \/ Leave(w),
               UNCHANGED sourceLocals
        PROVE  CalmPull(S, v)'
    <2>1. Lasts
      BY <1>0, <1>2, LastsPull
    <2>2. OtherPullers(w)
      BY <1>2, PullNextKeeps
    <2>3. CASE v # w
      <3>1. /\ stage'[v] = stage[v] /\ unplanned'[v] = unplanned[v] /\ plan'[v] = plan[v]
            /\ k'[v] = k[v] /\ answer'[v] = answer[v] /\ calm'[v] = calm[v]
        BY <2>2, <2>3 DEF OtherPullers
      <3> QED
        BY <1>0, <2>1, <3>1, CalmStays
    <2>4. CASE v = w
      <3>1. CASE BeginPull(v) \/ Resolve(v) \/ FindPrefix(v) \/ FailPlan(v)
        BY <1>0, <2>1, <3>1, CalmPlans
      <3>2. CASE PrefixEnds(v) /\ FailLayer(v)
        <4>1. ~calm'[v]
          BY <1>0, <3>2 DEF FailLayer, PullTypes
        <4> QED
          BY <1>0, <2>1, <3>2, <4>1, CalmPlans
      <3>3. CASE BeginEntries(v) \/ FailEntry(v) \/ (FailLayer(v) /\ ~PrefixEnds(v)) \/ Cancel(v) \/ Leave(v)
        BY <1>0, <2>1, <3>3, CalmOthers
      <3>4. CASE \/ BeginEntry(v) \/ SkipEntry(v) \/ EndPull(v) \/ KeepBlob(v) \/ KeepMarkers(v)
                 \/ KeepLeaf(v) \/ Fetch(v)
        BY <1>0, <2>1, <3>4, CalmFetches
      <3>5. CASE LookLayer(v) \/ PutLayer(v) \/ ReuseLayer(v) \/ CheckLayer(v)
        BY <1>0, <2>1, <3>5, CalmLayers
      <3>6. CASE CreateImage(v) \/ ReuseImage(v) \/ SetBigData(v) \/ AddNames(v)
        BY <1>0, <2>1, <3>6, CalmRecord
      <3> QED
        BY <1>2, <2>4, <3>1, <3>2, <3>3, <3>4, <3>5, <3>6
           DEF PullStep, PlanStep, EntryStep, PullFault
    <2> QED
      BY <2>3, <2>4
  <1>3. ASSUME UNCHANGED pullLocals, UNCHANGED storageVars \/ PodmanAdds PROVE CalmPull(S, v)'
    <2>1. Lasts
      BY <1>0, <1>3, LastsAdds DEF Lasts, storageVars
    <2>2. UNCHANGED <<stage, unplanned, plan, k, answer, calm>>
      BY <1>3 DEF pullLocals
    <2> QED
      BY <1>0, <2>1, <2>2, CalmStays
  <1>4. CASE \E w \in Pushers : /\ BeginSource(w) \/ SourceStep(w) \/ SourceFail(w) \/ SourceLeave(w)
                                /\ UNCHANGED pullLocals
    BY <1>3, <1>4, PushNextKeeps
  <1>5. CASE Podman
    <2>1. CASE PodmanAdds /\ UNCHANGED <<pullLocals, sourceLocals>>
      BY <1>3, <2>1
    <2>2. CASE /\ calm' = [w \in Pullers |-> stage[w] = "idle"]
               /\ UNCHANGED <<stage, todo, unplanned, plan, k, answer, cancelled, sourceLocals>>
      BY <1>0, <2>2, CalmDisturbed
    <2> QED
      BY <1>5, <2>1, <2>2 DEF Podman
  <1>6. CASE UNCHANGED vars
    BY <1>3, <1>6 DEF vars, machineVars
  <1> QED
    BY <1>2, <1>4, <1>5, <1>6 DEF Next, PullNext, SourceNext

LEMMA CalmStart ==
  ASSUME NEW S, Init
  PROVE  CalmInv(S)
  BY DEF Init, MachineInit, PullInit, CalmInv, LeavesHeld, CalmPull, EntryStages

\* What a calm pull has of the references of S.
LEMMA CalmAnswers ==
  ASSUME NEW S, IInv, CalmInv(S), NEW w \in Pullers, calm[w]
  PROVE  /\ \A r \in unplanned[w] : Registry[r] = None \/ r \notin S
         /\ unplanned[w] \subseteq Refs
         /\ \A i \in DOMAIN answer[w] :
              plan[w][i].ref \in Refs /\ (plan[w][i].ref \in S => Imported(w, i))
  <1>1. DOMAIN answer[w] = 1..Len(answer[w]) /\ unplanned[w] \subseteq Refs
    BY DEF IInv, PullerInv, PullTypes
  <1>2. ASSUME NEW i \in 1..Len(answer[w]) PROVE plan[w][i].ref \in Refs
    <2>1. i \in 1..Len(plan[w])
      BY DEF IInv, PullerInv, PlacesOk, PlaceOk, PullTypes
    <2>2. plan[w][i] \in Entry
      BY <2>1 DEF IInv, PullerInv, PullTypes
    <2> QED
      BY <2>2 DEF Entry
  <1> QED
    BY <1>1, <1>2 DEF CalmInv, CalmPull

\* Where the images of the registry and of podman are what they say, a pull that no failed call and
\* no removal of podman's disturbs imports every entry, whatever the other pulls and pushes do
\* meanwhile and whatever those that failed or died left behind; unless another manifest is at its
\* leaf, or podman has the image under other layer IDs.
THEOREM CalmPullsDoSucceed ==
  ASSUME Honest
  PROVE  Spec => []CalmPullsSucceed
  <1>1. Init => CalmInv(Unpinned)
    BY CalmStart
  <1>2. IInv /\ TrueInv /\ CalmInv(Unpinned) /\ [Next]_vars => CalmInv(Unpinned)'
    BY CalmNext DEF SureOf, Unpinned
  <1>3. IInv /\ CalmInv(Unpinned) => CalmPullsSucceed
    BY CalmAnswers DEF CalmPullsSucceed, Unpinned
  <1> QED
    BY <1>1, <1>2, <1>3, Invariance, TrueInvariance, PTL DEF Spec

\* So does a pull of references with a digest, for as long as the store keeps what Resolve by digest
\* trusts (store.go:334-335); the run PullPinned shows what a failed push does to it when it does not.
THEOREM PinnedPullsTrustTheOrder ==
  ASSUME Honest
  PROVE  Spec /\ []WriteOrder => []PinnedPullsSucceed
  <1>1. Init => CalmInv(Refs)
    BY CalmStart
  <1>2. WriteOrder /\ IInv /\ TrueInv /\ CalmInv(Refs) /\ [Next]_vars => CalmInv(Refs)'
    BY CalmNext DEF SureOf
  <1>3. IInv /\ CalmInv(Refs) => PinnedPullsSucceed
    BY CalmAnswers DEF PinnedPullsSucceed
  <1> QED
    BY <1>1, <1>2, <1>3, Invariance, TrueInvariance, PTL DEF Spec

-----------------------------------------------------------------------------
(***************************************************************************)
(* A pull comes to its end.  What is ahead of it is counted in six numbers, *)
(* of which a step lowers one and keeps those before it: parts of the pull; *)
(* references to resolve, or entries to conclude; stages of this one; items *)
(* of the loop that it is in; calls for this item; and the cancellation.    *)

LayerLoop == {"look"} \cup LayerStages
ToGo(i, n) == IF i > n THEN 0 ELSE n + 1 - i

Parts(w) ==
  IF stage[w] \in PlanStages THEN 2 ELSE IF stage[w] \in {"entry"} \cup EntryStages THEN 1 ELSE 0
Turns(w) == IF stage[w] \in PlanStages THEN Len(todo[w]) ELSE Len(plan[w]) - Len(answer[w])
StagesFrom(s) ==
  CASE s \in {"prefix", "name"} -> 1 [] s = "data" -> 2 [] s = "reuse" -> 3 [] s = "create" -> 4
    [] s \in LayerLoop -> 5 [] s = "fetch" -> 6 [] s = "publish" -> 7 [] s = "markers" -> 8
    [] s = "keep" -> 9 [] s = "entry" -> 10 [] OTHER -> 0
Newest(w) == plan[w][Len(plan[w])]
Items(w) ==
  CASE stage[w] = "prefix" -> ToGo(Newest(w).from, Len(Newest(w).m.layers))
    [] stage[w] = "keep" -> Cardinality(Needs(Img(w)) \ stored)
    [] stage[w] \in {"fetch"} \cup LayerLoop -> ToGo(k[w], Len(Img(w).layers))
    [] stage[w] = "data" -> ToGo(k[w], 3)
    [] OTHER -> 0
Calls(w) == CASE stage[w] = "look" -> 2 [] stage[w] = "put" -> 1 [] OTHER -> 0
Chances(w) == IF cancelled[w] THEN 0 ELSE 1

\* Pairs of ranks are compared from the left; no sequence of them falls for ever.
Rank(w) == <<Parts(w), Turns(w), StagesFrom(stage[w]), Items(w), Calls(w), Chances(w)>>
Precedes(s, t) == \E i \in 1..6 : s[i] < t[i] /\ \A j \in 1..(i - 1) : s[j] = t[j]
Falls(w) == Precedes(Rank(w)', Rank(w))

\* One number falls and those before it are kept.
LEMMA FallsAtPart ==
  ASSUME NEW w \in Pullers, Parts(w)' < Parts(w)
  PROVE  Falls(w)
  <1>1. Rank(w)'[1] < Rank(w)[1]
    BY DEF Rank
  <1> QED
    BY <1>1 DEF Falls, Precedes

LEMMA FallsAtTurn ==
  ASSUME NEW w \in Pullers, Parts(w)' = Parts(w), Turns(w)' < Turns(w)
  PROVE  Falls(w)
  <1>1. Rank(w)'[2] < Rank(w)[2] /\ Rank(w)'[1] = Rank(w)[1]
    BY DEF Rank
  <1> QED
    BY <1>1 DEF Falls, Precedes

LEMMA FallsAtStage ==
  ASSUME NEW w \in Pullers, Parts(w)' = Parts(w), Turns(w)' = Turns(w),
         StagesFrom(stage[w])' < StagesFrom(stage[w])
  PROVE  Falls(w)
  <1>1. Rank(w)'[3] < Rank(w)[3] /\ Rank(w)'[1] = Rank(w)[1] /\ Rank(w)'[2] = Rank(w)[2]
    BY DEF Rank
  <1> QED
    BY <1>1 DEF Falls, Precedes

LEMMA FallsAtItem ==
  ASSUME NEW w \in Pullers, Parts(w)' = Parts(w), Turns(w)' = Turns(w),
         StagesFrom(stage[w])' = StagesFrom(stage[w]), Items(w)' < Items(w)
  PROVE  Falls(w)
  <1>1. /\ Rank(w)'[4] < Rank(w)[4]
        /\ Rank(w)'[1] = Rank(w)[1] /\ Rank(w)'[2] = Rank(w)[2] /\ Rank(w)'[3] = Rank(w)[3]
    BY DEF Rank
  <1> QED
    BY <1>1 DEF Falls, Precedes

LEMMA FallsAtCall ==
  ASSUME NEW w \in Pullers, Parts(w)' = Parts(w), Turns(w)' = Turns(w),
         StagesFrom(stage[w])' = StagesFrom(stage[w]), Items(w)' = Items(w), Calls(w)' < Calls(w)
  PROVE  Falls(w)
  <1>1. /\ Rank(w)'[5] < Rank(w)[5]
        /\ Rank(w)'[1] = Rank(w)[1] /\ Rank(w)'[2] = Rank(w)[2] /\ Rank(w)'[3] = Rank(w)[3]
        /\ Rank(w)'[4] = Rank(w)[4]
    BY DEF Rank
  <1> QED
    BY <1>1 DEF Falls, Precedes

LEMMA FallsAtChance ==
  ASSUME NEW w \in Pullers, Parts(w)' = Parts(w), Turns(w)' = Turns(w),
         StagesFrom(stage[w])' = StagesFrom(stage[w]), Items(w)' = Items(w), Calls(w)' = Calls(w),
         Chances(w)' < Chances(w)
  PROVE  Falls(w)
  <1>1. /\ Rank(w)'[6] < Rank(w)[6]
        /\ Rank(w)'[1] = Rank(w)[1] /\ Rank(w)'[2] = Rank(w)[2] /\ Rank(w)'[3] = Rank(w)[3]
        /\ Rank(w)'[4] = Rank(w)[4] /\ Rank(w)'[5] = Rank(w)[5]
    BY DEF Rank
  <1> QED
    BY <1>1 DEF Falls, Precedes

\* What keepInStore has to bring.
LEMMA NeedsFinite == \A m \in Manifest : IsFiniteSet(Needs(m))
  <1> SUFFICES ASSUME NEW m \in Manifest PROVE IsFiniteSet(Needs(m))
    OBVIOUS
  <1>1. Len(m.layers) \in Nat /\ DOMAIN m.layers = 1..Len(m.layers)
    BY ManifestShape
  <1>2. IsFiniteSet(DOMAIN m.layers)
    <2>1. \A n \in Nat : IsFiniteSet(1..n)
      <3>1. Nat \subseteq Int /\ 1 \in Int
        OBVIOUS
      <3> QED
        BY <3>1, FS_Interval, Zenon
    <2> QED
      BY <1>1, <2>1
  <1>3. m.layers \in Surjection(DOMAIN m.layers, Listed(m))
    <2>1. m.layers \in [DOMAIN m.layers -> Listed(m)]
      <3>1. m.layers \in [1..Len(m.layers) -> Layers]
        BY ManifestShape DEF Manifest
      <3> QED
        BY <3>1 DEF Listed
    <2> QED
      BY <2>1 DEF Surjection, Listed
  <1>4. IsFiniteSet(Listed(m))
    BY <1>2, <1>3, FS_Surjection
  <1>5. IsFiniteSet({m.config}) /\ IsFiniteSet({m})
    BY FS_Singleton
  <1>6. {m.config, m} = {m.config} \cup {m}
    OBVIOUS
  <1> QED
    BY <1>4, <1>5, <1>6, FS_Union DEF Needs

\* The numbers are numbers.
LEMMA RankIsNat ==
  ASSUME IInv, NEW w \in Pullers
  PROVE  \A i \in 1..6 : Rank(w)[i] \in Nat
  <1>1. PullTypes /\ PlaceOk(w)
    BY DEF IInv, PullerInv, PlacesOk
  <1>2. /\ Len(todo[w]) \in Nat /\ Len(plan[w]) \in Nat /\ Len(answer[w]) \in Nat
        /\ k[w] \in Nat /\ Len(answer[w]) <= Len(plan[w])
    BY <1>1 DEF PullTypes, PlaceOk
  <1>3. Parts(w) \in Nat /\ Turns(w) \in Nat /\ StagesFrom(stage[w]) \in Nat
        /\ Calls(w) \in Nat /\ Chances(w) \in Nat
    <2>1. StagesFrom(stage[w]) \in Nat
      BY DEF StagesFrom
    <2>2. Calls(w) \in Nat
      BY DEF Calls
    <2> QED
      BY <1>2, <2>1, <2>2 DEF Parts, Turns, Chances
  <1>4. Items(w) \in Nat
    <2>0. \A i, n \in Nat : ToGo(i, n) \in Nat
      BY DEF ToGo
    <2>1. CASE stage[w] = "prefix"
      <3>1. Newest(w) \in Entry
        BY <1>1, <1>2, <2>1 DEF PullTypes, PlaceOk, Newest
      <3>2. Newest(w).from \in Nat /\ Len(Newest(w).m.layers) \in Nat
        BY <3>1, ManifestShape DEF Entry
      <3> QED
        BY <2>0, <2>1, <3>2 DEF Items, LayerLoop, LayerStages
    <2>2. CASE stage[w] \in EntryStages
      <3>1. Img(w) \in Manifest
        BY <1>1, <2>2, AtEntry DEF PlaceOk
      <3>2. Len(Img(w).layers) \in Nat /\ IsFiniteSet(Needs(Img(w)))
        BY <3>1, ManifestShape, NeedsFinite
      <3>3. Cardinality(Needs(Img(w)) \ stored) \in Nat
        <4>1. Needs(Img(w)) \ stored \in SUBSET Needs(Img(w))
          OBVIOUS
        <4>2. IsFiniteSet(Needs(Img(w)) \ stored)
          BY <3>2, <4>1, FS_Subset
        <4> QED
          BY <4>2, FS_CardinalityType
      <3> QED
        <4>1. CASE stage[w] = "keep"
          BY <3>3, <4>1 DEF Items, LayerLoop, LayerStages
        <4>2. CASE stage[w] \in {"fetch"} \cup LayerLoop
          <5>1. Items(w) = ToGo(k[w], Len(Img(w).layers))
            BY <4>2 DEF Items, LayerLoop, LayerStages
          <5> QED
            BY <1>2, <2>0, <3>2, <5>1
        <4>3. CASE stage[w] = "data"
          BY <1>2, <2>0, <4>3 DEF Items, LayerLoop, LayerStages
        <4>4. CASE stage[w] \notin {"prefix", "keep", "fetch", "data"} \cup LayerLoop
          BY <4>4 DEF Items
        <4> QED
          BY <2>2, <4>1, <4>2, <4>3, <4>4 DEF EntryStages
    <2>3. CASE stage[w] \notin {"prefix"} \cup EntryStages
      BY <2>3 DEF Items, EntryStages, LayerLoop, LayerStages
    <2> QED
      BY <2>1, <2>2, <2>3
  <1> QED
    BY <1>3, <1>4 DEF Rank

Pulling == {"entry"} \cup EntryStages

\* To a later stage of the entry.
LEMMA GoesFalls ==
  ASSUME PullTypes, NEW w \in Pullers, NEW to \in EntryStages, NEW n, Goes(w, to, n),
         stage[w] \in Pulling, StagesFrom(to) < StagesFrom(stage[w])
  PROVE  Falls(w)
  <1>1. stage'[w] = to /\ plan' = plan /\ answer' = answer
    BY DEF Goes, PullTypes
  <1>2. Parts(w)' = Parts(w)
    BY <1>1 DEF Parts, Pulling, PlanStages, EntryStages
  <1>3. Turns(w)' = Turns(w)
    BY <1>1 DEF Turns, Pulling, PlanStages, EntryStages
  <1>4. StagesFrom(stage[w])' = StagesFrom(to)
    BY <1>1
  <1> QED
    BY <1>2, <1>3, <1>4, FallsAtStage

\* To another item, or another call, of the same loop.
LEMMA StaysIn ==
  ASSUME PullTypes, NEW w \in Pullers, NEW to \in EntryStages, NEW n, Goes(w, to, n),
         stage[w] \in EntryStages, StagesFrom(to) = StagesFrom(stage[w])
  PROVE  /\ stage'[w] = to /\ k'[w] = n /\ plan' = plan /\ answer' = answer /\ Img(w)' = Img(w)
         /\ Parts(w)' = Parts(w) /\ Turns(w)' = Turns(w)
         /\ StagesFrom(stage[w])' = StagesFrom(stage[w])
  <1>1. stage'[w] = to /\ k'[w] = n /\ plan' = plan /\ answer' = answer
    BY DEF Goes, PullTypes
  <1>2. Parts(w)' = Parts(w)
    BY <1>1 DEF Parts, PlanStages, EntryStages
  <1>3. Turns(w)' = Turns(w)
    BY <1>1 DEF Turns, PlanStages, EntryStages
  <1>4. StagesFrom(stage[w])' = StagesFrom(to)
    BY <1>1
  <1> QED
    BY <1>1, <1>2, <1>3, <1>4 DEF Img, Current

LEMMA ToGoFalls ==
  ASSUME NEW i \in Nat, NEW n \in Nat, i <= n
  PROVE  ToGo(i + 1, n) < ToGo(i, n)
  BY DEF ToGo

\* To the next layer.
LEMMA NextLayerFalls ==
  ASSUME PullTypes, NEW w \in Pullers, NEW to, Goes(w, to, k[w] + 1),
         \/ stage[w] \in LayerLoop /\ to = "look"
         \/ stage[w] = "fetch" /\ to = "fetch",
         Len(Img(w).layers) \in Nat, k[w] <= Len(Img(w).layers)
  PROVE  Falls(w)
  <1>1. /\ stage[w] \in EntryStages /\ to \in EntryStages
        /\ StagesFrom(to) = StagesFrom(stage[w])
        /\ stage[w] \in {"fetch"} \cup LayerLoop /\ to \in {"fetch"} \cup LayerLoop
    BY DEF LayerLoop, LayerStages, EntryStages, StagesFrom
  <1>2. /\ stage'[w] = to /\ k'[w] = k[w] + 1 /\ Img(w)' = Img(w)
        /\ Parts(w)' = Parts(w) /\ Turns(w)' = Turns(w)
        /\ StagesFrom(stage[w])' = StagesFrom(stage[w])
    BY <1>1, StaysIn
  <1>3. /\ Items(w) = ToGo(k[w], Len(Img(w).layers))
        /\ Items(w)' = ToGo(k[w] + 1, Len(Img(w).layers))
    BY <1>1, <1>2 DEF Items, LayerLoop, LayerStages
  <1>4. k[w] \in Nat
    BY DEF PullTypes
  <1> QED
    BY <1>2, <1>3, <1>4, ToGoFalls, FallsAtItem

\* To the next call for the same layer.
LEMMA NextCallFalls ==
  ASSUME PullTypes, NEW w \in Pullers, NEW to, Goes(w, to, k[w]),
         \/ stage[w] = "look" /\ to = "put"
         \/ stage[w] = "put" /\ to \in {"exists", "check"}
  PROVE  Falls(w)
  <1>1. /\ stage[w] \in EntryStages /\ to \in EntryStages
        /\ StagesFrom(to) = StagesFrom(stage[w])
        /\ stage[w] \in LayerLoop /\ to \in LayerLoop
    BY DEF LayerLoop, LayerStages, EntryStages, StagesFrom
  <1>2. /\ stage'[w] = to /\ k'[w] = k[w] /\ Img(w)' = Img(w)
        /\ Parts(w)' = Parts(w) /\ Turns(w)' = Turns(w)
        /\ StagesFrom(stage[w])' = StagesFrom(stage[w])
    BY <1>1, StaysIn
  <1>3. Items(w)' = Items(w)
    BY <1>1, <1>2 DEF Items, LayerLoop, LayerStages
  <1>4. Calls(w)' < Calls(w)
    BY <1>2 DEF Calls
  <1> QED
    BY <1>2, <1>3, <1>4, FallsAtCall

LEMMA EndsFalls ==
  ASSUME PullTypes, NEW w \in Pullers, NEW r \in Answers, Ends(w, r), stage[w] \in Pulling
  PROVE  Falls(w)
  <1>1. /\ answer[w] \in Seq(Answers) /\ plan[w] \in Seq(Entry)
        /\ stage'[w] = "entry" /\ answer'[w] = Append(answer[w], r) /\ plan' = plan
    BY DEF Ends, PullTypes
  <1>2. Parts(w)' = Parts(w)
    BY <1>1 DEF Parts, Pulling, PlanStages, EntryStages
  <1>3. /\ Len(answer'[w]) = Len(answer[w]) + 1
        /\ Len(answer[w]) \in Nat /\ Len(plan[w]) \in Nat
    BY <1>1
  <1>4. Turns(w) = Len(plan[w]) - Len(answer[w])
    BY DEF Turns, Pulling, PlanStages, EntryStages
  <1>5. Turns(w)' = Len(plan[w]) - (Len(answer[w]) + 1)
    BY <1>1, <1>3 DEF Turns, PlanStages
  <1>6. Turns(w)' < Turns(w)
    <2>1. \A m, n \in Nat : n - (m + 1) < n - m
      OBVIOUS
    <2> QED
      BY <1>3, <1>4, <1>5, <2>1, Zenon
  <1> QED
    BY <1>2, <1>6, FallsAtTurn

LEMMA StageValues ==
  /\ StagesFrom("entry") = 10 /\ StagesFrom("keep") = 9 /\ StagesFrom("markers") = 8
  /\ StagesFrom("publish") = 7 /\ StagesFrom("fetch") = 6 /\ StagesFrom("create") = 4
  /\ StagesFrom("reuse") = 3 /\ StagesFrom("data") = 2 /\ StagesFrom("name") = 1
  /\ \A s \in LayerLoop : StagesFrom(s) = 5
  BY DEF StagesFrom, LayerLoop, LayerStages

\* What a pull of its entries does brings it nearer to its end.
LEMMA EntryFalls ==
  ASSUME IInv, NEW w \in Pullers, EntryStep(w) \/ FailEntry(w)
  PROVE  Falls(w)
  <1>1. PullTypes /\ PlaceOk(w) /\ k[w] \in Nat
    BY DEF IInv, PullerInv, PlacesOk, PullTypes
  <1>2. stage[w] \in EntryStages => Img(w) \in Manifest /\ Len(Img(w).layers) \in Nat
    BY <1>1, AtEntry, ManifestShape DEF PlaceOk
  <1>3. ASSUME NEW from \in Pulling, NEW to \in EntryStages, Step(w, from, to),
               StagesFrom(to) < StagesFrom(from)
        PROVE  Falls(w)
    BY <1>1, <1>3, StepGoes, GoesFalls
  <1>4. ASSUME NEW from \in Pulling, NEW to \in EntryStages, NEW n, Loop(w, from, to, n),
               StagesFrom(to) < StagesFrom(from)
        PROVE  Falls(w)
    BY <1>1, <1>4, LoopGoes, GoesFalls
  <1>5. ASSUME NEW from \in Pulling, NEW r \in {"ok", "error", "conflict", "cancelled"},
               Conclude(w, from, r)
        PROVE  Falls(w)
    BY <1>1, <1>5, ConcludeEnds, EndsFalls DEF Answers
  <1>6. CASE BeginEntry(w)
    BY <1>3, <1>4, <1>6, StageValues DEF BeginEntry, Pulling, EntryStages
  <1>7. CASE SkipEntry(w)
    BY <1>5, <1>7 DEF SkipEntry, Pulling
  <1>8. CASE EndPull(w)
    <2>1. stage[w] = "entry" /\ stage'[w] = "done"
      BY <1>1, <1>8 DEF EndPull, Step, Goto, PullTypes
    <2>2. Parts(w)' < Parts(w)
      BY <2>1 DEF Parts, PlanStages, EntryStages
    <2> QED
      BY <2>2, FallsAtPart
  <1>9. CASE KeepBlob(w)
    <2>1. CASE Step(w, "keep", "markers")
      BY <1>3, <2>1, StageValues DEF Pulling, EntryStages
    <2>2. ASSUME NEW b \in Needs(Img(w)) \ stored, Upload(b), Step(w, "keep", "keep")
          PROVE  Falls(w)
      <3>1. Goes(w, "keep", k[w]) /\ stage[w] = "keep"
        BY <1>1, <2>2, StepGoes
      <3>2. /\ stage'[w] = "keep" /\ Img(w)' = Img(w)
            /\ Parts(w)' = Parts(w) /\ Turns(w)' = Turns(w)
            /\ StagesFrom(stage[w])' = StagesFrom(stage[w])
        BY <1>1, <3>1, StaysIn DEF EntryStages
      <3> DEFINE S == Needs(Img(w)) \ stored
      <3>3. IsFiniteSet(S)
        <4>1. IsFiniteSet(Needs(Img(w))) /\ S \in SUBSET Needs(Img(w))
          BY <1>2, <3>1, NeedsFinite DEF EntryStages
        <4> QED
          BY <4>1, FS_Subset
      <3>4. Items(w) = Cardinality(S)
        BY <3>1 DEF Items, LayerLoop, LayerStages
      <3>5. Items(w)' = Cardinality(S \ {b})
        <4>1. Needs(Img(w))' = Needs(Img(w)) /\ stored' = stored \cup {b}
          BY <2>2, <3>2 DEF Upload, Needs, Listed
        <4>2. (Needs(Img(w)) \ stored)' = S \ {b}
          BY <4>1
        <4> QED
          BY <3>2, <4>2 DEF Items, LayerLoop, LayerStages
      <3> HIDE DEF S
      <3>6. Cardinality(S \ {b}) = Cardinality(S) - 1 /\ Cardinality(S) \in Nat
        BY <2>2, <3>3, FS_RemoveElement, FS_CardinalityType DEF S
      <3> QED
        BY <3>2, <3>4, <3>5, <3>6, FallsAtItem
    <2> QED
      BY <1>9, <2>1, <2>2 DEF KeepBlob
  <1>10. CASE KeepMarkers(w)
    BY <1>3, <1>10, StageValues DEF KeepMarkers, Pulling, EntryStages
  <1>11. CASE KeepLeaf(w)
    BY <1>4, <1>5, <1>11, StageValues DEF KeepLeaf, Pulling, EntryStages
  <1>12. ASSUME NEW from, NEW to, Loop(w, from, to, k[w] + 1), ~LayersDone(w),
                (from \in LayerLoop /\ to = "look") \/ (from = "fetch" /\ to = "fetch")
         PROVE  Falls(w)
    <2>1. Goes(w, to, k[w] + 1) /\ stage[w] = from
      BY <1>1, <1>12, LoopGoes
    <2>2. Len(Img(w).layers) \in Nat /\ k[w] <= Len(Img(w).layers)
      BY <1>1, <1>2, <1>12, <2>1 DEF LayerLoop, LayerStages, EntryStages, LayersDone
    <2> QED
      BY <1>1, <1>12, <2>1, <2>2, NextLayerFalls
  <1>13. ASSUME NEW from, NEW to, Step(w, from, to),
                (from = "look" /\ to = "put") \/ (from = "put" /\ to \in {"exists", "check"})
         PROVE  Falls(w)
    BY <1>1, <1>13, StepGoes, NextCallFalls
  <1>14. stage[w] \in LayerStages => ~LayersDone(w)
    BY <1>1, <1>2 DEF PlaceOk, LayersDone, LayerStages, EntryStages, Img, Current
  <1>15. CASE Fetch(w)
    <2>1. \/ Loop(w, "fetch", "look", 1)
          \/ ~LayersDone(w) /\ Loop(w, "fetch", "fetch", k[w] + 1)
          \/ Conclude(w, "fetch", "error")
      BY <1>15 DEF Fetch
    <2>2. StagesFrom("look") < StagesFrom("fetch") /\ {"fetch", "look"} \subseteq EntryStages
      BY StageValues DEF LayerLoop, EntryStages
    <2> QED
      BY <1>4, <1>5, <1>12, <2>1, <2>2 DEF Pulling
  <1>16. CASE LookLayer(w)
    <2>1. \/ Loop(w, "look", "create", 0)
          \/ ~LayersDone(w) /\ Loop(w, "look", "look", k[w] + 1)
          \/ Step(w, "look", "put")
      BY <1>16 DEF LookLayer
    <2>2. /\ StagesFrom("create") < StagesFrom("look") /\ {"create", "look"} \subseteq EntryStages
          /\ "look" \in LayerLoop
      BY StageValues DEF LayerLoop, EntryStages
    <2>3. CASE Loop(w, "look", "create", 0)
      BY <1>4, <2>2, <2>3 DEF Pulling
    <2>4. CASE ~LayersDone(w) /\ Loop(w, "look", "look", k[w] + 1)
      BY <1>12, <2>2, <2>4
    <2>5. CASE Step(w, "look", "put")
      BY <1>13, <2>5
    <2> QED
      BY <2>1, <2>3, <2>4, <2>5
  <1>17. CASE PutLayer(w)
    BY <1>5, <1>13, <1>17 DEF PutLayer, Pulling, EntryStages
  <1>18. CASE ReuseLayer(w) \/ CheckLayer(w)
    <2>1. /\ stage[w] \in {"exists", "check"} /\ ~LayersDone(w)
          /\ \/ Loop(w, stage[w], "look", k[w] + 1)
             \/ Conclude(w, stage[w], "error")
      BY <1>14, <1>18 DEF ReuseLayer, CheckLayer, LayerStages
    <2>2. stage[w] \in LayerLoop /\ stage[w] \in Pulling
      BY <2>1 DEF LayerLoop, LayerStages, Pulling, EntryStages
    <2> QED
      BY <1>5, <1>12, <2>1, <2>2
  <1>19. CASE CreateImage(w) \/ ReuseImage(w)
    BY <1>3, <1>4, <1>5, <1>19, StageValues DEF CreateImage, ReuseImage, Pulling, EntryStages
  <1>20. CASE SetBigData(w)
    <2>1. CASE Loop(w, "data", "data", k[w] + 1) /\ k[w] < 3
      <3>1. Goes(w, "data", k[w] + 1) /\ stage[w] = "data"
        BY <1>1, <2>1, LoopGoes
      <3>2. /\ stage'[w] = "data" /\ k'[w] = k[w] + 1
            /\ Parts(w)' = Parts(w) /\ Turns(w)' = Turns(w)
            /\ StagesFrom(stage[w])' = StagesFrom(stage[w])
        BY <1>1, <3>1, StaysIn DEF EntryStages
      <3>3. Items(w) = ToGo(k[w], 3) /\ Items(w)' = ToGo(k[w] + 1, 3)
        BY <3>1, <3>2 DEF Items, LayerLoop, LayerStages
      <3> QED
        BY <1>1, <2>1, <3>2, <3>3, ToGoFalls, FallsAtItem
    <2> QED
      BY <1>4, <1>5, <1>20, <2>1, StageValues DEF SetBigData, Pulling, EntryStages
  <1>21. CASE AddNames(w)
    BY <1>5, <1>21 DEF AddNames, Pulling, EntryStages
  <1>22. CASE FailEntry(w)
    <2>1. Ends(w, "error") /\ stage[w] \in EntryStages
      BY <1>22 DEF FailEntry, Ends, machineVars
    <2> QED
      BY <1>1, <2>1, EndsFalls DEF Pulling, Answers
  <1> QED
    BY <1>6, <1>7, <1>8, <1>9, <1>10, <1>11, <1>15, <1>16, <1>17, <1>18, <1>19, <1>20, <1>21, <1>22
       DEF EntryStep

\* So does what it does when it plans.
LEMMA ShorterFalls ==
  ASSUME PullTypes, NEW w \in Pullers, stage[w] = "resolve", todo[w] # <<>>,
         todo' = [todo EXCEPT ![w] = Tail(@)], stage'[w] \in PlanStages
  PROVE  Falls(w)
  <1>1. todo[w] \in Seq(Refs) /\ todo'[w] = Tail(todo[w])
    BY DEF PullTypes
  <1>2. Len(todo'[w]) < Len(todo[w])
    <2>1. \A s \in Seq(Refs) : s # <<>> => Len(Tail(s)) = Len(s) - 1 /\ Len(s) \in Nat
      OBVIOUS
    <2>2. Len(Tail(todo[w])) = Len(todo[w]) - 1 /\ Len(todo[w]) \in Nat
      BY <1>1, <2>1
    <2>3. Len(todo'[w]) = Len(todo[w]) - 1
      BY <1>1, <2>2, Zenon
    <2> QED
      BY <2>2, <2>3
  <1>3. Parts(w)' = Parts(w)
    BY DEF Parts, PlanStages
  <1>4. Turns(w) = Len(todo[w]) /\ Turns(w)' = Len(todo'[w])
    BY DEF Turns, PlanStages
  <1> QED
    BY <1>2, <1>3, <1>4, FallsAtTurn

LEMMA PrefixFalls ==
  ASSUME IInv, NEW w \in Pullers, stage[w] = "prefix",
         Newest(w).from <= Len(Newest(w).m.layers),
         plan' = [plan EXCEPT ![w][Len(plan[w])].from = @ + 1], UNCHANGED <<stage, todo>>
  PROVE  Falls(w)
  <1> DEFINE n == Len(plan[w])
             e == [Newest(w) EXCEPT !.from = @ + 1]
  <1>1. plan[w] \in Seq(Entry) /\ n \in Nat /\ n >= 1 /\ plan \in [Pullers -> Seq(Entry)]
    BY DEF IInv, PullerInv, PlacesOk, PlaceOk, PullTypes
  <1>2. Newest(w) \in Entry /\ n \in DOMAIN plan[w]
    BY <1>1 DEF Newest
  <1>3. /\ Newest(w).from \in Nat /\ Len(Newest(w).m.layers) \in Nat
        /\ e.m = Newest(w).m /\ e.from = Newest(w).from + 1
    BY <1>2, ManifestShape DEF Entry
  <1>4. plan'[w] = [plan[w] EXCEPT ![n] = e]
    BY <1>1 DEF Newest
  <1> HIDE DEF e
  <1>5. Newest(w)' = e
    <2>1. Len(plan'[w]) = n /\ plan'[w][n] = e
      BY <1>1, <1>2, <1>4
    <2> QED
      BY <2>1 DEF Newest
  <1>6. Items(w) = ToGo(Newest(w).from, Len(Newest(w).m.layers))
    BY DEF Items, LayerLoop, LayerStages
  <1>7. Items(w)' = ToGo(Newest(w).from + 1, Len(Newest(w).m.layers))
    <2>1. Items(w)' = ToGo(Newest(w)'.from, Len(Newest(w)'.m.layers))
      BY DEF Items, LayerLoop, LayerStages
    <2> QED
      BY <1>3, <1>5, <2>1
  <1>8. Items(w)' < Items(w)
    BY <1>3, <1>6, <1>7, ToGoFalls
  <1>9. /\ Parts(w)' = Parts(w) /\ Turns(w)' = Turns(w)
        /\ StagesFrom(stage[w])' = StagesFrom(stage[w])
    BY DEF Parts, Turns, PlanStages
  <1> QED
    BY <1>8, <1>9, FallsAtItem

LEMMA PlanFalls ==
  ASSUME IInv, NEW w \in Pullers, PlanStep(w) \/ FailPlan(w) \/ FailLayer(w) \/ Cancel(w)
  PROVE  Falls(w)
  <1>1. PullTypes /\ k[w] \in Nat
    BY DEF IInv, PullerInv, PullTypes
  <1>2. CASE Resolve(w)
    <2>1. /\ stage[w] = "resolve" /\ todo[w] # <<>>
          /\ todo' = [todo EXCEPT ![w] = Tail(@)] /\ stage'[w] \in PlanStages
      BY <1>1, <1>2 DEF Resolve, Planned, NotPlanned, PullTypes, PlanStages
    <2> QED
      BY <1>1, <2>1, ShorterFalls
  <1>3. CASE FailPlan(w)
    BY <1>1, <1>3, ShorterFalls DEF FailPlan, PlanStages
  <1>4. CASE PrefixEnds(w)
    <2>1. stage[w] = "prefix" /\ stage'[w] = "resolve" /\ todo' = todo
      BY <1>1, <1>4 DEF PrefixEnds, PullTypes
    <2>2. Parts(w)' = Parts(w) /\ Turns(w)' = Turns(w)
      BY <2>1 DEF Parts, Turns, PlanStages
    <2>3. StagesFrom(stage[w])' < StagesFrom(stage[w])
      BY <2>1 DEF StagesFrom, LayerLoop, LayerStages
    <2> QED
      BY <2>2, <2>3, FallsAtStage
  <1>5. CASE FindPrefix(w)
    BY <1>4, <1>5, PrefixFalls DEF FindPrefix, Newest
  <1>6. CASE BeginEntries(w)
    <2>1. stage[w] = "resolve" /\ stage'[w] = "entry"
      BY <1>1, <1>6 DEF BeginEntries, Step, Goto, PullTypes
    <2>2. Parts(w)' < Parts(w)
      BY <2>1 DEF Parts, PlanStages, EntryStages
    <2> QED
      BY <2>2, FallsAtPart
  <1>7. CASE FailLayer(w)
    <2>1. CASE /\ calm' = [calm EXCEPT ![w] = FALSE] /\ stage[w] = "look"
               /\ stage' = [stage EXCEPT ![w] = "put"]
               /\ UNCHANGED <<machineVars, todo, unplanned, plan, k, answer, cancelled>>
      <3>1. Goes(w, "put", k[w])
        BY <1>1, <2>1 DEF Goes, PullTypes
      <3> QED
        BY <1>1, <2>1, <3>1, NextCallFalls
    <2> QED
      BY <1>4, <1>7, <2>1 DEF FailLayer
  <1>8. CASE Cancel(w)
    <2>1. /\ UNCHANGED <<machineVars, stage, todo, plan, k, answer>>
          /\ ~cancelled[w] /\ cancelled'[w]
      BY <1>1, <1>8 DEF Cancel, PullTypes
    <2>2. stored' = stored
      BY <2>1 DEF machineVars, catalogVars
    <2>3. Items(w)' = Items(w)
      BY <2>1, <2>2 DEF Items, Newest, Img, Current, Needs, Listed
    <2>4. Parts(w)' = Parts(w) /\ Turns(w)' = Turns(w) /\ Calls(w)' = Calls(w)
          /\ StagesFrom(stage[w])' = StagesFrom(stage[w])
      BY <2>1 DEF Parts, Turns, Calls
    <2>5. Chances(w)' < Chances(w)
      BY <2>1 DEF Chances
    <2> QED
      BY <2>3, <2>4, <2>5, FallsAtChance
  <1> QED
    BY <1>2, <1>3, <1>5, <1>6, <1>7, <1>8 DEF PlanStep

\* What others do does not take it back.
Untouched(w) ==
  /\ stage'[w] = stage[w] /\ todo'[w] = todo[w] /\ plan'[w] = plan[w]
  /\ k'[w] = k[w] /\ answer'[w] = answer[w] /\ cancelled'[w] = cancelled[w]

LEMMA OthersHelp ==
  ASSUME IInv, NEW w \in Pullers, Untouched(w), stored \subseteq stored'
  PROVE  Rank(w)' = Rank(w) \/ Falls(w)
  <1>1. /\ Parts(w)' = Parts(w) /\ Turns(w)' = Turns(w) /\ Calls(w)' = Calls(w)
        /\ StagesFrom(stage[w])' = StagesFrom(stage[w]) /\ Chances(w)' = Chances(w)
    BY DEF Untouched, Parts, Turns, Calls, Chances
  <1>2. Items(w)' = Items(w) \/ Items(w)' < Items(w)
    <2>1. CASE stage[w] # "keep"
      BY <2>1 DEF Untouched, Items, Newest, Img, Current
    <2>2. CASE stage[w] = "keep"
      <3> DEFINE S == Needs(Img(w)) \ stored
                 T == Needs(Img(w)) \ stored'
      <3>1. Img(w)' = Img(w)
        BY DEF Untouched, Img, Current
      <3>2. Needs(Img(w))' = Needs(Img(w))
        BY <3>1 DEF Needs, Listed
      <3>3. IsFiniteSet(S)
        <4>1. Img(w) \in Manifest
          BY <2>2, AtEntry DEF IInv, PullerInv, PlacesOk, PlaceOk, EntryStages
        <4>2. IsFiniteSet(Needs(Img(w))) /\ S \in SUBSET Needs(Img(w))
          BY <4>1, NeedsFinite
        <4> QED
          BY <4>2, FS_Subset
      <3>4. Items(w) = Cardinality(S)
        BY <2>2 DEF Items, LayerLoop, LayerStages
      <3>5. Items(w)' = Cardinality(T)
        <4>1. (Needs(Img(w)) \ stored)' = T
          BY <3>2
        <4> QED
          BY <2>2, <4>1 DEF Untouched, Items, LayerLoop, LayerStages
      <3>6. T \in SUBSET S
        OBVIOUS
      <3> HIDE DEF S, T
      <3>7. Cardinality(T) \in Nat /\ Cardinality(S) \in Nat /\ Cardinality(T) <= Cardinality(S)
        BY <3>3, <3>6, FS_Subset, FS_CardinalityType
      <3> QED
        BY <3>4, <3>5, <3>7
    <2> QED
      BY <2>1, <2>2
  <1> QED
    BY <1>1, <1>2, FallsAtItem DEF Rank

LEMMA CancelledOfOthers ==
  ASSUME IInv, NEW w \in Pullers, BeginPull(w) \/ PullStep(w) \/ PullFault(w) \/ Leave(w)
  PROVE  \A v \in Pullers \ {w} : cancelled'[v] = cancelled[v]
  <1>1. PullTypes /\ PlacesOk
    BY DEF IInv, PullerInv
  <1>2. CASE EntryStep(w) \/ FailEntry(w)
    BY <1>1, <1>2, EntryStepMoves DEF EntryMove, Goes, Ends
  <1>3. CASE BeginPull(w) \/ Leave(w) \/ Cancel(w)
    BY <1>1, <1>3 DEF BeginPull, Leave, Cancel, PullTypes
  <1>4. CASE Resolve(w)
    BY <1>4 DEF Resolve, Planned, NotPlanned
  <1>5. CASE FindPrefix(w) \/ BeginEntries(w) \/ FailPlan(w) \/ FailLayer(w)
    BY <1>5 DEF FindPrefix, PrefixEnds, BeginEntries, Step, Goto, FailPlan, FailLayer
  <1> QED
    BY <1>2, <1>3, <1>4, <1>5 DEF PullStep, PlanStep, PullFault

\* A step is somebody's.
LEMMA StepFalls ==
  ASSUME IInv, [Next]_vars, NEW w \in Pullers
  PROVE  /\ PullStep(w) \/ PullFault(w) => Falls(w)
         /\ stage[w] # "idle" /\ stage'[w] # "idle" => Rank(w)' = Rank(w) \/ Falls(w)
  <1>1. PullStep(w) \/ PullFault(w) => Falls(w)
    BY EntryFalls, PlanFalls DEF PullStep, PullFault
  <1>2. Grows
    BY NextKeeps
  <1>3. stored \subseteq stored'
    BY <1>2 DEF Grows
  <1>4. ASSUME Untouched(w) PROVE Rank(w)' = Rank(w) \/ Falls(w)
    BY <1>3, <1>4, OthersHelp
  <1>5. ASSUME NEW v \in Pullers, BeginPull(v) \/ PullStep(v) \/ PullFault(v) \/ Leave(v),
               UNCHANGED sourceLocals, stage[w] # "idle", stage'[w] # "idle"
        PROVE  Rank(w)' = Rank(w) \/ Falls(w)
    <2>1. CASE v = w
      <3>1. ~BeginPull(w) /\ ~Leave(w)
        BY <1>5 DEF BeginPull, Leave, IInv, PullerInv, PullTypes
      <3> QED
        BY <1>1, <1>5, <2>1, <3>1
    <2>2. CASE v # w
      <3>1. OtherPullers(v) /\ \A u \in Pullers \ {v} : cancelled'[u] = cancelled[u]
        BY <1>5, PullNextKeeps, CancelledOfOthers
      <3> QED
        BY <1>4, <2>2, <3>1 DEF OtherPullers, Untouched
    <2> QED
      BY <2>1, <2>2
  <1>6. CASE Podman \/ UNCHANGED pullLocals
    <2>1. Untouched(w)
      BY <1>6 DEF Podman, pullLocals, Untouched
    <2> QED
      BY <1>1, <1>4, <2>1
  <1>7. CASE UNCHANGED vars
    BY <1>6, <1>7 DEF vars
  <1> QED
    BY <1>1, <1>5, <1>6, <1>7 DEF Next, PullNext

\* No pull works for ever, whatever podman, pushes and other pulls do to the storage, the cache and
\* the store meanwhile: each of its own steps, a failing one too, lowers what is ahead of it
\* (numbers, compared from the left), and nobody else raises it.  The loops over references,
\* entries, layers, blobs and data items (PlanPull, Pull, pullEntry) end by themselves.
THEOREM PullsRunDown ==
  Spec => [][\A w \in Pullers :
     /\ \A i \in 1..6 : Rank(w)[i] \in Nat
     /\ PullStep(w) \/ PullFault(w) => Falls(w)
     /\ stage[w] # "idle" /\ stage'[w] # "idle" => Rank(w)' = Rank(w) \/ Falls(w)]_vars
  <1>1. IInv /\ [Next]_vars =>
          \A w \in Pullers :
            /\ \A i \in 1..6 : Rank(w)[i] \in Nat
            /\ PullStep(w) \/ PullFault(w) => Falls(w)
            /\ stage[w] # "idle" /\ stage'[w] # "idle" => Rank(w)' = Rank(w) \/ Falls(w)
    BY RankIsNat, StepFalls
  <1> QED
    BY <1>1, Invariance, PTL DEF Spec
=============================================================================
