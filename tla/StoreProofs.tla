----------------------------- MODULE StoreProofs -----------------------------
(***************************************************************************)
(* Proofs about Store, for every set of callers, images, leaves.           *)
(*                                                                         *)
(* The tree only grows (TreeGrows), so what a caller found or wrote stays  *)
(* true while others act (OthersKeep); an acting caller establishes what   *)
(* its next stage needs (ActorKeeps); and a leaf is published only by a    *)
(* caller that established Whole (LeafNext).                               *)
(***************************************************************************)
EXTENDS Store, TLAPS

-----------------------------------------------------------------------------
(* The types.                                                               *)

LEMMA TypeInit == Init => TypeOK
  BY StoreAssumption DEF Init, TypeOK, NoCall, Stages, Answers

LEMMA NeedsAreBlobs ==
  ASSUME NEW m \in Manifests
  PROVE  /\ Layers[m] \in Seq(Blobs) /\ DiffIdsOf[m] \in Seq(DiffIds)
         /\ ConfigOf[m] \in Blobs /\ m \in Blobs
         /\ Len(Layers[m]) \in Nat /\ DOMAIN Layers[m] = 1..Len(Layers[m])
         /\ \A i \in DOMAIN Layers[m] : Layers[m][i] \in Blobs
  BY StoreAssumption

TreeType ==
  /\ stored' \subseteq Blobs
  /\ markers' \subseteq DiffIds \X Blobs
  /\ layout' \subseteq Leaves
  /\ dirs' \subseteq Leaves
  /\ index' \in [Leaves -> Blobs \cup {None}]

\* The shape of a step within a call.
Moves(c) ==
  /\ call' = call
  /\ \E s \in Stages : stage' = [stage EXCEPT ![c] = s]
  /\ k' = k \/ \E n \in Nat : k' = [k EXCEPT ![c] = n]
  /\ res' = res \/ \E r \in Answers : res' = [res EXCEPT ![c] = r]

LEMMA TypeMoves ==
  ASSUME TypeOK, NEW c \in Callers, Moves(c), TreeType
  PROVE  TypeOK'
  BY DEF Moves, TreeType, TypeOK

LEMMA StepMoves ==
  ASSUME TypeOK, NEW c \in Callers, Step(c) \/ Fault(c)
  PROVE  Moves(c)
  <1> USE DEF Moves, Answer, Goto, Stages, Answers, CommitStages
  <1>1. k[c] + 1 \in Nat /\ 1 \in Nat
    BY DEF TypeOK
  <1>2. CASE PutStep(c)
    BY <1>2 DEF PutStep, PutHas, PutCreate
  <1>3. CASE ReadManifest(c) \/ ReadConfig(c)
    BY <1>3 DEF ReadManifest, ReadConfig
  <1>4. CASE CheckLayer(c)
    BY <1>1, <1>4 DEF CheckLayer
  <1>5. CASE WriteMarker(c)
    BY <1>1, <1>5 DEF WriteMarker
  <1>6. CASE WriteLayout(c) \/ MakeDir(c) \/ WriteIndex(c) \/ Compare(c)
    BY <1>6 DEF WriteLayout, MakeDir, WriteIndex, Compare
  <1>7. CASE Fault(c)
    BY <1>7 DEF Fault, Fail, LoseAnswer
  <1> QED
    BY <1>2, <1>3, <1>4, <1>5, <1>6, <1>7 DEF Step, CommitStep

\* The marker a caller writes is a pair of a diffID and a blob.
LEMMA MarkerType ==
  ASSUME TypeOK, NEW c \in Callers, Found(c), stage[c] = "markers",
         k[c] <= Len(Layers[Blob(c)]), AddMarker(c)
  PROVE  markers' \subseteq DiffIds \X Blobs
  <1>1. /\ Blob(c) \in Manifests /\ k[c] \in Nat /\ k[c] >= 1
        /\ Len(DiffIdsOf[Blob(c)]) = Len(Layers[Blob(c)])
    BY DEF Found, CommitStages, AfterConfig, AfterLayers, TypeOK
  <1>2. <<DiffIdsOf[Blob(c)][k[c]], Layers[Blob(c)][k[c]]>> \in DiffIds \X Blobs
    BY <1>1, NeedsAreBlobs
  <1> QED
    BY <1>2 DEF AddMarker, TypeOK

LEMMA TreeTypes ==
  ASSUME TypeOK, NEW c \in Callers, CallOf(c), Found(c), Step(c) \/ Fault(c)
  PROVE  TreeType
  <1> USE DEF TreeType, Answer, Goto, tree
  <1>1. CASE PutStep(c)
    BY <1>1 DEF PutStep, PutHas, PutCreate, CallOf, TypeOK
  <1>2. CASE ReadManifest(c) \/ ReadConfig(c) \/ CheckLayer(c) \/ Compare(c)
    BY <1>2 DEF ReadManifest, ReadConfig, CheckLayer, Compare, TypeOK
  <1>3. CASE WriteMarker(c)
    BY <1>3, MarkerType DEF WriteMarker, TypeOK
  <1>4. CASE WriteLayout(c) \/ MakeDir(c) \/ WriteIndex(c)
    BY <1>4 DEF WriteLayout, MakeDir, WriteIndex, AddIndex, CallOf, CommitStages, TypeOK
  <1>5. CASE Fail(c)
    BY <1>5 DEF Fail, TypeOK
  <1>6. CASE LoseAnswer(c)
    <2>1. CASE stage[c] = "markers"
      BY <1>6, <2>1, MarkerType DEF LoseAnswer, TypeOK
    <2>2. CASE stage[c] # "markers"
      <3>1. /\ Blob(c) \in Blobs
            /\ stage[c] \in {"layout", "index"} => Leaf(c) \in Leaves
            /\ stage[c] \in {"create", "layout", "index"}
        BY <1>6, <2>2 DEF LoseAnswer, CallOf, CommitStages
      <3>2. \/ stored' = stored \cup {Blob(c)} /\ UNCHANGED <<markers, layout, dirs, index>>
            \/ /\ stage[c] = "layout" /\ layout' = layout \cup {Leaf(c)}
               /\ UNCHANGED <<stored, markers, dirs, index>>
            \/ /\ stage[c] = "index" /\ index' = [index EXCEPT ![Leaf(c)] = Blob(c)]
               /\ UNCHANGED <<stored, markers, layout, dirs>>
        BY <1>6, <2>2 DEF LoseAnswer, AddIndex
      <3>3. CASE stage[c] = "index" /\ index' = [index EXCEPT ![Leaf(c)] = Blob(c)]
        <4>1. index' \in [Leaves -> Blobs \cup {None}]
          BY <3>1, <3>3 DEF TypeOK
        <4> QED
          BY <3>1, <3>2, <4>1 DEF TypeOK
      <3> HIDE DEF Answer, Goto
      <3> QED
        BY <3>1, <3>2, <3>3 DEF TypeOK
    <2> QED
      BY <2>1, <2>2
  <1> QED
    BY <1>1, <1>2, <1>3, <1>4, <1>5, <1>6 DEF Step, CommitStep, Fault

LEMMA TypeKill ==
  ASSUME TypeOK, NEW C, Kill(C)
  PROVE  TypeOK'
  BY DEF Kill, TypeOK, tree, NoCall, Stages, Answers

LEMMA TypeNext == TypeOK /\ CallerInv /\ [Next]_storeVars => TypeOK'
  <1> SUFFICES ASSUME TypeOK, CallerInv, [Next]_storeVars PROVE TypeOK'
    OBVIOUS
  <1>1. ASSUME NEW c \in Callers, NEW b \in Blobs, PutBegin(c, b) PROVE TypeOK'
    BY <1>1 DEF PutBegin, Begin, tree, TypeOK, Stages
  <1>2. ASSUME NEW c \in Callers, NEW l \in Leaves, NEW b \in Blobs, CommitBegin(c, l, b)
        PROVE  TypeOK'
    BY <1>2 DEF CommitBegin, Begin, tree, TypeOK, Stages, CommitStages
  <1>3. ASSUME NEW c \in Callers, Step(c) \/ Fault(c) PROVE TypeOK'
    BY <1>3, StepMoves, TreeTypes, TypeMoves DEF CallerInv
  <1>4. ASSUME NEW C, Kill(C) PROVE TypeOK'
    BY <1>4, TypeKill
  <1>5. CASE UNCHANGED storeVars
    BY <1>5 DEF storeVars, tree, TypeOK
  <1> QED
    BY <1>1, <1>2, <1>3, <1>4, <1>5 DEF Next, Return

-----------------------------------------------------------------------------
(* The tree only grows.                                                     *)

Grows ==
  /\ stored \subseteq stored'
  /\ markers \subseteq markers'
  /\ layout \subseteq layout'
  /\ dirs \subseteq dirs'
  /\ \A l \in Leaves : index[l] # None => index'[l] = index[l]

\* No file of the store is ever removed or replaced, whoever acts.
LEMMA TreeGrows == TypeOK /\ [Next]_storeVars => Grows
  <1> SUFFICES ASSUME TypeOK, [Next]_storeVars PROVE Grows
    OBVIOUS
  <1> USE DEF Grows, tree
  <1>1. ASSUME NEW c \in Callers, NEW b, NEW l, PutBegin(c, b) \/ CommitBegin(c, l, b)
        PROVE  Grows
    BY <1>1 DEF PutBegin, CommitBegin, Begin
  <1>2. ASSUME NEW c \in Callers, Step(c) PROVE Grows
    BY <1>2 DEF Step, PutStep, PutHas, PutCreate, CommitStep, ReadManifest, ReadConfig, CheckLayer,
                WriteMarker, AddMarker, WriteLayout, MakeDir, WriteIndex, AddIndex, Compare, TypeOK
  <1>3. ASSUME NEW c \in Callers, Fault(c) PROVE Grows
    BY <1>3 DEF Fault, Fail, LoseAnswer, AddMarker, AddIndex, TypeOK
  <1>4. ASSUME NEW C, Kill(C) PROVE Grows
    BY <1>4 DEF Kill
  <1>5. CASE UNCHANGED storeVars
    BY <1>5 DEF storeVars
  <1> QED
    BY <1>1, <1>2, <1>3, <1>4, <1>5 DEF Next, Return

-----------------------------------------------------------------------------
(* What a caller knows.                                                     *)

Knows(c) == CallOf(c) /\ Found(c) /\ Written(c) /\ AnswerTrue(c)

Same(d) ==
  /\ call'[d] = call[d] /\ stage'[d] = stage[d]
  /\ k'[d] = k[d] /\ res'[d] = res[d]

LEMMA StagesKnown ==
  /\ AfterConfig \subseteq CommitStages \ {"manifest"}
  /\ AfterLayers = AfterConfig \ {"layers"}
  /\ AfterMarkers = AfterLayers \ {"markers"}
  BY DEF AfterConfig, AfterLayers, AfterMarkers, CommitStages

\* A caller that does not act keeps what it knows, because the tree only grows.
LEMMA OthersKeep ==
  ASSUME TypeOK, Grows, NEW d \in Callers, Same(d), Knows(d)
  PROVE  Knows(d)'
  <1>1. Leaf(d)' = Leaf(d) /\ Blob(d)' = Blob(d) /\ stage'[d] = stage[d] /\ k'[d] = k[d]
        /\ res'[d] = res[d]
    BY DEF Same, Leaf, Blob
  <1>2. CallOf(d)'
    BY <1>1 DEF Knows, CallOf
  <1>3. Found(d)'
    BY <1>1 DEF Knows, Found, Grows, Needs
  <1>4. Written(d)'
    <2>1. stage[d] = "compare" => Leaf(d) \in Leaves
      BY DEF Knows, CallOf, CommitStages
    <2> QED
      BY <1>1, <2>1 DEF Knows, Written, Grows, MarkersOf
  <1>5. AnswerTrue(d)'
    <2> SUFFICES ASSUME stage[d] = "done"
                 PROVE  /\ res[d] = "ok" => IF Leaf(d) = None THEN Blob(d) \in stored'
                                              ELSE index'[Leaf(d)] = Blob(d)
                        /\ res[d] = "conflict" => index'[Leaf(d)] \notin {None, Blob(d)}
      BY <1>1 DEF AnswerTrue
    <2>1. Leaf(d) \in Leaves \cup {None} /\ Blob(d) \in Blobs /\ Blob(d) # None
      BY StoreAssumption DEF Knows, CallOf, TypeOK, Leaf
    <2> QED
      BY <2>1 DEF Knows, AnswerTrue, CallOf, Grows
  <1> QED
    BY <1>2, <1>3, <1>4, <1>5 DEF Knows

\* What a step of c leaves alone.
LEMMA OthersSame ==
  ASSUME TypeOK, NEW c \in Callers, NEW d \in Callers \ {c}, Moves(c)
  PROVE  Same(d)
  BY DEF Moves, Same, TypeOK

\* An answer that is true of the store as it is now.
LEMMA AnswerKnows ==
  ASSUME TypeOK, NEW c \in Callers, NEW f \in Stages \ {"idle", "done"}, NEW r \in Answers \ {"none"},
         Answer(c, f, r), Knows(c),
         r = "ok" => IF Leaf(c) = None THEN Blob(c) \in stored'
                                       ELSE index'[Leaf(c)] = Blob(c),
         r = "conflict" => Leaf(c) \in Leaves /\ index'[Leaf(c)] \notin {None, Blob(c)}
  PROVE  Knows(c)'
  <1>1. /\ stage'[c] = "done" /\ res'[c] = r
        /\ Leaf(c)' = Leaf(c) /\ Blob(c)' = Blob(c) /\ Blob(c) \in Blobs
    BY DEF Answer, TypeOK, Leaf, Blob, Knows, CallOf, Stages
  <1> QED
    BY <1>1 DEF Knows, CallOf, Found, Written, AnswerTrue, CommitStages, AfterConfig, AfterLayers,
                AfterMarkers

\* A caller that goes on has nothing to answer for yet.
LEMMA GoKnows ==
  ASSUME TypeOK, NEW c \in Callers, NEW f \in Stages \ {"idle", "done"},
         NEW s \in CommitStages, Goto(c, f, s), f \in CommitStages, Knows(c),
         Found(c)', Written(c)'
  PROVE  Knows(c)'
  <1>1. stage'[c] = s /\ Leaf(c)' = Leaf(c) /\ Blob(c)' = Blob(c) /\ stage[c] = f
    BY DEF Goto, TypeOK, Leaf, Blob
  <1> QED
    BY <1>1 DEF Knows, CallOf, AnswerTrue, CommitStages

LEMMA PutKnows ==
  ASSUME TypeOK, NEW c \in Callers, Knows(c), PutStep(c)
  PROVE  Knows(c)'
  <1>1. stage[c] \in {"has", "create"} /\ Leaf(c) = None /\ Blob(c) \in Blobs
    BY DEF PutStep, PutHas, PutCreate, Answer, Goto, Knows, CallOf
  <1>2. CASE PutHas(c) /\ Blob(c) \in stored
    BY <1>1, <1>2, AnswerKnows DEF PutHas, tree, Stages, Answers
  <1>3. CASE PutHas(c) /\ Blob(c) \notin stored
    <2>1. /\ stage'[c] = "create" /\ Leaf(c)' = Leaf(c) /\ Blob(c)' = Blob(c)
      BY <1>3 DEF PutHas, Goto, TypeOK, Leaf, Blob
    <2> QED
      BY <1>1, <2>1 DEF Knows, CallOf, Found, Written, AnswerTrue, CommitStages, AfterConfig,
                        AfterLayers, AfterMarkers
  <1>4. CASE PutCreate(c)
    BY <1>1, <1>4, AnswerKnows DEF PutCreate, Stages, Answers
  <1> QED
    BY <1>2, <1>3, <1>4 DEF PutStep

LEMMA CommitKnows ==
  ASSUME TypeOK, NEW c \in Callers, Knows(c), CommitStep(c)
  PROVE  Knows(c)'
  <1> DEFINE l == Leaf(c)
             m == Blob(c)
  <1>0. Leaf(c)' = l /\ Blob(c)' = m
    BY StepMoves DEF Moves, Step, Leaf, Blob
  <1>a. \A f \in CommitStages, r \in {"absent", "refused"} : Answer(c, f, r) => Knows(c)'
    BY AnswerKnows DEF Stages, CommitStages, Answers
  <1>g. \A f, s \in CommitStages :
          Goto(c, f, s) /\ Found(c)' /\ Written(c)' => Knows(c)' 
    BY GoKnows DEF Stages, CommitStages
  <1>t. \A f, s \in CommitStages : Goto(c, f, s) => stage[c] = f /\ stage'[c] = s
    BY DEF Goto, TypeOK
  <1> USE DEF CommitStages
  <1>1. CASE ReadManifest(c)
    <2>1. CASE Goto(c, "manifest", "config")
      <3>1. stage'[c] = "config" /\ stored' = stored
        BY <1>1, <1>t, <2>1 DEF ReadManifest, tree
      <3>2. m \in (Manifests \ Foreign) \cap stored
        BY <1>1, <1>t, <2>1 DEF ReadManifest, Answer, Goto, TypeOK
      <3>3. Found(c)' /\ Written(c)'
        BY <1>0, <3>1, <3>2 DEF Found, Written, AfterConfig, AfterLayers, AfterMarkers
      <3> QED
        BY <1>g, <2>1, <3>3
    <2>2. CASE ~Goto(c, "manifest", "config")
      BY <1>1, <1>a, <2>2 DEF ReadManifest
    <2> QED
      BY <2>1, <2>2
  <1>2. CASE ReadConfig(c)
    <2>1. CASE Goto(c, "config", "layers")
      <3>1. stage[c] = "config" /\ stage'[c] = "layers" /\ stored' = stored /\ k'[c] = 1
        BY <1>2, <1>t, <2>1 DEF ReadConfig, tree, Goto, Answer, TypeOK
      <3>2. ConfigOf[m] \in stored /\ <<l, m>> \in Fits
        BY <1>2, <2>1, <3>1 DEF ReadConfig, Answer, TypeOK
      <3>3. m \in (Manifests \ Foreign) \cap stored
        BY <3>1 DEF Knows, Found
      <3>4. \A i \in DOMAIN Layers[m] : ~(i < 1)
        BY <3>3, NeedsAreBlobs
      <3>5. Found(c)' /\ Written(c)'
        BY <1>0, <3>1, <3>2, <3>3, <3>4
           DEF Found, Written, AfterConfig, AfterLayers, AfterMarkers
      <3> QED
        BY <1>g, <2>1, <3>5
    <2>2. CASE ~Goto(c, "config", "layers")
      BY <1>2, <1>a, <2>2 DEF ReadConfig
    <2> QED
      BY <2>1, <2>2
  <1>3. CASE CheckLayer(c)
    <2>0. /\ stage[c] = "layers" /\ stored' = stored
          /\ m \in (Manifests \ Foreign) \cap stored /\ ConfigOf[m] \in stored
          /\ <<l, m>> \in Fits /\ k[c] \in Nat /\ k[c] >= 1
          /\ \A i \in DOMAIN Layers[m] : i < k[c] => Layers[m][i] \in stored
      BY <1>3 DEF CheckLayer, tree, Knows, Found, AfterConfig, TypeOK
    <2>1. CASE Goto(c, "layers", "layers")
      <3>1. /\ stage'[c] = "layers" /\ k'[c] = k[c] + 1
            /\ k[c] <= Len(Layers[m]) /\ Layers[m][k[c]] \in stored
        BY <1>3, <1>t, <2>1 DEF CheckLayer, Goto, Answer, TypeOK
      <3>2. \A i \in DOMAIN Layers[m] : i < k[c] + 1 => Layers[m][i] \in stored
        <4>1. \A i \in DOMAIN Layers[m] : i \in Nat
          BY <2>0, NeedsAreBlobs
        <4> QED
          BY <2>0, <3>1, <4>1
      <3>3. Found(c)' /\ Written(c)'
        BY <1>0, <2>0, <3>1, <3>2 DEF Found, Written, AfterConfig, AfterLayers, AfterMarkers
      <3> QED
        BY <1>g, <2>1, <3>3
    <2>2. CASE Goto(c, "layers", "markers")
      <3>1. /\ stage'[c] = "markers" /\ k'[c] = 1 /\ k[c] > Len(Layers[m])
            /\ Len(DiffIdsOf[m]) = Len(Layers[m])
        BY <1>3, <1>t, <2>2 DEF CheckLayer, Goto, Answer, TypeOK
      <3>2. \A i \in DOMAIN Layers[m] : i \in Nat /\ i < k[c] /\ ~(i < 1)
        BY <2>0, <3>1, NeedsAreBlobs
      <3>3. Needs(m) \subseteq stored
        BY <2>0, <3>2 DEF Needs
      <3>4. Needs(Blob(c))' = Needs(m)
        BY <1>0 DEF Needs
      <3>5. Found(c)' /\ Written(c)'
        BY <1>0, <2>0, <3>1, <3>2, <3>3, <3>4
           DEF Found, Written, AfterConfig, AfterLayers, AfterMarkers
      <3> QED
        BY <1>g, <2>2, <3>5
    <2>3. CASE ~Goto(c, "layers", "layers") /\ ~Goto(c, "layers", "markers")
      BY <1>3, <1>a, <2>3 DEF CheckLayer
    <2> QED
      BY <2>1, <2>2, <2>3
  <1>w. ASSUME stage[c] \in AfterLayers, stored' = stored
        PROVE  /\ m \in Manifests /\ k[c] \in Nat /\ l \in Leaves
               /\ stage'[c] \in AfterLayers /\ (k'[c] \in Nat /\ k'[c] >= 1) => Found(c)'
    <2>1. /\ m \in (Manifests \ Foreign) \cap stored /\ ConfigOf[m] \in stored
          /\ <<l, m>> \in Fits /\ k[c] \in Nat /\ k[c] >= 1 /\ l \in Leaves
          /\ Needs(m) \subseteq stored /\ Len(DiffIdsOf[m]) = Len(Layers[m])
      BY <1>w DEF Knows, CallOf, Found, AfterConfig, AfterLayers, TypeOK
    <2>2. Needs(Blob(c))' = Needs(m)
      BY <1>0 DEF Needs
    <2> QED
      BY <1>0, <1>w, <2>1, <2>2 DEF Found, AfterConfig, AfterLayers
  <1>4. CASE WriteMarker(c)
    <2>0. /\ stage[c] = "markers" /\ stored' = stored /\ k[c] \in Nat /\ k[c] >= 1
          /\ m \in Manifests
          /\ \A i \in DOMAIN Layers[m] : i < k[c] =>
               <<DiffIdsOf[m][i], Layers[m][i]>> \in markers
      BY <1>4 DEF WriteMarker, Knows, Found, Written, AfterConfig, TypeOK
    <2>i. \A i \in DOMAIN Layers[m] : i \in Nat /\ i <= Len(Layers[m])
      BY <2>0, NeedsAreBlobs
    <2>1. CASE Goto(c, "markers", "markers")
      <3>1. /\ stage'[c] = "markers" /\ k'[c] = k[c] + 1
            /\ markers' = markers \cup {<<DiffIdsOf[m][k[c]], Layers[m][k[c]]>>}
        BY <1>4, <1>t, <2>1 DEF WriteMarker, AddMarker, Goto, TypeOK
      <3>2. Found(c)'
        BY <1>w, <2>0, <3>1 DEF AfterLayers, AfterConfig
      <3>3. \A i \in DOMAIN Layers[m] : i < k[c] + 1 =>
              <<DiffIdsOf[m][i], Layers[m][i]>> \in markers'
        BY <2>0, <2>i, <3>1
      <3>4. Written(c)'
        BY <1>0, <3>1, <3>3 DEF Written, AfterConfig, AfterLayers, AfterMarkers
      <3> QED
        BY <1>g, <2>1, <3>2, <3>4
    <2>2. CASE Goto(c, "markers", "layout")
      <3>1. /\ stage'[c] = "layout" /\ k'[c] = k[c] /\ markers' = markers
            /\ k[c] > Len(Layers[m])
        BY <1>4, <1>t, <2>2 DEF WriteMarker, Goto, TypeOK
      <3>2. Found(c)'
        BY <1>w, <2>0, <3>1 DEF AfterLayers, AfterConfig
      <3>3. MarkersOf(m) \subseteq markers
        BY <2>0, <2>i, <3>1 DEF MarkersOf
      <3>4. MarkersOf(Blob(c))' = MarkersOf(m)
        BY <1>0 DEF MarkersOf
      <3>5. Written(c)'
        BY <1>0, <3>1, <3>3, <3>4 DEF Written, AfterConfig, AfterLayers, AfterMarkers
      <3> QED
        BY <1>g, <2>2, <3>2, <3>5
    <2> QED
      BY <1>4, <2>1, <2>2 DEF WriteMarker
  <1>5. ASSUME NEW f \in AfterMarkers, NEW s \in AfterMarkers, Goto(c, f, s),
               stored' = stored, markers' = markers, layout \subseteq layout', dirs \subseteq dirs',
               k' = k, s \in {"dirs", "index", "compare"} => l \in layout',
               s \in {"index", "compare"} => (HasDirs => l \in dirs'),
               s = "compare" => index'[l] # None
        PROVE  Knows(c)'
    <2>1. stage[c] = f /\ stage'[c] = s
      BY <1>5 DEF Goto, TypeOK
    <2>2. k[c] >= 1 /\ MarkersOf(m) \subseteq markers
      BY <2>1 DEF Knows, Found, Written, AfterConfig, AfterLayers, AfterMarkers
    <2>3. Found(c)'
      BY <1>5, <1>w, <2>1, <2>2 DEF AfterMarkers
    <2>4. MarkersOf(Blob(c))' = MarkersOf(m)
      BY <1>0 DEF MarkersOf
    <2>5. Written(c)'
      BY <1>0, <1>5, <2>1, <2>2, <2>4 DEF Written, AfterConfig, AfterLayers, AfterMarkers
    <2> QED
      BY <1>5, <1>g, <2>3, <2>5 DEF AfterConfig, AfterLayers, AfterMarkers
  <1> USE DEF AfterConfig, AfterLayers, AfterMarkers
  <1>6. CASE WriteLayout(c)
    BY <1>5, <1>6 DEF WriteLayout
  <1>7. CASE MakeDir(c)
    <2>1. l \in layout /\ Goto(c, "dirs", "index")
      BY <1>7 DEF MakeDir, Goto, Knows, Written
    <2> QED
      BY <1>5, <1>7, <2>1 DEF MakeDir
  <1>8. CASE WriteIndex(c)
    <2>0. /\ stage[c] = "index" /\ l \in layout /\ (HasDirs => l \in dirs)
          /\ l \in Leaves /\ m \in Blobs /\ m # None /\ l # None
      BY <1>8, StoreAssumption DEF WriteIndex, Knows, Written, CallOf
    <2>1. CASE AddIndex(c)
      <3>1. index'[l] = m
        BY <2>0, <2>1 DEF AddIndex, TypeOK
      <3>2. Answer(c, "index", "ok") \/ Goto(c, "index", "compare")
        BY <1>8, <2>1 DEF WriteIndex, AddIndex
      <3>3. CASE Answer(c, "index", "ok")
        BY <2>0, <3>1, <3>3, AnswerKnows DEF Stages, Answers
      <3>4. CASE Goto(c, "index", "compare")
        BY <1>5, <1>8, <2>0, <3>1, <3>4 DEF WriteIndex
      <3> QED
        BY <3>2, <3>3, <3>4
    <2>2. CASE ~AddIndex(c)
      <3>1. Goto(c, "index", "compare") /\ index[l] # None /\ index' = index
        BY <1>8, <2>2 DEF WriteIndex
      <3> QED
        BY <1>5, <1>8, <2>0, <3>1 DEF WriteIndex
    <2> QED
      BY <2>1, <2>2
  <1>9. CASE Compare(c)
    <2>1. /\ index[l] # None /\ index' = index /\ l \in Leaves /\ l # None
      BY <1>9, StoreAssumption DEF Compare, tree, Knows, Written, CallOf
    <2> QED
      BY <1>9, <2>1, AnswerKnows DEF Compare, Stages, Answers
  <1> QED
    BY <1>1, <1>2, <1>3, <1>4, <1>6, <1>7, <1>8, <1>9 DEF CommitStep

LEMMA FaultKnows ==
  ASSUME TypeOK, NEW c \in Callers, Knows(c), Fault(c)
  PROVE  Knows(c)'
  <1>1. \E f \in Stages \ {"idle", "done"} : Answer(c, f, "error")
    BY DEF Fault, Fail, LoseAnswer, Stages, CommitStages
  <1> QED
    BY <1>1, AnswerKnows DEF Answers

LEMMA BeginKnows ==
  ASSUME TypeOK, NEW c \in Callers, NEW b \in Blobs,
         PutBegin(c, b) \/ \E l \in Leaves : CommitBegin(c, l, b)
  PROVE  Knows(c)'
  <1>1. /\ Blob(c)' = b
        /\ \/ stage'[c] = "has" /\ Leaf(c)' = None
           \/ stage'[c] = "manifest" /\ Leaf(c)' \in Leaves
    BY DEF PutBegin, CommitBegin, Begin, TypeOK, Blob, Leaf
  <1> QED
    BY <1>1 DEF Knows, CallOf, Found, Written, AnswerTrue, CommitStages, AfterConfig, AfterLayers,
                AfterMarkers

\* A call that ended, or died, knows nothing.
LEMMA IdleKnows ==
  ASSUME NEW c \in Callers, stage'[c] = "idle"
  PROVE  Knows(c)'
  BY DEF Knows, CallOf, Found, Written, AnswerTrue, CommitStages, AfterConfig, AfterLayers,
         AfterMarkers

LEMMA KnowsNext ==
  TypeOK /\ (\A c \in Callers : Knows(c)) /\ [Next]_storeVars => \A c \in Callers : Knows(c)'
  <1> SUFFICES ASSUME TypeOK, \A c \in Callers : Knows(c), [Next]_storeVars,
                      NEW d \in Callers
               PROVE  Knows(d)'
    OBVIOUS
  <1>0. Grows
    BY TreeGrows
  <1>1. ASSUME NEW c \in Callers, NEW b \in Blobs,
               PutBegin(c, b) \/ \E l \in Leaves : CommitBegin(c, l, b)
        PROVE  Knows(d)'
    <2>1. d # c => Same(d)
      BY <1>1 DEF PutBegin, CommitBegin, Begin, Same, TypeOK
    <2> QED
      BY <1>0, <1>1, <2>1, BeginKnows, OthersKeep
  <1>2. ASSUME NEW c \in Callers, Step(c) \/ Fault(c) PROVE Knows(d)'
    <2>1. CASE d = c
      BY <1>2, <2>1, PutKnows, CommitKnows, FaultKnows DEF Step
    <2>2. CASE d # c
      BY <1>0, <1>2, <2>2, StepMoves, OthersSame, OthersKeep
    <2> QED
      BY <2>1, <2>2
  <1>3. ASSUME NEW C, Kill(C) PROVE Knows(d)'
    <2>1. stage'[d] = "idle" \/ Same(d)
      BY <1>3 DEF Kill, Same
    <2> QED
      BY <1>0, <2>1, IdleKnows, OthersKeep
  <1>4. CASE UNCHANGED storeVars
    BY <1>0, <1>4, OthersKeep DEF storeVars, Same
  <1> QED
    BY <1>1, <1>2, <1>3, <1>4 DEF Next, Return

-----------------------------------------------------------------------------
(* The leaves.                                                              *)

\* Only the write of an index.json publishes a leaf.
LEMMA IndexChange ==
  ASSUME TypeOK, [Next]_storeVars
  PROVE  \/ index' = index
         \/ \E c \in Callers : /\ stage[c] = "index" /\ AddIndex(c)
                               /\ UNCHANGED <<stored, markers, layout, dirs>>
  <1> USE DEF tree
  <1>1. ASSUME NEW c \in Callers, NEW b, NEW l, PutBegin(c, b) \/ CommitBegin(c, l, b)
        PROVE  index' = index
    BY <1>1 DEF PutBegin, CommitBegin, Begin
  <1>2. ASSUME NEW c \in Callers, PutStep(c) \/ ReadManifest(c) \/ ReadConfig(c) \/ CheckLayer(c)
                 \/ WriteMarker(c) \/ WriteLayout(c) \/ MakeDir(c) \/ Compare(c) \/ Fail(c)
        PROVE  index' = index
    BY <1>2 DEF PutStep, PutHas, PutCreate, ReadManifest, ReadConfig, CheckLayer, WriteMarker,
                WriteLayout, MakeDir, Compare, Fail
  <1>3. ASSUME NEW c \in Callers, WriteIndex(c) \/ LoseAnswer(c)
        PROVE  index' = index \/ /\ stage[c] = "index" /\ AddIndex(c)
                                 /\ UNCHANGED <<stored, markers, layout, dirs>>
    BY <1>3 DEF WriteIndex, LoseAnswer, Answer
  <1>4. ASSUME NEW C, Kill(C) PROVE index' = index
    BY <1>4 DEF Kill
  <1>5. CASE UNCHANGED storeVars
    BY <1>5 DEF storeVars
  <1> QED
    BY <1>1, <1>2, <1>3, <1>4, <1>5 DEF Next, Step, CommitStep, Fault, Return

LEMMA LeafNext ==
  ASSUME TypeOK, \A c \in Callers : Knows(c), LeafComplete, [Next]_storeVars
  PROVE  LeafComplete'
  <1>0. Grows
    BY TreeGrows
  <1>1. ASSUME NEW l \in Leaves, index[l] # None, index'[l] = index[l]
        PROVE  Whole(l, index[l])' /\ l \in layout' /\ (HasDirs => l \in dirs')
    <2>1. Whole(l, index[l]) /\ l \in layout /\ (HasDirs => l \in dirs)
      BY <1>1 DEF LeafComplete
    <2>2. Needs(index'[l]) = Needs(index[l]) /\ MarkersOf(index'[l]) = MarkersOf(index[l])
      BY <1>1
    <2> QED
      BY <1>0, <1>1, <2>1, <2>2 DEF Grows, Whole, Needs, MarkersOf
  <1>2. CASE index' = index
    BY <1>1, <1>2 DEF LeafComplete, Whole, Needs, MarkersOf
  <1>3. ASSUME NEW c \in Callers, stage[c] = "index", AddIndex(c),
               UNCHANGED <<stored, markers, layout, dirs>>
        PROVE  LeafComplete'
    <2>1. /\ Leaf(c) \in Leaves /\ Blob(c) \in Manifests \ Foreign
          /\ <<Leaf(c), Blob(c)>> \in Fits
          /\ Needs(Blob(c)) \subseteq stored /\ MarkersOf(Blob(c)) \subseteq markers
          /\ Len(DiffIdsOf[Blob(c)]) = Len(Layers[Blob(c)])
          /\ Leaf(c) \in layout /\ (HasDirs => Leaf(c) \in dirs)
      BY <1>3 DEF Knows, CallOf, Found, Written, CommitStages, AfterConfig, AfterLayers,
                  AfterMarkers
    <2>2. index'[Leaf(c)] = Blob(c) /\ \A l \in Leaves \ {Leaf(c)} : index'[l] = index[l]
      BY <1>3, <2>1 DEF AddIndex, TypeOK
    <2> SUFFICES ASSUME NEW l \in Leaves, index'[l] # None
                 PROVE  Whole(l, index[l])' /\ l \in layout' /\ (HasDirs => l \in dirs')
      BY DEF LeafComplete
    <2>3. CASE l = Leaf(c)
      <3>1. Needs(index'[l]) = Needs(Blob(c)) /\ MarkersOf(index'[l]) = MarkersOf(Blob(c))
        BY <2>2, <2>3
      <3> QED
        BY <1>3, <2>1, <2>2, <2>3, <3>1 DEF Whole, Needs, MarkersOf
    <2>4. CASE l # Leaf(c)
      BY <1>1, <2>2, <2>4
    <2> QED
      BY <2>3, <2>4
  <1> QED
    BY <1>2, <1>3, IndexChange

-----------------------------------------------------------------------------
(* The theorems.                                                            *)

LEMMA InvInit == Init => IInv
  <1> SUFFICES ASSUME Init PROVE IInv
    OBVIOUS
  <1>1. CallerInv /\ AnswersTrue
    BY DEF Init, CallerInv, AnswersTrue, AnswerTrue, CallOf, Found, Written, CommitStages,
           AfterConfig, AfterLayers, AfterMarkers
  <1>2. LeafComplete
    BY DEF Init, LeafComplete
  <1> QED
    BY <1>1, <1>2, TypeInit DEF IInv

LEMMA InvNext == IInv /\ [Next]_storeVars => IInv'
  <1> SUFFICES ASSUME IInv, [Next]_storeVars PROVE IInv'
    OBVIOUS
  <1>1. \A c \in Callers : Knows(c)
    BY DEF IInv, CallerInv, AnswersTrue, Knows
  <1>2. TypeOK'
    BY TypeNext DEF IInv
  <1>3. \A c \in Callers : Knows(c)'
    BY <1>1, KnowsNext DEF IInv
  <1>4. CallerInv' /\ AnswersTrue'
    BY <1>3 DEF CallerInv, AnswersTrue, Knows
  <1>5. LeafComplete'
    BY <1>1, LeafNext DEF IInv
  <1> QED
    BY <1>2, <1>4, <1>5 DEF IInv

\* What a caller found or wrote by its stage is there: the inductive invariant.
THEOREM Invariance == Spec => []IInv
  BY InvInit, InvNext, PTL DEF Spec

\* The variables keep their types.
THEOREM TypeCorrect == Spec => []TypeOK
  BY Invariance, PTL DEF IInv

\* A leaf with an index.json is a complete image of its platform, with every blob and diffID
\* marker in place, whoever else writes, fails or dies.
THEOREM LeavesAreComplete == Spec => []LeafComplete
  BY Invariance, PTL DEF IInv

\* Commit and PutBlob never answer nil or ErrConflict when that is not so.
THEOREM AnswersAreTrue == Spec => []AnswersTrue
  BY Invariance, PTL DEF IInv

-----------------------------------------------------------------------------
(* The refinement.                                                          *)

Claims == [c \in Callers |-> Claimed(c)]

LEMMA CatalogStart == Init => Catalog!CatalogInit
  BY DEF Init, Catalog!CatalogInit, Claimed

\* A step of c changes no claim but its own.
LEMMA ClaimMoves ==
  ASSUME TypeOK, NEW c \in Callers, Moves(c)
  PROVE  /\ Claimed(c)' = Claimed(c) => Claims' = Claims
         /\ Claims' = [Claims EXCEPT ![c] = Claimed(c)']
  <1>1. \A d \in Callers \ {c} : Claimed(d)' = Claimed(d)
    BY OthersSame DEF Same, Claimed, Leaf, Blob
  <1> QED
    BY <1>1 DEF Claims

LEMMA CatalogStep ==
  IInv /\ [Next]_storeVars => [Catalog!CatalogNext]_(Catalog!catalogVars)
  <1> SUFFICES ASSUME IInv, [Next]_storeVars
               PROVE  [Catalog!CatalogNext]_(Catalog!catalogVars)
    OBVIOUS
  <1> DEFINE Seen == Catalog!CatalogNext \/ (stored' = stored /\ index' = index /\ Claims' = Claims)
  <1>0. TypeOK /\ \A c \in Callers : Knows(c)
    BY DEF IInv, CallerInv, AnswersTrue, Knows
  <1>1. ASSUME NEW c \in Callers, NEW l, NEW b, PutBegin(c, b) \/ CommitBegin(c, l, b)
        PROVE  Seen
    <2>1. stage[c] = "idle" /\ stage'[c] # "done" /\ UNCHANGED tree
          /\ \A d \in Callers \ {c} : Same(d)
      BY <1>0, <1>1 DEF PutBegin, CommitBegin, Begin, Same, TypeOK
    <2>2. \A d \in Callers : Claimed(d)' = Claimed(d)
      BY <2>1 DEF Same, Claimed, Leaf, Blob
    <2> QED
      BY <2>1, <2>2 DEF Claims, tree
  <1>2. ASSUME NEW c \in Callers, Moves(c), stored' = stored, index' = index,
               stage[c] # "done", stage'[c] = "done" => res'[c] # "ok" \/ Leaf(c)' = None
        PROVE  Seen
    BY <1>0, <1>2, ClaimMoves DEF Claimed
  <1>3. ASSUME NEW c \in Callers, Moves(c), Blob(c) \in Blobs, stored' = stored \cup {Blob(c)},
               index' = index, stage[c] # "done",
               stage'[c] = "done" => res'[c] # "ok" \/ Leaf(c)' = None
        PROVE  Seen
    <2>1. Claims' = Claims
      BY <1>0, <1>3, ClaimMoves DEF Claimed
    <2> QED
      BY <1>3, <2>1 DEF Catalog!CatalogNext, Catalog!AddBlob, Claims
  <1>4. ASSUME NEW c \in Callers, Step(c) \/ Fault(c) PROVE Moves(c) /\ stage[c] # "done"
    BY <1>0, <1>4, StepMoves DEF Step, PutStep, PutHas, PutCreate, CommitStep, ReadManifest,
       ReadConfig, CheckLayer, WriteMarker, WriteLayout, MakeDir, WriteIndex, Compare, Fault, Fail,
       LoseAnswer, Answer, Goto, CommitStages
  <1>5. ASSUME NEW c \in Callers,
               ReadManifest(c) \/ ReadConfig(c) \/ CheckLayer(c) \/ WriteMarker(c)
                 \/ WriteLayout(c) \/ MakeDir(c) \/ Fail(c)
        PROVE  Seen
    <2>1. Moves(c) /\ stage[c] # "done"
      BY <1>4, <1>5 DEF Step, CommitStep, Fault
    <2>2. stored' = stored /\ index' = index
      BY <1>5 DEF ReadManifest, ReadConfig, CheckLayer, WriteMarker, WriteLayout, MakeDir, Fail, tree
    <2>3. stage'[c] = "done" => res'[c] # "ok"
      BY <1>0, <1>5 DEF ReadManifest, ReadConfig, CheckLayer, WriteMarker, WriteLayout, MakeDir,
         Fail, Answer, Goto, TypeOK
    <2> QED
      BY <1>2, <2>1, <2>2, <2>3
  <1>6. ASSUME NEW c \in Callers, PutHas(c) PROVE Seen
    <2>1. Moves(c) /\ stage[c] = "has" /\ stored' = stored /\ index' = index
      BY <1>4, <1>6 DEF Step, PutStep, PutHas, Answer, Goto, tree
    <2>2. Leaf(c)' = None
      BY <1>0, <2>1 DEF Knows, CallOf, Moves, Leaf
    <2> QED
      BY <1>2, <2>1, <2>2
  <1>7. ASSUME NEW c \in Callers, Moves(c), stage[c] = "create", stored' = stored \cup {Blob(c)},
               index' = index
        PROVE  Seen
    <2>1. Leaf(c)' = None /\ Blob(c) \in Blobs
      BY <1>0, <1>7 DEF Knows, CallOf, Moves, Leaf
    <2> QED
      BY <1>3, <1>7, <2>1
  <1>8. ASSUME NEW c \in Callers, PutCreate(c) PROVE Seen
    BY <1>4, <1>7, <1>8 DEF Step, PutStep, PutCreate, Answer
  \* An index.json appears: at once with its answer, or without.
  <1>9. ASSUME NEW c \in Callers, Moves(c), stage[c] = "index", AddIndex(c), stored' = stored,
               stage'[c] = "done" => res'[c] \in {"ok", "error"}
        PROVE  Seen
    <2>1. /\ Leaf(c) \in Leaves /\ Blob(c) \in Blobs /\ Complete(Blob(c), stored)
          /\ Leaf(c) # None /\ Leaf(c)' = Leaf(c) /\ Blob(c)' = Blob(c)
      BY <1>0, <1>9, StoreAssumption
         DEF Knows, CallOf, Found, CommitStages, AfterConfig, AfterLayers, Complete, Moves, Leaf,
             Blob
    <2>2. index[Leaf(c)] = None /\ index' = [index EXCEPT ![Leaf(c)] = Blob(c)]
      BY <1>9 DEF AddIndex
    <2>3. CASE stage'[c] = "done" /\ res'[c] = "ok"
      <3>1. Claims' = [Claims EXCEPT ![c] = <<Leaf(c), Blob(c)>>]
        BY <1>0, <1>9, <2>1, <2>3, ClaimMoves DEF Claimed
      <3> QED
        BY <1>9, <2>1, <2>2, <3>1
           DEF Catalog!CatalogNext, Catalog!PublishAndClaim, Catalog!CanPublish, Claims
    <2>4. CASE ~(stage'[c] = "done" /\ res'[c] = "ok")
      <3>1. Claims' = Claims
        BY <1>0, <1>9, <2>4, ClaimMoves DEF Claimed
      <3> QED
        BY <1>9, <2>1, <2>2, <3>1
           DEF Catalog!CatalogNext, Catalog!Publish, Catalog!CanPublish, Claims
    <2> QED
      BY <2>3, <2>4
  <1>10. ASSUME NEW c \in Callers, WriteIndex(c) PROVE Seen
    <2>1. /\ Moves(c) /\ stage[c] = "index" /\ stored' = stored
          /\ stage'[c] = "done" => res'[c] \in {"ok", "error"}
      BY <1>0, <1>4, <1>10 DEF Step, CommitStep, WriteIndex, Answer, Goto, TypeOK
    <2>2. CASE AddIndex(c)
      BY <1>9, <2>1, <2>2
    <2>3. CASE ~AddIndex(c)
      <3>1. index' = index /\ stage'[c] = "compare"
        BY <1>0, <1>10, <2>3 DEF WriteIndex, Goto, TypeOK
      <3> QED
        BY <1>2, <2>1, <3>1
    <2> QED
      BY <2>2, <2>3
  <1>11. ASSUME NEW c \in Callers, Compare(c) PROVE Seen
    <2>1. /\ Moves(c) /\ stage[c] = "compare" /\ stored' = stored /\ index' = index
          /\ stage'[c] = "done"
          /\ res'[c] = IF index[Leaf(c)] = Blob(c) THEN "ok" ELSE "conflict"
      BY <1>0, <1>4, <1>11 DEF Step, CommitStep, Compare, Answer, tree, TypeOK
    <2>2. /\ Leaf(c) \in Leaves /\ Leaf(c) # None /\ Blob(c) \in Blobs
          /\ Leaf(c)' = Leaf(c) /\ Blob(c)' = Blob(c)
      BY <1>0, <2>1, StoreAssumption DEF Knows, CallOf, CommitStages, Moves, Leaf, Blob
    <2>3. CASE index[Leaf(c)] = Blob(c)
      <3>1. Claims' = [Claims EXCEPT ![c] = <<Leaf(c), Blob(c)>>]
        BY <1>0, <2>1, <2>2, <2>3, ClaimMoves DEF Claimed
      <3> QED
        BY <2>1, <2>2, <2>3, <3>1 DEF Catalog!CatalogNext, Catalog!Claim, Claims
    <2>4. CASE index[Leaf(c)] # Blob(c)
      BY <1>2, <2>1, <2>4
    <2> QED
      BY <2>3, <2>4
  <1>12. ASSUME NEW c \in Callers, LoseAnswer(c) PROVE Seen
    <2>1. Moves(c) /\ stage[c] # "done" /\ stage'[c] = "done" /\ res'[c] = "error"
      BY <1>0, <1>4, <1>12 DEF Fault, LoseAnswer, Answer, TypeOK
    <2>2. \/ stage[c] = "create" /\ stored' = stored \cup {Blob(c)} /\ index' = index
          \/ stored' = stored /\ index' = index
          \/ stage[c] = "index" /\ AddIndex(c) /\ stored' = stored
      BY <1>12 DEF LoseAnswer, Answer
    <2> QED
      BY <1>2, <1>7, <1>9, <2>1, <2>2
  <1>13. ASSUME NEW C \in SUBSET Callers, Kill(C) PROVE Seen
    <2>1. Claims' = [c \in Callers |-> IF c \in C THEN None ELSE Claims[c]]
      BY <1>13 DEF Kill, Claims, Claimed, Leaf, Blob
    <2> QED
      BY <1>13, <2>1 DEF Kill, tree, Catalog!CatalogNext, Catalog!Forget, Claims
  <1>14. ASSUME UNCHANGED storeVars PROVE Seen
    BY <1>14 DEF storeVars, tree, Claims, Claimed, Leaf, Blob
  <1> HIDE DEF Seen
  <1>15. ASSUME NEW c \in Callers, Return(c) PROVE Seen
    BY <1>13, <1>15 DEF Return
  <1>16. Seen
    BY <1>1, <1>5, <1>6, <1>8, <1>10, <1>11, <1>12, <1>13, <1>14, <1>15
       DEF Next, Step, PutStep, CommitStep, Fault
  <1> QED
    BY <1>16 DEF Seen, Catalog!catalogVars, Claims

\* The store, with its files and the order it writes them in, its failures and lost answers,
\* implements ImageCatalog: blobs are only added, and a leaf is published once, complete.
THEOREM Refinement == Spec => ImplementsCatalog
  <1>1. IInv /\ [Next]_storeVars => [Catalog!CatalogNext]_(Catalog!catalogVars)
    BY CatalogStep
  <1> QED
    BY <1>1, CatalogStart, Invariance, PTL DEF Spec, ImplementsCatalog, Catalog!CatalogSpec
=============================================================================
