---------------------------- MODULE StorageProofs ----------------------------
(***************************************************************************)
(* What the calls of containers-storage do to its layers, records and      *)
(* names, for every set of images (CStorage): each call keeps RecordsWhole.*)
(*                                                                         *)
(* The induction is on Whole: with a layer all layers below it are there.  *)
(* A call looks only at the parent of a layer, or at what stands directly  *)
(* on it; Whole carries that to the ends of the chain.                     *)
(***************************************************************************)
EXTENDS CStorage, TLAPS

Whole ==
  \A id \in LayerIds : layer[id] # None =>
    \A low \in LayerIds : Below(low, id) => layer[low] # None

StorageTypes ==
  /\ layer \in [LayerIds -> LayerRecord \cup {None}]
  /\ image \in [Configs -> ImageRecord \cup {None}]
  /\ name \in [Refs -> Configs \cup {None}]

StorageInv == StorageTypes /\ Whole /\ RecordsWhole

-----------------------------------------------------------------------------
(* Layer IDs.                                                               *)

Ids == Seq(DiffIds \cup {Toc})

\* Below, element by element.
LEMMA BelowIs ==
  ASSUME NEW a \in Ids, NEW b \in Ids
  PROVE  Below(a, b) <=> Len(a) <= Len(b) /\ \A i \in 1..Len(a) : a[i] = b[i]
  <1>1. Len(a) \in Nat /\ Len(b) \in Nat
    BY DEF Ids
  <1>2. ASSUME Len(a) <= Len(b)
        PROVE  SubSeq(b, 1, Len(a)) = a <=> \A i \in 1..Len(a) : a[i] = b[i]
    <2> DEFINE s == SubSeq(b, 1, Len(a))
    <2>1. s \in Ids /\ Len(s) = Len(a) /\ \A i \in 1..Len(a) : s[i] = b[i]
      BY <1>1, <1>2 DEF Ids
    <2> HIDE DEF s
    <2>2. s = a <=> \A i \in 1..Len(a) : a[i] = b[i]
      BY <2>1 DEF Ids
    <2> QED
      BY <2>2 DEF s
  <1> QED
    BY <1>2 DEF Below

LEMMA BelowTransitive ==
  ASSUME NEW a \in Ids, NEW b \in Ids, NEW c \in Ids, Below(a, b), Below(b, c)
  PROVE  Below(a, c)
  <1>1. /\ Len(a) \in Nat /\ Len(b) \in Nat /\ Len(c) \in Nat
        /\ Len(a) <= Len(b) /\ \A i \in 1..Len(a) : a[i] = b[i]
        /\ Len(b) <= Len(c) /\ \A i \in 1..Len(b) : b[i] = c[i]
    BY BelowIs DEF Ids
  <1>2. Len(a) <= Len(c) /\ \A i \in 1..Len(a) : a[i] = c[i]
    BY <1>1
  <1> QED
    BY <1>2, BelowIs

LEMMA BelowItself == ASSUME NEW a \in Ids PROVE Below(a, a)
  BY BelowIs DEF Ids

\* The first n elements.
LEMMA FirstOf ==
  ASSUME NEW a \in Ids, NEW n \in 0..Len(a)
  PROVE  /\ SubSeq(a, 1, n) \in Ids /\ Len(SubSeq(a, 1, n)) = n
         /\ \A i \in 1..n : SubSeq(a, 1, n)[i] = a[i]
         /\ Below(SubSeq(a, 1, n), a)
  <1> DEFINE s == SubSeq(a, 1, n)
  <1>1. s \in Ids /\ Len(s) = n /\ \A i \in 1..n : s[i] = a[i]
    BY DEF Ids
  <1>2. n <= Len(a)
    BY DEF Ids
  <1> HIDE DEF s
  <1>3. Below(s, a)
    BY <1>1, <1>2, BelowIs
  <1> QED
    BY <1>1, <1>3 DEF s

\* The first elements of the first elements.
LEMMA FirstOfFirst ==
  ASSUME NEW a \in Ids, NEW n \in 0..Len(a), NEW m \in 0..n
  PROVE  SubSeq(SubSeq(a, 1, n), 1, m) = SubSeq(a, 1, m)
  <1> DEFINE s == SubSeq(a, 1, n)
             t == SubSeq(s, 1, m)
             u == SubSeq(a, 1, m)
  <1>0. Len(a) \in Nat /\ n \in Nat /\ m \in Nat /\ m \in 0..Len(a)
    BY DEF Ids
  <1>1. s \in Ids /\ Len(s) = n /\ \A i \in 1..n : s[i] = a[i]
    BY FirstOf
  <1>2. u \in Ids /\ Len(u) = m /\ \A i \in 1..m : u[i] = a[i]
    BY <1>0, FirstOf
  <1> HIDE DEF s, u
  <1>3. t \in Ids /\ Len(t) = m /\ \A i \in 1..m : t[i] = s[i]
    BY <1>0, <1>1, FirstOf
  <1> HIDE DEF t
  <1>4. \A i \in 1..m : t[i] = u[i]
    BY <1>0, <1>1, <1>2, <1>3
  <1>5. t = u
    BY <1>0, <1>2, <1>3, <1>4 DEF Ids
  <1> QED
    BY <1>5 DEF s, t, u

\* The chains of a config.
LEMMA TopShape ==
  ASSUME NEW c \in Configs, NEW top \in Tops(c)
  PROVE  /\ top \in Ids /\ Len(top) \in Nat
         /\ \A i \in 1..Len(top) : i > 1 => top[i] \in DiffIds
         /\ Len(top) > 0 => top[1] \in DiffIds \/ top[1] = Toc
  <1>1. DiffIdsOf[c] \in Seq(DiffIds)
    BY CStorageAssumption
  <1>2. CASE top = DiffIdsOf[c]
    BY <1>1, <1>2 DEF Ids
  <1>3. CASE top = <<Toc>> \o DiffIdsOf[c]
    <2>1. /\ top \in Ids /\ Len(top) = 1 + Len(DiffIdsOf[c]) /\ top[1] = Toc
          /\ \A i \in 2..Len(top) : top[i] = DiffIdsOf[c][i - 1]
      BY <1>1, <1>3 DEF Ids
    <2>2. \A i \in 2..Len(top) : top[i] \in DiffIds
      <3> SUFFICES ASSUME NEW i \in 2..Len(top) PROVE DiffIdsOf[c][i - 1] \in DiffIds
        BY <2>1
      <3>1. i - 1 \in 1..Len(DiffIdsOf[c])
        BY <1>1, <2>1
      <3> QED
        BY <1>1, <3>1
    <2> QED
      BY <1>1, <2>1, <2>2
  <1> QED
    BY <1>2, <1>3 DEF Tops, Top, TocTop

LEMMA FirstOfTop ==
  ASSUME NEW c \in Configs, NEW top \in Tops(c), NEW n \in 0..Len(top)
  PROVE  SubSeq(top, 1, n) \in LayerIds \cup Bases
  <1>1. top \in Ids /\ Len(top) \in Nat
    BY TopShape
  <1>2. CASE n = 0
    <2>1. SubSeq(top, 1, n) = <<>>
      BY <1>1, <1>2 DEF Ids
    <2> QED
      BY <2>1 DEF Bases
  <1>3. CASE n > 0
    <2>1. n \in 1..Len(top)
      BY <1>1, <1>3
    <2> QED
      BY <2>1 DEF LayerIds
  <1> QED
    BY <1>1, <1>2, <1>3

LEMMA TopIsId ==
  ASSUME NEW c \in Configs, NEW top \in Tops(c)
  PROVE  top \in LayerIds \cup Bases
  <1>1. top \in Ids /\ Len(top) \in Nat
    BY TopShape
  <1>2. SubSeq(top, 1, Len(top)) = top
    BY <1>1 DEF Ids
  <1>3. SubSeq(top, 1, Len(top)) \in LayerIds \cup Bases
    BY <1>1, FirstOfTop
  <1> QED
    BY <1>2, <1>3

LEMMA IdShape ==
  ASSUME NEW id \in LayerIds
  PROVE  /\ id \in Ids /\ Len(id) \in Nat /\ Len(id) >= 1
         /\ id[Len(id)] \in DiffIds
         /\ \A n \in 0..Len(id) : SubSeq(id, 1, n) \in LayerIds \cup Bases
  <1>0. PICK c \in Configs : \E top \in Tops(c) : \E n \in 1..Len(top) : id = SubSeq(top, 1, n)
    BY DEF LayerIds
  <1>a. PICK top \in Tops(c) : \E n \in 1..Len(top) : id = SubSeq(top, 1, n)
    BY <1>0
  <1>1. PICK n \in 1..Len(top) : id = SubSeq(top, 1, n)
    BY <1>a
  <1>2. top \in Ids /\ Len(top) \in Nat
    BY TopShape
  <1>3. id \in Ids /\ Len(id) = n /\ \A i \in 1..n : id[i] = top[i]
    BY <1>1, <1>2, FirstOf
  <1>4. id # <<Toc>>
    BY DEF LayerIds, Bases
  <1>5. id[n] \in DiffIds
    <2>1. CASE n > 1
      BY <1>2, <1>3, <2>1, TopShape
    <2>2. CASE n = 1
      <3>1. id[1] # Toc
        BY <1>3, <1>4, <2>2 DEF Ids
      <3> QED
        BY <1>2, <1>3, <2>2, <3>1, TopShape
    <2> QED
      BY <1>2, <2>1, <2>2
  <1>6. ASSUME NEW m \in 0..Len(id) PROVE SubSeq(id, 1, m) \in LayerIds \cup Bases
    <2>1. SubSeq(id, 1, m) = SubSeq(top, 1, m) /\ m \in 0..Len(top)
      BY <1>1, <1>2, <1>3, FirstOfFirst
    <2> QED
      BY <2>1, FirstOfTop
  <1> QED
    BY <1>2, <1>3, <1>5, <1>6

LEMMA ParentShape ==
  ASSUME NEW id \in LayerIds
  PROVE  /\ Parent(id) \in LayerIds \cup Bases /\ Parent(id) \in Ids
         /\ Len(Parent(id)) = Len(id) - 1 /\ Below(Parent(id), id)
         /\ DiffOf(id) \in DiffIds
  <1>1. id \in Ids /\ Len(id) \in Nat /\ Len(id) >= 1 /\ Len(id) - 1 \in 0..Len(id)
    BY IdShape
  <1> QED
    BY <1>1, IdShape, FirstOf DEF Parent, DiffOf

\* No layer ID is the bottom of another that is a base.
LEMMA BelowBase ==
  ASSUME NEW base \in Bases, NEW low \in LayerIds
  PROVE  ~Below(low, base)
  <1>1. low \in Ids /\ Len(low) \in Nat /\ Len(low) >= 1 /\ low \notin Bases
    BY IdShape DEF LayerIds
  <1>2. CASE base = <<>>
    BY <1>1, <1>2 DEF Below
  <1>3. CASE base = <<Toc>>
    <2>1. ASSUME Below(low, base) PROVE FALSE
      <3>1. base \in Ids /\ Len(base) = 1 /\ base[1] = Toc
        BY <1>3 DEF Ids
      <3>2. Len(low) = 1 /\ low[1] = Toc
        <4>1. Len(low) <= 1 /\ \A i \in 1..Len(low) : low[i] = base[i]
          BY <1>1, <2>1, <3>1, BelowIs
        <4> QED
          BY <1>1, <3>1, <4>1
      <3>3. low = <<Toc>>
        BY <1>1, <3>2 DEF Ids
      <3> QED
        BY <1>1, <3>3 DEF Bases
    <2> QED
      BY <2>1
  <1> QED
    BY <1>2, <1>3 DEF Bases

\* What is below a layer is the layer, or below its parent.
LEMMA BelowParent ==
  ASSUME NEW id \in LayerIds, NEW low \in LayerIds, Below(low, id)
  PROVE  low = id \/ Below(low, Parent(id))
  <1>1. /\ id \in Ids /\ Len(id) \in Nat /\ Len(id) >= 1
        /\ low \in Ids /\ Len(low) \in Nat /\ Len(low) >= 1
        /\ Parent(id) \in Ids /\ Len(Parent(id)) = Len(id) - 1 /\ Below(Parent(id), id)
    BY IdShape, ParentShape
  <1>2. /\ Len(low) <= Len(id) /\ \A i \in 1..Len(low) : low[i] = id[i]
        /\ \A i \in 1..Len(Parent(id)) : Parent(id)[i] = id[i]
    BY <1>1, BelowIs
  <1>3. CASE Len(low) = Len(id)
    BY <1>1, <1>2, <1>3 DEF Ids
  <1>4. CASE Len(low) < Len(id)
    <2>1. /\ Len(low) <= Len(Parent(id))
          /\ \A i \in 1..Len(low) : low[i] = Parent(id)[i]
      BY <1>1, <1>2, <1>4
    <2> QED
      BY <1>1, <2>1, BelowIs
  <1> QED
    BY <1>1, <1>2, <1>3, <1>4

\* Between a layer and what is above it there is a layer that stands on it.
LEMMA StandsOn ==
  ASSUME NEW id \in LayerIds, NEW up \in LayerIds \cup Bases, Below(id, up), id # up
  PROVE  \E next \in LayerIds : Parent(next) = id /\ Below(next, up)
  <1>1. up \in LayerIds
    BY BelowBase
  <1>2. /\ id \in Ids /\ Len(id) \in Nat /\ Len(id) >= 1 /\ id \notin Bases
        /\ up \in Ids /\ Len(up) \in Nat
    BY <1>1, IdShape DEF LayerIds
  <1>3. Len(id) <= Len(up) /\ SubSeq(up, 1, Len(id)) = id
    BY DEF Below
  <1>4. Len(id) # Len(up)
    BY <1>2, <1>3 DEF Ids
  <1> DEFINE n == Len(id) + 1
             next == SubSeq(up, 1, n)
  <1>5. n \in 0..Len(up) /\ n - 1 \in 0..n /\ n > 1
    BY <1>2, <1>3, <1>4
  <1>6. next \in Ids /\ Len(next) = n /\ Below(next, up)
    BY <1>2, <1>5, FirstOf
  <1>7. next \in LayerIds
    <2>1. next \in LayerIds \cup Bases
      BY <1>1, <1>5, IdShape
    <2>2. next # <<>> /\ next # <<Toc>>
      BY <1>5, <1>6 DEF Ids
    <2> QED
      BY <2>1, <2>2 DEF Bases
  <1>8. Parent(next) = id
    <2>1. SubSeq(next, 1, n - 1) = SubSeq(up, 1, n - 1)
      BY <1>2, <1>5, FirstOfFirst
    <2> QED
      BY <1>2, <1>3, <1>6, <2>1 DEF Parent
  <1> QED
    BY <1>6, <1>7, <1>8

-----------------------------------------------------------------------------
(* The calls.                                                               *)

\* A layer that is there has all that is below it; so has a base.
LEMMA PresentWhole ==
  ASSUME Whole, NEW top \in LayerIds \cup Bases, Present(top),
         NEW low \in LayerIds, Below(low, top)
  PROVE  layer[low] # None
  BY BelowBase DEF Whole, Present

\* Records are judged by the layers that are left, and by what they were.
LEMMA RecordsKept ==
  ASSUME RecordsWhole, image' = image, name' = name,
         \A c \in Configs : image[c] # None =>
           \A id \in LayerIds : Below(id, image[c].top) => layer'[id] # None
  PROVE  RecordsWhole'
  BY DEF RecordsWhole

LEMMA NewLayerKeeps ==
  ASSUME StorageInv, NEW id \in LayerIds, NEW l \in LayerRecord, NewLayer(id, l),
         image' = image, name' = name
  PROVE  StorageInv'
  <1>1. layer' = [layer EXCEPT ![id] = l] /\ l # None
    BY RecordAssumption DEF NewLayer
  <1>2. StorageTypes'
    BY <1>1 DEF StorageInv, StorageTypes
  <1>3. \A x \in LayerIds : layer[x] # None => layer'[x] # None
    BY <1>1 DEF StorageInv, StorageTypes
  <1>4. Whole'
    <2> SUFFICES ASSUME NEW x \in LayerIds, layer'[x] # None,
                        NEW low \in LayerIds, Below(low, x)
                 PROVE  layer'[low] # None
      BY DEF Whole, Below
    <2>1. CASE x # id
      BY <1>1, <1>3, <2>1 DEF StorageInv, StorageTypes, Whole
    <2>2. CASE x = id
      <3>1. low = id \/ Below(low, Parent(id))
        BY <2>2, BelowParent
      <3>2. Below(low, Parent(id)) => layer[low] # None
        BY PresentWhole, ParentShape DEF StorageInv, NewLayer
      <3> QED
        BY <1>1, <1>3, <3>1, <3>2 DEF StorageInv, StorageTypes
    <2> QED
      BY <2>1, <2>2
  <1>5. RecordsWhole'
    BY <1>3, RecordsKept DEF StorageInv, RecordsWhole
  <1> QED
    BY <1>2, <1>4, <1>5 DEF StorageInv

\* A layer goes only when nothing is on it: so nothing is above it, and no record.
LEMMA UnusedIsTop ==
  ASSUME StorageInv, NEW id \in LayerIds, ~InUse(id)
  PROVE  /\ \A up \in LayerIds : layer[up] # None /\ Below(id, up) => up = id
         /\ \A c \in Configs : image[c] # None => ~Below(id, image[c].top)
  <1>1. ASSUME NEW up \in LayerIds, layer[up] # None, Below(id, up), up # id PROVE FALSE
    <2>1. PICK next \in LayerIds : Parent(next) = id /\ Below(next, up)
      BY <1>1, StandsOn
    <2>2. layer[next] # None
      BY <1>1, <2>1 DEF StorageInv, Whole
    <2> QED
      BY <2>1, <2>2 DEF InUse
  <1>2. ASSUME NEW c \in Configs, image[c] # None, Below(id, image[c].top) PROVE FALSE
    <2>1. /\ image[c].top \in LayerIds \cup Bases
          /\ \A x \in LayerIds : Below(x, image[c].top) => layer[x] # None
      BY <1>2, TopIsId DEF StorageInv, RecordsWhole
    <2>2. image[c].top # id
      BY <1>2 DEF InUse
    <2>3. PICK next \in LayerIds : Parent(next) = id /\ Below(next, image[c].top)
      BY <1>2, <2>1, <2>2, StandsOn
    <2> QED
      BY <2>1, <2>3 DEF InUse
  <1> QED
    BY <1>1, <1>2

LEMMA DeleteLayerKeeps ==
  ASSUME StorageInv, NEW id \in LayerIds, DeleteLayer(id), image' = image, name' = name
  PROVE  StorageInv'
  <1>1. CASE InUse(id)
    BY <1>1, RecordsKept DEF DeleteLayer, StorageInv, StorageTypes, Whole, Below, RecordsWhole
  <1>2. CASE ~InUse(id)
    <2>1. layer' = [layer EXCEPT ![id] = None]
      BY <1>2 DEF DeleteLayer
    <2>2. StorageTypes'
      BY <2>1 DEF StorageInv, StorageTypes
    <2>3. /\ layer'[id] = None
          /\ \A x \in LayerIds \ {id} : layer'[x] = layer[x]
      BY <2>1 DEF StorageInv, StorageTypes
    <2>4. Whole'
      <3> SUFFICES ASSUME NEW x \in LayerIds, layer'[x] # None,
                          NEW low \in LayerIds, Below(low, x)
                   PROVE  layer'[low] # None
        BY DEF Whole, Below
      <3>1. layer[x] # None /\ x # id
        BY <2>3
      <3>2. low # id
        BY <1>2, <3>1, UnusedIsTop
      <3> QED
        BY <2>3, <3>1, <3>2 DEF StorageInv, Whole
    <2>5. \A c \in Configs : image[c] # None =>
            \A x \in LayerIds : Below(x, image[c].top) => layer'[x] # None
      BY <1>2, <2>3, UnusedIsTop DEF StorageInv, RecordsWhole
    <2>6. RecordsWhole'
      BY <2>5, RecordsKept DEF StorageInv
    <2> QED
      BY <2>2, <2>4, <2>6 DEF StorageInv
  <1> QED
    BY <1>1, <1>2

LEMMA NewRecordKeeps ==
  ASSUME StorageInv, NEW c \in Configs, NEW top \in Tops(c), NEW m \in Manifest, m.config = c,
         NewRecord(c, top, m), layer' = layer, name' = name
  PROVE  StorageInv'
  <1> DEFINE new == [top |-> top, manifests |-> {m}, default |-> m]
  <1>1. new \in ImageRecord /\ new # None /\ new.top = top /\ new.default = m
    BY TopIsId, RecordAssumption DEF ImageRecord
  <1>2. image' = [image EXCEPT ![c] = new]
    BY DEF NewRecord
  <1> HIDE DEF new
  <1>3. StorageTypes'
    BY <1>1, <1>2 DEF StorageInv, StorageTypes
  <1>4. Whole'
    BY DEF StorageInv, Whole, Below
  <1>5. /\ image'[c] = new
        /\ \A d \in Configs \ {c} : image'[d] = image[d]
    BY <1>2 DEF StorageInv, StorageTypes
  <1>6. \A id \in LayerIds : Below(id, top) => layer[id] # None
    BY TopIsId, PresentWhole DEF StorageInv, NewRecord
  <1>7. RecordsWhole'
    <2> SUFFICES /\ \A d \in Configs : image'[d] # None =>
                      /\ image'[d].top \in Tops(d)
                      /\ \A id \in LayerIds : Below(id, image'[d].top) => layer[id] # None
                      /\ image'[d].default.config = d
                 /\ \A r \in Refs : name[r] # None => image'[name[r]] # None
      BY DEF RecordsWhole, Below, Tops, Top, TocTop
    <2>1. \A d \in Configs \ {c} : image'[d] # None =>
                      /\ image'[d].top \in Tops(d)
                      /\ \A id \in LayerIds : Below(id, image'[d].top) => layer[id] # None
                      /\ image'[d].default.config = d
      BY <1>5 DEF StorageInv, RecordsWhole
    <2>2. \A r \in Refs : name[r] # None => image'[name[r]] # None
      BY <1>1, <1>5 DEF StorageInv, StorageTypes, RecordsWhole
    <2> QED
      BY <1>1, <1>5, <1>6, <2>1, <2>2
  <1> QED
    BY <1>3, <1>4, <1>7 DEF StorageInv

\* A record gets another manifest.
LEMMA UpdateKeeps ==
  ASSUME StorageInv, NEW c \in Configs, image[c] # None, NEW m \in Manifest, m.config = c,
         \/ image' = image
         \/ image' = [image EXCEPT ![c].manifests = @ \cup {m}]
         \/ image' = [image EXCEPT ![c].default = m],
         layer' = layer, name' = name
  PROVE  StorageInv'
  <1>0. image[c] \in ImageRecord
    BY DEF StorageInv, StorageTypes
  <1> DEFINE new == image'[c]
  <1>1. /\ new \in ImageRecord /\ new.top = image[c].top
        /\ new.default = image[c].default \/ new.default = m
        /\ image' = [image EXCEPT ![c] = new]
    BY <1>0 DEF ImageRecord, StorageInv, StorageTypes
  <1> HIDE DEF new
  <1>2. new # None
    BY <1>1, RecordAssumption
  <1>3. StorageTypes'
    BY <1>1 DEF StorageInv, StorageTypes
  <1>4. Whole'
    BY DEF StorageInv, Whole, Below
  <1>5. /\ image'[c] = new
        /\ \A d \in Configs \ {c} : image'[d] = image[d]
    BY <1>1 DEF StorageInv, StorageTypes
  <1>7. RecordsWhole'
    <2> SUFFICES /\ \A d \in Configs : image'[d] # None =>
                      /\ image'[d].top \in Tops(d)
                      /\ \A id \in LayerIds : Below(id, image'[d].top) => layer[id] # None
                      /\ image'[d].default.config = d
                 /\ \A r \in Refs : name[r] # None => image'[name[r]] # None
      BY DEF RecordsWhole, Below, Tops, Top, TocTop
    <2>1. \A d \in Configs : image'[d] # None =>
                      /\ image'[d].top \in Tops(d)
                      /\ \A id \in LayerIds : Below(id, image'[d].top) => layer[id] # None
                      /\ image'[d].default.config = d
      BY <1>1, <1>5 DEF StorageInv, RecordsWhole
    <2>2. \A r \in Refs : name[r] # None => image'[name[r]] # None
      BY <1>2, <1>5 DEF StorageInv, StorageTypes, RecordsWhole
    <2> QED
      BY <2>1, <2>2
  <1> QED
    BY <1>3, <1>4, <1>7 DEF StorageInv

LEMMA AddNameKeeps ==
  ASSUME StorageInv, NEW c \in Configs, NEW r \in Refs, AddName(c, r),
         layer' = layer, image' = image
  PROVE  StorageInv'
  <1>1. StorageTypes' /\ Whole'
    BY DEF StorageInv, StorageTypes, Whole, Below, AddName
  <1>2. RecordsWhole'
    BY DEF StorageInv, StorageTypes, RecordsWhole, AddName, Below, Tops, Top, TocTop
  <1> QED
    BY <1>1, <1>2 DEF StorageInv

\* The layers that podman rmi leaves are closed downwards, and under each other record.
LEMMA RemoveKeeps ==
  ASSUME StorageInv, NEW c \in Configs, PodmanRemove(c)
  PROVE  StorageInv'
  <1> DEFINE top == image[c].top
             Stays(id) == \/ ~Below(id, top)
                          \/ \E up \in LayerIds : layer[up] # None /\ Below(id, up) /\ ~Below(up, top)
                          \/ \E d \in Configs \ {c} : image[d] # None /\ Below(id, image[d].top)
  <1>1. /\ layer' = [id \in LayerIds |-> IF Stays(id) THEN layer[id] ELSE None]
        /\ image' = [image EXCEPT ![c] = None]
        /\ name' = [r \in Refs |-> IF name[r] = c THEN None ELSE name[r]]
    BY DEF PodmanRemove
  <1>2. \A d \in Configs : image[d] # None => image[d].top \in Ids
    BY TopShape DEF StorageInv, RecordsWhole
  <1>3. ASSUME NEW x \in LayerIds, NEW low \in LayerIds, Below(low, x), Stays(x), layer[x] # None
        PROVE  Stays(low)
    <2>0. x \in Ids /\ low \in Ids
      BY IdShape
    <2>1. CASE ~Below(x, top)
      BY <1>3, <2>1
    <2>2. ASSUME NEW up \in LayerIds, layer[up] # None, Below(x, up), ~Below(up, top)
          PROVE  Stays(low)
      <3>1. Below(low, up)
        BY <1>3, <2>0, <2>2, IdShape, BelowTransitive
      <3> QED
        BY <2>2, <3>1
    <2>3. ASSUME NEW d \in Configs \ {c}, image[d] # None, Below(x, image[d].top)
          PROVE  Stays(low)
      <3>1. Below(low, image[d].top)
        BY <1>2, <1>3, <2>0, <2>3, BelowTransitive
      <3> QED
        BY <2>3, <3>1
    <2> QED
      BY <1>3, <2>1, <2>2, <2>3
  <1>4. \A d \in Configs \ {c}, id \in LayerIds : image[d] # None /\ Below(id, image[d].top) => Stays(id)
    OBVIOUS
  <1> HIDE DEF Stays
  <1>5. StorageTypes'
    BY <1>1 DEF StorageInv, StorageTypes
  <1>6. Whole'
    <2> SUFFICES ASSUME NEW x \in LayerIds, layer'[x] # None,
                        NEW low \in LayerIds, Below(low, x)
                 PROVE  layer'[low] # None
      BY DEF Whole, Below
    <2>1. Stays(x) /\ layer[x] # None
      BY <1>1
    <2>2. layer[low] # None /\ Stays(low)
      BY <1>3, <2>1 DEF StorageInv, Whole
    <2> QED
      BY <1>1, <2>2
  <1>7. RecordsWhole'
    <2> SUFFICES /\ \A d \in Configs : image'[d] # None =>
                      /\ image'[d].top \in Tops(d)
                      /\ \A id \in LayerIds : Below(id, image'[d].top) => layer'[id] # None
                      /\ image'[d].default.config = d
                 /\ \A r \in Refs : name'[r] # None => image'[name'[r]] # None
      BY DEF RecordsWhole, Below, Tops, Top, TocTop
    <2>1. ASSUME NEW d \in Configs, image'[d] # None
          PROVE  /\ d # c /\ image'[d] = image[d] /\ image[d] # None
      BY <1>1, <2>1 DEF StorageInv, StorageTypes
    <2>2. \A d \in Configs : image'[d] # None =>
            /\ image'[d].top \in Tops(d)
            /\ \A id \in LayerIds : Below(id, image'[d].top) => layer'[id] # None
            /\ image'[d].default.config = d
      BY <1>1, <1>4, <2>1 DEF StorageInv, RecordsWhole
    <2>3. \A r \in Refs : name'[r] # None => image'[name'[r]] # None
      BY <1>1 DEF StorageInv, StorageTypes, RecordsWhole
    <2> QED
      BY <2>2, <2>3
  <1> QED
    BY <1>5, <1>6, <1>7 DEF StorageInv

LEMMA StorageSame ==
  ASSUME StorageInv, UNCHANGED storageVars
  PROVE  StorageInv'
  BY DEF storageVars, StorageInv, StorageTypes, Whole, RecordsWhole, Below, Tops, Top, TocTop

LEMMA StorageStart == MachineInit => StorageInv
  BY DEF MachineInit, StorageInv, StorageTypes, Whole, RecordsWhole
=============================================================================
