----------------------------- MODULE ImageCatalog -----------------------------
(***************************************************************************)
(* What package store promises of its tree, with the files, the order they *)
(* are written in and the failures left out: blobs are only added; a leaf  *)
(* is published once, for a manifest whose blobs are all there, and never  *)
(* changes; a Commit that succeeds is about what its leaf holds.           *)
(* Store.tla is the detailed specification that implements this one.       *)
(***************************************************************************)

CONSTANTS
  Callers,      \* those that call the store
  Blobs, Leaves,
  Complete(_, _),   \* Complete(m, B): the blobs B are all that an image of manifest m needs
  None

VARIABLES
  blobs,        \* the blobs in the catalog
  leaf,         \* leaf[l]: the manifest leaf l is published for, or None
  claim         \* claim[c]: the <<leaf, manifest>> c was just told is committed, or None

catalogVars == <<blobs, leaf, claim>>

CatalogInit ==
  /\ blobs = {}
  /\ leaf = [l \in Leaves |-> None]
  /\ claim = [c \in Callers |-> None]

AddBlob(b) == blobs' = blobs \cup {b} /\ UNCHANGED <<leaf, claim>>

\* Once, and only when the image is complete.
CanPublish(l, m) == leaf[l] = None /\ Complete(m, blobs)

\* The caller may die, or not get the answer, before it learns of it ...
Publish(l, m) ==
  /\ CanPublish(l, m)
  /\ leaf' = [leaf EXCEPT ![l] = m]
  /\ UNCHANGED <<blobs, claim>>

\* ... or get it at once, or ask later.
PublishAndClaim(c, l, m) ==
  /\ CanPublish(l, m)
  /\ leaf' = [leaf EXCEPT ![l] = m]
  /\ claim' = [claim EXCEPT ![c] = <<l, m>>]
  /\ UNCHANGED blobs

Claim(c, l, m) ==
  /\ leaf[l] = m
  /\ claim' = [claim EXCEPT ![c] = <<l, m>>]
  /\ UNCHANGED <<blobs, leaf>>

Forget(C) ==
  /\ claim' = [c \in Callers |-> IF c \in C THEN None ELSE claim[c]]
  /\ UNCHANGED <<blobs, leaf>>

CatalogNext ==
  \/ \E b \in Blobs : AddBlob(b)
  \/ \E l \in Leaves, m \in Blobs :
       \/ Publish(l, m)
       \/ \E c \in Callers : PublishAndClaim(c, l, m) \/ Claim(c, l, m)
  \/ \E C \in SUBSET Callers : Forget(C)

CatalogSpec == CatalogInit /\ [][CatalogNext]_catalogVars
=============================================================================
