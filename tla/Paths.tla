-------------------------------- MODULE Paths --------------------------------
(***************************************************************************)
(* The names of the store's tree (store.go), as sequences of segments, and *)
(* how Walk and DiffIDBlobs read them back.                                *)
(***************************************************************************)
EXTENDS Sequences, SequencesExt

CONSTANTS
  Segments,     \* strings without a "/"
  Images,       \* [ref, platform]; a ref is [repo, tag, digest], repo a sequence of segments
  Digests,      \* pairs <<algorithm, hex>> that are valid digests
  DiffIds,
  None          \* no tag, no digest, no file

\* What a leaf is keyed by: "a ref with a digest uses the digest".
Key(r) == IF r.digest = None THEN r ELSE [r EXCEPT !.tag = None]

Markers == {"_tag", "_digest"}

\* "Repository components start with [a-z0-9]" (store.go:408); ParsePlatform: os/arch[/variant].
ASSUME PathAssumption ==
  /\ Markers \cup {"image_refs", "oci-layout", "index.json", "diff_ids"} \subseteq Segments
  /\ None \notin Segments \cup Digests
  /\ Digests \cup DiffIds \subseteq Segments \X Segments
  /\ \A im \in Images :
       /\ im.ref \in [repo : Seq(Segments \ Markers), tag : Segments \cup {None},
                     digest : Digests \cup {None}]
       /\ im.ref.repo # <<>>
       /\ im.ref.digest = None => im.ref.tag # None
       /\ im.platform \in Seq(Segments) /\ Len(im.platform) \in {2, 3}
       /\ None # <<Key(im.ref), im.platform>>

\* Platform.String: os/arch[/variant], a sequence here.
LeafPath(im) ==
  <<"image_refs">> \o im.ref.repo
    \o (IF im.ref.digest = None THEN <<"_tag", im.ref.tag>> ELSE <<"_digest">> \o im.ref.digest)
    \o im.platform
LayoutPath(im) == LeafPath(im) \o <<"oci-layout">>
IndexPath(im) == LeafPath(im) \o <<"index.json">>
DiffIdPath(d, b) == <<"diff_ids">> \o d \o b

Tail2(s, n) == SubSeq(s, n, Len(s))

\* The position of the first _tag or _digest, 0 when there is none.
MarkerAt(segs) == SelectInSeq(segs, LAMBDA s : s \in Markers)

\* parseLeaf: the key and the platform of a leaf, or None for a directory that is none.
Parsed(segs, i) ==
  LET repo == SubSeq(segs, 1, i - 1)
      alg == SubSeq(segs, i + 1, i + 2)
  IN  IF segs[i] = "_tag"
      THEN <<[repo |-> repo, tag |-> segs[i + 1], digest |-> None], Tail2(segs, i + 2)>>
      ELSE <<[repo |-> repo, tag |-> None, digest |-> alg], Tail2(segs, i + 3)>>

ParseLeaf(leaf) ==
  LET segs == Tail(leaf)
      i == MarkerAt(segs)
  IN  IF \/ Head(leaf) # "image_refs"
         \/ i < 2
         \/ Len(segs) < i + (IF segs[i] = "_tag" THEN 1 ELSE 2)
         \/ segs[i] = "_digest" /\ SubSeq(segs, i + 1, i + 2) \notin Digests
         \/ Len(Parsed(segs, i)[2]) \notin {2, 3}
      THEN None ELSE Parsed(segs, i)

\* Walk: the leaves among the names listed, by their index.json.
Walked(names) ==
  {ParseLeaf(Front(n)) : n \in {n \in names : n[1] = "image_refs" /\ Last(n) = "index.json"}}
    \ {None}

\* DiffIDBlobs: the blobs recorded for d.
DiffIdBlobs(d, names) ==
  {Tail2(n, Len(d) + 2) : n \in {n \in names : IsPrefix(<<"diff_ids">> \o d, n)}} \cap Digests
=============================================================================
