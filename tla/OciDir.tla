-------------------------------- MODULE OciDir --------------------------------
(***************************************************************************)
(* The readers of an OCI image layout: the blobs and the images in it      *)
(* (ocidir/helper.go), and the source that resolves a reference in it      *)
(* (transfer/ocidir.go), while another tool is still writing its blobs.    *)
(***************************************************************************)
EXTENDS Naturals, Sequences, FiniteSets, SequencesExt

CONSTANTS
  Layouts,      \* each a function from "index.json" and digests to contents
  Type,         \* Type[d]: what d is described as: "index" (and index.json), "manifest", "other"
  Depth,        \* Depth[d]: how many indexes, one in the other, are under d
  AsRef,        \* AsRef[a]: the repository and tag that annotation a parses to
  Queries,      \* calls: [op, names], [op, digests] or [op, ref, platform]
  Nil

(* Contents: of an index, and of index.json, a sequence of descriptors [digest, name, platform],    *)
(* name and platform Nil when absent; of a manifest, [layers, config]; of a config, a platform     *)
(* <<os/arch, variant>>, variant Nil when absent.  A digest names its content, so no index is      *)
(* under itself.                                                                                   *)

Top == "index.json"

ASSUME LayoutsAssumption ==
  /\ \A l \in Layouts :
       /\ Top \in DOMAIN l /\ Nil \notin DOMAIN l /\ Type[Top] = "index"
       /\ \A d \in DOMAIN l :
            /\ Type[d] \in {"index", "manifest", "other"} /\ Depth[d] \in Nat
            /\ (Type[d] = "index" =>
                  /\ l[d] \in Seq(ToSet(l[d]))
                  /\ \A c \in ToSet(l[d]) : c.digest \in DOMAIN l \ {Top} /\ Depth[c.digest] < Depth[d])
            /\ Type[d] = "manifest" =>
                 LET others == {f \in DOMAIN l : Type[f] = "other"}
                 IN  l[d].layers \in Seq(others) /\ l[d].config \in others
  /\ Nil \notin Queries
  /\ \A q \in Queries :
       /\ q.op \in {"names", "digests", "images", "resolve"}
       /\ (q.op = "names" => q.names \in Seq(ToSet(q.names)))
       /\ (q.op = "digests" => q.digests \in Seq(ToSet(q.digests)))

VARIABLES
  layout,       \* the layout as it will be
  there,        \* the names that are in the directory
  query,        \* the call, or Nil
  ordered,      \* blobsFrom: what is to be yielded
  yielded,      \* what was, as [digest, ok]
  reply         \* what the call returned: [kind, value]

ociVars == <<layout, there, query, ordered, yielded, reply>>

NoReply == [kind |-> "none", value |-> Nil]
Reply(k, v) == [kind |-> k, value |-> v]

Files == DOMAIN layout
IsIndex(d) == Type[d] = "index"
Indexes == {f \in Files : IsIndex(f)}

\* What comes in s, each at its first place.
Unique(s) ==
  LET Seen[n \in 0..Len(s)] ==
        IF n = 0 THEN <<>>
        ELSE IF Contains(Seen[n - 1], s[n]) THEN Seen[n - 1] ELSE Append(Seen[n - 1], s[n])
  IN  Seen[Len(s)]

\* Mutant: parents come before their children.
ParentFirst(children, d) == <<d>> \o children

WithParent(children, d) == children \o <<d>>

\* walkBlobs, which stops at an index or a manifest that it cannot read: Nil.
WalkBlobs(d) ==
  LET Walk[e \in Files] ==
        IF Type[e] = "other" THEN <<e>>
        ELSE IF e \notin there THEN <<Nil>>
        ELSE WithParent(IF IsIndex(e)
                        THEN FlattenSeq([i \in DOMAIN layout[e] |-> Walk[layout[e][i].digest]])
                        ELSE layout[e].layers \o <<layout[e].config>>, e)
  IN  Walk[d]

\* walkManifests: the manifests under d; Nil for an index or a manifest that cannot be read.
WalkManifests(d) ==
  LET Walk[e \in Files] ==
        IF Type[e] = "other" THEN <<>>
        ELSE IF e \notin there THEN <<Nil>>
        ELSE IF IsIndex(e) THEN FlattenSeq([i \in DOMAIN layout[e] |-> Walk[layout[e][i].digest]])
        ELSE <<e>>
  IN  Walk[d]

\* collectDescriptors: all that is described under index.json, Nil when an index cannot be read.
Known ==
  LET Under[e \in Files] ==
        IF ~IsIndex(e) THEN {}
        ELSE IF e \notin there THEN {Nil}
        ELSE UNION {{c.digest} \cup Under[c.digest] : c \in ToSet(layout[e])}
  IN  Under[Top]

OciInit ==
  /\ layout \in Layouts
  /\ there \in SUBSET DOMAIN layout
  /\ query = Nil
  /\ ordered = <<>> /\ yielded = <<>>
  /\ reply = NoReply

\* The other tool; what it does after an answer is seen by the next call.
Arrive ==
  /\ reply = NoReply
  /\ \E d \in Files \ there : there' = there \cup {d}
  /\ UNCHANGED <<layout, query, ordered, yielded, reply>>

Begin(op) ==
  /\ query = Nil
  /\ query' \in {q \in Queries : q.op = op}
  /\ UNCHANGED <<layout, there, yielded>>

-----------------------------------------------------------------------------
(* AllBlobsFromNames, AllBlobsFromDigests, AllImages.                       *)

\* blobsFrom: nothing is yielded unless everything can be walked.
BlobsFrom(roots) ==
  LET all == FlattenSeq([i \in DOMAIN roots |-> WalkBlobs(roots[i])])
  IN  /\ ordered' = IF Contains(all, Nil) THEN <<>> ELSE Unique(all)
      /\ reply' = IF Contains(all, Nil) THEN Reply("error", Nil)
                  ELSE IF all = <<>> THEN Reply("blobs", Nil) ELSE reply

Refuse(k) == reply' = Reply(k, Nil) /\ UNCHANGED ordered

Listed == [i \in DOMAIN layout[Top] |-> layout[Top][i].digest]
FirstNamed(name) == SelectInSeq(layout[Top], LAMBDA c : c.name = name)

BlobsFromNames ==
  /\ Begin("names")
  /\ LET ns == query'.names
     IN  IF Top \notin there THEN Refuse("error")
         ELSE IF \E i \in DOMAIN ns : FirstNamed(ns[i]) = 0 THEN Refuse("notexist")
         ELSE BlobsFrom(IF ns = <<>> THEN Listed
                        ELSE [i \in DOMAIN ns |-> Listed[FirstNamed(ns[i])]])

BlobsFromDigests ==
  /\ Begin("digests")
  /\ LET ds == query'.digests
     IN  IF Top \notin there \/ (ds # <<>> /\ Nil \in Known) THEN Refuse("error")
         ELSE IF ~(ToSet(ds) \subseteq Known) THEN Refuse("notexist")
         ELSE BlobsFrom(IF ds = <<>> THEN Listed ELSE ds)

\* The consumer goes on, or leaves.
YieldBlob ==
  /\ ordered # <<>> /\ reply = NoReply
  /\ yielded' = Append(yielded, [digest |-> Head(ordered), ok |-> Head(ordered) \in there])
  /\ ordered' = Tail(ordered)
  /\ reply' \in {Reply("left", Nil), IF ordered' = <<>> THEN Reply("blobs", Nil) ELSE NoReply}
  /\ UNCHANGED <<layout, there, query>>

\* The images under an entry of index.json; one without a name is passed over.
ImagesNamed(c) ==
  IF c.name = Nil THEN <<>>
  ELSE [i \in DOMAIN WalkManifests(c.digest) |-> <<c.name, WalkManifests(c.digest)[i]>>]

AllImages ==
  /\ Begin("images")
  /\ LET all == FlattenSeq([i \in DOMAIN layout[Top] |-> ImagesNamed(layout[Top][i])])
         read(x) == x[2] # Nil /\ layout[x[2]].config \in there
     IN  IF Top \in there /\ \A i \in DOMAIN all : read(all[i])
         THEN reply' = Reply("images", [i \in DOMAIN all |-> <<all[i][1], layout[layout[all[i][2]].config]>>])
         ELSE reply' = Reply("error", Nil)
  /\ UNCHANGED ordered

-----------------------------------------------------------------------------
(* FromOciDir: Resolve.                                                     *)

NameMatches(a, r) == a # Nil /\ (a = r.tag \/ AsRef[a] = <<r.repo, r.tag>>)

\* Mutant: nested indexes are not looked into.
SearchTop(dgst) ==
  IF \E c \in ToSet(layout[Top]) : c.digest = dgst THEN "found" ELSE "notexist"

\* find for a digest: "error" for an index that cannot be read, which only the top level reports.
Search(dgst) ==
  LET Look[e \in Indexes] ==
        LET c == layout[e]
            hit(i) == \/ c[i].digest = dgst
                      \/ IsIndex(c[i].digest) /\ c[i].digest \in there /\ Look[c[i].digest] = "found"
            unreadable(i) == IsIndex(c[i].digest) /\ c[i].digest \notin there
            ends == {i \in DOMAIN c : hit(i) \/ unreadable(i)}
        IN  IF ends = {} THEN "notexist"
            ELSE IF hit(CHOOSE i \in ends : \A j \in ends : i <= j) THEN "found" ELSE "error"
  IN  Look[Top]

\* Platform.Matches.
Matches(p, o) == p[1] = o[1] /\ (Nil \in {p[2], o[2]} \/ p[2] = o[2])

OneMatch(c, fit) ==
  CASE Cardinality(fit) = 0 -> Reply("notexist", Nil)
    [] Cardinality(fit) = 1 -> Reply("manifest", c[CHOOSE i \in fit : TRUE].digest)
    [] OTHER -> Reply("ambiguous", Nil)

\* selectPlatform: children without a platform, and nested indexes, are passed over.
SelectPlatform(d, p) ==
  IF d \notin there THEN Reply("error", Nil)
  ELSE IF IsIndex(d)
  THEN LET c == layout[d]
       IN  OneMatch(c, {i \in DOMAIN c : c[i].platform # Nil /\ ~IsIndex(c[i].digest)
                                             /\ Matches(p, c[i].platform)})
  ELSE IF Type[d] # "manifest" \/ layout[d].config \notin there THEN Reply("error", Nil)
  ELSE IF Matches(p, layout[layout[d].config]) THEN Reply("manifest", d)
  ELSE Reply("notexist", Nil)

Resolve ==
  /\ Begin("resolve")
  /\ LET r == query'.ref
         i == SelectInSeq(layout[Top], LAMBDA c : NameMatches(c.name, r))
         found == IF r.digest # Nil THEN Search(r.digest) ELSE IF i = 0 THEN "notexist" ELSE "found"
         d == IF r.digest # Nil THEN r.digest ELSE Listed[i]
     IN  reply' = IF Top \notin there THEN Reply("error", Nil)
                  ELSE IF found # "found" THEN Reply(found, Nil)
                  ELSE SelectPlatform(d, query'.platform)
  /\ UNCHANGED ordered

Return ==
  /\ reply # NoReply
  /\ query' = Nil /\ reply' = NoReply /\ ordered' = <<>> /\ yielded' = <<>>
  /\ UNCHANGED <<layout, there>>

OciNext ==
  \/ BlobsFromNames \/ BlobsFromDigests \/ YieldBlob \/ AllImages \/ Resolve \/ Return \/ Arrive

OciSpec == OciInit /\ [][OciNext]_ociVars

-----------------------------------------------------------------------------
(* Properties.                                                              *)

OciTypeOK ==
  /\ layout \in Layouts
  /\ there \subseteq Files
  /\ query \in Queries \cup {Nil}
  /\ ordered \in Seq(Files)
  /\ yielded \in Seq([digest : Files, ok : BOOLEAN])
  /\ reply.kind \in {"none", "blobs", "left", "images", "manifest", "notexist", "ambiguous", "error"}

\* What a blob refers to.
Deps(d) == CASE Type[d] = "index" -> {c.digest : c \in ToSet(layout[d])}
             [] Type[d] = "manifest" -> ToSet(layout[d].layers) \cup {layout[d].config}
             [] OTHER -> {}

\* The roots that the call asked for; of two entries with one name, the first.
Asks(d) ==
  CASE query.op = "digests" /\ query.digests # <<>> -> Contains(query.digests, d)
    [] query.op = "names" /\ query.names # <<>> ->
         \E i \in DOMAIN layout[Top] :
           LET c == layout[Top][i]
           IN  /\ c.digest = d /\ Contains(query.names, c.name)
               /\ \A j \in 1..(i - 1) : layout[Top][j].name # c.name
    [] OTHER -> Contains(Listed, d)

\* "Blobs are yielded once each, dependencies first" (helper.go:114): whoever writes the blobs as they
\* come never has one that refers to a blob that is still to come, even when the reader is left
\* halfway; at the end there is every blob that the images depend on, and no other.
BlobsInOrder ==
  LET out == [i \in DOMAIN yielded |-> yielded[i].digest]
      all == ToSet(out \o ordered)
  IN  /\ IsInjective(out \o ordered)
      /\ \A i \in DOMAIN out : Deps(out[i]) \subseteq ToSet(SubSeq(out, 1, i - 1))
      /\ \A d \in all : Asks(d) \/ \E e \in all : d \in Deps(e)
      /\ reply.kind = "blobs" => \A d \in Files : Asks(d) => d \in all

\* What makes BlobsInOrder inductive: it is said of all that a call decided to yield, of which only
\* the first part was yielded; and between two calls there is nothing of that.
Whole == [i \in DOMAIN yielded |-> yielded[i].digest] \o ordered
Follows(s) == \A i \in 1..Len(s) : Deps(s[i]) \subseteq {s[j] : j \in 1..(i - 1)}
Rooted(s) == \A x \in ToSet(s) : Asks(x) \/ \E y \in ToSet(s) : x \in Deps(y)
WholeInv ==
  /\ OciTypeOK
  /\ IsInjective(Whole) /\ Follows(Whole) /\ Rooted(Whole)
  /\ Whole # <<>> \/ reply.kind = "blobs" => \A d \in Files : Asks(d) => d \in ToSet(Whole)
  /\ query = Nil => Whole = <<>> /\ reply = NoReply

\* The images directly under an index entry, as find chooses it, and their platforms.
ImagesOf(d) ==
  IF IsIndex(d)
  THEN {c.digest : c \in {c \in ToSet(layout[d]) : c.platform # Nil /\ ~IsIndex(c.digest)}} ELSE {d}
PlatformOf(m) == layout[layout[m].config]

\* The indexes under index.json, itself included: those in every set that has it and what is in it.
Closed(S) == Top \in S /\ \A e \in S : Deps(e) \cap Indexes \subseteq S
Reached(e) == \A S \in SUBSET Indexes : Closed(S) => e \in S

\* The entry that a reference names; of two that match it, the first.
Named(d) ==
  IF query.ref.digest # Nil
  THEN d = query.ref.digest /\ \E e \in Indexes : Reached(e) /\ d \in Deps(e)
  ELSE \E i \in DOMAIN layout[Top] :
         /\ layout[Top][i].digest = d /\ NameMatches(layout[Top][i].name, query.ref)
         /\ \A j \in 1..(i - 1) : ~NameMatches(layout[Top][j].name, query.ref)

\* What makes a platform in an index worth anything: an index describes indexes and manifests, and
\* where it gives a platform, the one in the config, once per manifest.
Described ==
  \A l \in Layouts : \A d \in DOMAIN l : Type[d] = "index" =>
    /\ \A c \in ToSet(l[d]) :
         /\ Type[c.digest] # "other"
         /\ Type[c.digest] = "manifest" /\ c.platform # Nil => c.platform = l[l[c.digest].config]
    /\ \A i, j \in DOMAIN l[d] :
         l[d][i].digest = l[d][j].digest /\ Nil \notin {l[d][i].platform, l[d][j].platform} => i = j

\* Of the indexes that are not in index.json itself, one that is nested in another has not arrived.
HalfNested == \E e \in Indexes \ there : Reached(e) /\ e \notin Deps(Top)

\* FromOciDir (ocidir.go:18) hands out the one image of the entry named that runs on the platform:
\* none that another image matches as well, and "not found" only when there is none.  Of tags, and of
\* digests that index.json itself describes, this holds whatever of the layout has arrived.  "A digest
\* entry matches a descriptor at the top level or inside nested indexes" (ocidir.go:23) does not: while
\* an index nested in another has not arrived, find drops that error (ocidir.go:79) and with it what the
\* other lists behind, which is there and yet "not found".  AllImages (helper.go:36) tells of every image
\* under a name, and of no other.
AnswersRight ==
  /\ query # Nil /\ query.op = "resolve" =>
       LET fits(m) == Matches(query.platform, PlatformOf(m))
           named == {d \in Files : Named(d)}
       IN  /\ reply.kind = "manifest" =>
                \E d \in named : {m \in ImagesOf(d) : fits(m)} = {reply.value}
           /\ reply.kind = "notexist" =>
                \A d \in named : (\E m \in ImagesOf(d) : fits(m)) =>
                  query.ref.digest # Nil /\ d \notin Deps(Top) /\ HalfNested
           /\ reply.kind = "ambiguous" =>
                \E d \in named : Cardinality({m \in ImagesOf(d) : fits(m)}) > 1
           /\ reply.kind = "error" => there # Files
  /\ reply.kind = "images" =>
       ToSet(reply.value) =
         UNION {{<<c.name, PlatformOf(m)>> : m \in {m \in ToSet(WalkBlobs(c.digest)) : Type[m] = "manifest"}} :
                  c \in {c \in ToSet(layout[Top]) : c.name # Nil}}
=============================================================================
