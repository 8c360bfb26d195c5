------------------------------ MODULE MCService ------------------------------
(* Instances of Copy, FsDir and OciDir for TLC.  They share no state: a scenario runs one of them. *)
EXTENDS Copy, FsDir, OciDir, TLC

CONSTANTS
  a, b, p, q, w1, w2, i1, i2, i3,
  ix, iz, ma, mb, mc, la, lb, ca, cb, cc

-----------------------------------------------------------------------------
(* Copy: every pair of locations that matters, two images and two platforms.                       *)

CS == "containers-storage"
Ways == {<<CS, "file">>, <<CS, "s3">>, <<CS, "http">>, <<"file", CS>>, <<"http", CS>>,
         <<"s3", "file">>, <<CS, CS>>}
Sets == {<<a>>, <<a, b>>, <<b, a, b>>, <<a, Bad>>, <<>>}

Request(way, images, platforms, dry, output, valid, cached) ==
  [src |-> way[1], dst |-> way[2], images |-> images, platforms |-> platforms, dryRun |-> dry,
   output |-> output, valid |-> valid, cached |-> cached]
ToDir(platforms, valid, cached) ==
  Request(<<CS, "file">>, <<a>>, platforms, FALSE, "text", valid, cached)
Good ==
  {Request(way, images, platforms, dry, output, TRUE, TRUE) :
     way \in Ways, images \in Sets, platforms \in {<<p>>, <<p, q>>}, dry \in BOOLEAN,
     output \in {"text", "quiet", "json"}}
Odd == {ToDir(<<p>>, valid, cached) : valid \in BOOLEAN, cached \in BOOLEAN}
Twice == {ToDir(<<p, p>>, TRUE, TRUE)}
AllRequests == Good \cup Odd \cup Twice

-----------------------------------------------------------------------------
(* FsDir: two leaves of one repository, whose tag and digest are the names of the markers, on      *)
(* platforms with and without a variant, and a marker.                                             *)

Strings == STRING
Sha(x) == <<"sha256", x>>
Image(tag, digest, platform) ==
  [ref |-> [repo |-> <<"h", "a">>, tag |-> tag, digest |-> digest], platform |-> platform]
Tagged == Image("_digest", None, <<"linux", "arm64">>)
Pinned1 == Image("_tag", Sha("d1"), <<"linux", "arm64", "v8">>)
TwoImages == {Tagged, Pinned1}
TwoDigests == {Sha("d1"), Sha("d2")}

Marker == DiffIdPath(Sha("d1"), Sha("d2"))
ThreeNames == {Marker, IndexPath(Tagged), IndexPath(Pinned1)}
InOrder == <<Marker, IndexPath(Pinned1), IndexPath(Tagged)>>
Digested == [n \in ThreeNames |-> IF n = Marker THEN <<1>> ELSE None]

\* Readers that yield what the digest names, something else of its size, and too much.
Chunks == {<<1>>, <<2>>, <<1, 1>>}
Puts == {[name |-> n, body |-> <<2>>, size |-> 1] : n \in ThreeNames}
  \cup {[name |-> Marker, body |-> body, size |-> 1] : body \in {<<1>>, <<1, 1>>}}
  \cup {[name |-> IndexPath(Tagged), body |-> <<1, 1>>, size |-> 2]}

-----------------------------------------------------------------------------
(* OciDir: an index of two variants of one architecture and a manifest, at the top of one layout   *)
(* and nested in another; the images share layers.                                                 *)

Arm(v) == <<"arm64", v>>
Amd == <<"amd64", Nil>>
Desc(d, name, platform) == [digest |-> d, name |-> name, platform |-> platform]
Manifest(layers, config) == [layers |-> layers, config |-> config]
Shared ==
  (ix :> <<Desc(ma, Nil, Arm("v7")), Desc(mb, Nil, Arm("v8"))>>) @@
  (ma :> Manifest(<<la, lb>>, ca)) @@ (mb :> Manifest(<<la>>, cb)) @@ (mc :> Manifest(<<lb>>, cc)) @@
  (ca :> Arm("v7")) @@ (cb :> Arm("v8")) @@ (cc :> Amd) @@ (la :> Nil) @@ (lb :> Nil)
Flat == (Top :> <<Desc(ix, "t1", Nil), Desc(mc, "h/b:t2", Nil)>>) @@ Shared
Nested ==
  (Top :> <<Desc(iz, "h/a:t1", Nil), Desc(mb, Nil, Nil)>>) @@
  (iz :> <<Desc(ix, Nil, Nil), Desc(mc, Nil, Amd), Desc(ma, Nil, Nil)>>) @@ Shared
BothLayouts == {Flat, Nested}
TypeOf ==
  [d \in {Top, ix, iz, ma, mb, mc, la, lb, ca, cb, cc} |->
    IF d \in {Top, ix, iz} THEN "index" ELSE IF d \in {ma, mb, mc} THEN "manifest" ELSE "other"]
Depths == [d \in DOMAIN TypeOf |-> CASE d = Top -> 3 [] d = iz -> 2 [] d = ix -> 1 [] OTHER -> 0]
Annotations ==
  ("t1" :> <<"t1", "latest">>) @@ ("h/a:t1" :> <<"h/a", "t1">>) @@ ("h/b:t2" :> <<"h/b", "t2">>)

Ref(repo, tag, digest) == [repo |-> repo, tag |-> tag, digest |-> digest]
RefsIn == {Ref("h/a", "t1", Nil), Ref("h/b", "t2", Nil), Ref("h/b", Nil, mb), Ref("h/a", Nil, ix),
           Ref("h/a", Nil, mc)}
Calls ==
  {[op |-> "names", names |-> s] : s \in {<<>>, <<"t1">>, <<"h/b:t2", "t1">>, <<"h/a:t1">>}} \cup
  {[op |-> "digests", digests |-> s] : s \in {<<>>, <<mb>>, <<ma, ix>>, <<la>>}} \cup
  {[op |-> "images"]} \cup
  {[op |-> "resolve", ref |-> r, platform |-> f] :
     r \in RefsIn, f \in {Amd, Arm(Nil), Arm("v7"), Arm("v8")}}

\* The hypothesis of AnswersAreRight, of these layouts.
ASSUME LayoutsDescribed == Described

-----------------------------------------------------------------------------
\* "copy": a copy.  "race": two goroutines create the marker or the tagged leaf.  "list": one creates
\* any of the names while another process lists them.  "read": a layout of which at most two files
\* have not arrived.
VARIABLE scenario

AtRest ==
  /\ CopyInit /\ FsInit /\ OciInit
  /\ scenario = "copy" \/ (req = ToDir(<<p>>, TRUE, TRUE) /\ dir)
  /\ IF scenario = "read" THEN Cardinality(Files \ there) <= 2 ELSE layout = Flat /\ there = Files

Step ==
  \/ scenario = "copy" /\ CopyNext /\ UNCHANGED <<fsVars, ociVars, scenario>>
  \/ /\ scenario = "race" /\ FsNext
     /\ listing' = "idle" /\ \A w \in Writers : job'[w].name # IndexPath(Pinned1)
     /\ UNCHANGED <<copyVars, ociVars, scenario>>
  \/ /\ scenario = "list" /\ FsNext
     /\ pc'[w2] = "idle" /\ \A w \in Writers : Len(job'[w].body) <= 1
     /\ UNCHANGED <<copyVars, ociVars, scenario>>
  \/ scenario = "read" /\ OciNext /\ UNCHANGED <<copyVars, fsVars, scenario>>

MCVars == <<copyVars, fsVars, ociVars, scenario>>
MCInit == scenario \in {"copy", "race", "list", "read"} /\ AtRest /\ req \notin Twice
MCSpec == MCInit /\ [][Step]_MCVars
TwiceSpec == scenario = "copy" /\ AtRest /\ req \in Twice /\ [][Step]_MCVars

\* The types of the three modules.
TypesOK == CopyTypeOK /\ FsTypeOK /\ OciTypeOK

\* What a free inode holds is never read.
View ==
  <<copyVars, ociVars, scenario, entry, tmp, pc, job, file, res, left, got, listing,
    [i \in Inodes |-> IF Free(i) THEN <<>> ELSE data[i]]>>
Symmetry == Permutations(Inodes)
=============================================================================
