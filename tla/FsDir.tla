-------------------------------- MODULE FsDir --------------------------------
(***************************************************************************)
(* The filesystem backend of a store (ocidir/fsdir/store.go): processes    *)
(* that Create entries in one directory tree, one system call per step,    *)
(* while another lists it; any of them may die, and leave its temporary    *)
(* file behind.                                                            *)
(***************************************************************************)
EXTENDS Naturals, Paths

CONSTANTS
  Names,        \* paths of entries
  Writers,      \* goroutines that call Create
  Inodes,       \* the files that can be there (bound)
  Bodies,       \* what a reader yields, a sequence of chunks
  Jobs,         \* the arguments of Create: a name, what the reader yields, the size claimed
  Pinned,       \* Pinned[n]: the content named by the digest given with n; None: no digest
  Order         \* the names in the order in which List comes to them

ASSUME FsAssumption ==
  /\ Order \in Seq(Names)
  /\ \A b \in Bodies : b \in Seq(Nat)
  /\ None \notin Inodes \cup Names \cup Bodies
  /\ Pinned \in [Names -> Bodies \cup {None}]
  /\ Jobs \subseteq [name : Names, body : Bodies, size : Nat]
  /\ \A j \in Jobs : Pinned[j.name] = None => j.size = Len(j.body)
  /\ \A n \in Names : \/ \E im \in Images : n \in {IndexPath(im), LayoutPath(im)}
                      \/ \E d \in DiffIds, b \in Digests : n = DiffIdPath(d, b)
                      \/ n[1] \notin {"image_refs", "diff_ids"}

VARIABLES
  entry,        \* entry[n]: the inode linked at n, or None
  tmp,          \* the inodes linked at a ".tmp-" name
  data,         \* data[i]: the bytes of inode i
  pc,           \* pc[w]: where w is in Create
  job,          \* job[w]: the arguments of Create: name, reader, size
  file,         \* file[w]: the inode of w's temporary file, or None
  res,          \* res[w]: what Create returns
  left,         \* the names that List has yet to visit
  got,          \* what it has yielded
  listing       \* "idle", "walk", "done"

fsVars == <<entry, tmp, data, pc, job, file, res, left, got, listing>>
tree == <<entry, tmp, data>>
list == <<left, got, listing>>

Steps == {"idle", "lstat", "open", "write", "link", "remove", "done"}
NoJob == [name |-> None, body |-> <<>>, size |-> 0]

FsTypeOK ==
  /\ entry \in [Names -> Inodes \cup {None}]
  /\ tmp \subseteq Inodes
  /\ data \in [Inodes -> Seq(Nat)]
  /\ pc \in [Writers -> Steps]
  /\ job \in [Writers -> [name : Names \cup {None}, body : Bodies \cup {<<>>}, size : Nat]]
  /\ file \in [Writers -> Inodes \cup {None}]
  /\ res \in [Writers -> {"none", "ok", "exist", "error"}]
  /\ left \in Seq(Names)
  /\ got \subseteq Names \cup Inodes
  /\ listing \in {"idle", "walk", "done"}

FsInit ==
  /\ entry = [n \in Names |-> None]
  /\ tmp = {}
  /\ data = [i \in Inodes |-> <<>>]
  /\ pc = [w \in Writers |-> "idle"]
  /\ job = [w \in Writers |-> NoJob]
  /\ file = [w \in Writers |-> None]
  /\ res = [w \in Writers |-> "none"]
  /\ left = <<>> /\ got = {} /\ listing = "idle"

Goto(w, from, to) ==
  /\ pc[w] = from
  /\ pc' = [pc EXCEPT ![w] = to]

\* Create is about to return r: the deferred Remove comes first, if there is a file.
Ending(w, r) ==
  /\ pc' = [pc EXCEPT ![w] = IF file[w] = None THEN "done" ELSE "remove"]
  /\ res' = [res EXCEPT ![w] = r]

Name(w) == job[w].name

-----------------------------------------------------------------------------
(* Create.                                                                  *)

CreateBegin(w) ==
  /\ Goto(w, "idle", "lstat")
  /\ \E j \in Jobs : job' = [job EXCEPT ![w] = j]
  /\ UNCHANGED <<tree, file, res, list>>

\* Only an Lstat that succeeds ends it; one that fails is taken for an absent name.
Lstat(w) ==
  /\ pc[w] = "lstat"
  /\ \/ entry[Name(w)] # None /\ Ending(w, "exist")
     \/ Goto(w, "lstat", "open") /\ UNCHANGED res
  /\ UNCHANGED <<tree, job, file, list>>

Free(i) ==
  /\ i \notin tmp
  /\ \A n \in Names : entry[n] # i
  /\ \A w \in Writers : file[w] # i

\* Mutant: a name that two writers of one entry share, opened without O_EXCL.
OpenShared(w) ==
  /\ \E i \in Inodes :
       /\ \/ Free(i) /\ data' = [data EXCEPT ![i] = <<>>]
          \/ (\E v \in Writers : file[v] = i /\ Name(v) = Name(w)) /\ UNCHANGED data
       /\ tmp' = tmp \cup {i}
       /\ file' = [file EXCEPT ![w] = i]
  /\ Goto(w, "open", "write")
  /\ UNCHANGED <<entry, job, res, list>>

\* MkdirAll, and a new file beside the name: the random suffix and O_EXCL make it w's own.
OpenTmp(w) ==
  /\ \E i \in Inodes :
       /\ Free(i)
       /\ data' = [data EXCEPT ![i] = <<>>]
       /\ tmp' = tmp \cup {i}
       /\ file' = [file EXCEPT ![w] = i]
  /\ Goto(w, "open", "write")
  /\ UNCHANGED <<entry, job, res, list>>

\* io.Copy of one chunk.
Write(w) ==
  /\ pc[w] = "write"
  /\ Len(data[file[w]]) < Len(job[w].body)
  /\ data' = [data EXCEPT ![file[w]] = Append(@, job[w].body[Len(@) + 1])]
  /\ UNCHANGED <<entry, tmp, pc, job, file, res, list>>

\* The end of the reader: size and digest are compared, the file closed.
Checked(w) ==
  /\ Len(data[file[w]]) = job[w].size
  /\ Pinned[Name(w)] \in {None, data[file[w]]}

WriteVerified(w) ==
  /\ pc[w] = "write"
  /\ Len(data[file[w]]) = Len(job[w].body)
  /\ IF Checked(w) THEN Goto(w, "write", "link") /\ UNCHANGED res
                   ELSE Ending(w, "error")
  /\ UNCHANGED <<tree, job, file, list>>

\* Mutant: a rename, which replaces what is there.
LinkReplaces(w) ==
  /\ pc[w] = "link"
  /\ entry' = [entry EXCEPT ![Name(w)] = file[w]]
  /\ Ending(w, "ok")
  /\ UNCHANGED <<tmp, data, job, file, list>>

\* Link fails when the name exists by now.
Link(w) ==
  /\ pc[w] = "link"
  /\ IF entry[Name(w)] = None
     THEN entry' = [entry EXCEPT ![Name(w)] = file[w]] /\ Ending(w, "ok")
     ELSE Ending(w, "exist") /\ UNCHANGED entry
  /\ UNCHANGED <<tmp, data, job, file, list>>

\* The deferred Remove of the temporary name, whose error is ignored.
RemoveTmp(w) ==
  /\ Goto(w, "remove", "done")
  /\ tmp' \in {tmp, tmp \ {file[w]}}
  /\ file' = [file EXCEPT ![w] = None]
  /\ UNCHANGED <<entry, data, job, res, list>>

\* A system call, or the read of the source, fails.
CreateFails(w) ==
  /\ pc[w] \in {"open", "write", "link"}
  /\ Ending(w, "error")
  /\ UNCHANGED <<tree, job, file, list>>

\* The caller has its answer; or the process dies.
Gone(W) ==
  /\ pc' = [w \in Writers |-> IF w \in W THEN "idle" ELSE pc[w]]
  /\ job' = [w \in Writers |-> IF w \in W THEN NoJob ELSE job[w]]
  /\ file' = [w \in Writers |-> IF w \in W THEN None ELSE file[w]]
  /\ res' = [w \in Writers |-> IF w \in W THEN "none" ELSE res[w]]

CreateReturns(w) == pc[w] = "done" /\ Gone({w}) /\ UNCHANGED <<tree, list>>
Die(w) == pc[w] # "idle" /\ Gone({w}) /\ UNCHANGED <<tree, list>>

-----------------------------------------------------------------------------
(* List.                                                                    *)

ListBegin ==
  /\ listing = "idle"
  /\ listing' = "walk"
  /\ left' = Order
  /\ got' = {}
  /\ UNCHANGED <<tree, pc, job, file, res>>

\* What WalkDir passes at a name: the entry and its directory, if they are there, and some of the
\* temporary files beside it, whose writers are at work or died.
Passed(n) ==
  {{[path |-> i, regular |-> TRUE, base |-> ".tmp-"] : i \in T} \cup
     {x \in {[path |-> Front(n), regular |-> FALSE, base |-> "segment"],
             [path |-> n, regular |-> TRUE, base |-> "segment"]} : entry[n] # None} :
   T \in SUBSET tmp}

\* Mutant: the prefix is not looked at.
TemporaryToo(F) == {x.path : x \in {x \in F : x.regular}}

\* Mutant: the mode is not looked at.
DirectoriesToo(F) == {x.path : x \in {x \in F : x.base # ".tmp-"}}

Yielded(F) == {x.path : x \in {x \in F : x.regular /\ x.base # ".tmp-"}}

\* WalkDir goes on to the next name.
Visit ==
  /\ listing = "walk"
  /\ left # <<>>
  /\ left' = Tail(left)
  /\ \E F \in Passed(Head(left)) : got' = got \cup Yielded(F)
  /\ UNCHANGED <<tree, pc, job, file, res, listing>>

ListEnd ==
  /\ listing = "walk" /\ left = <<>>
  /\ listing' = "done"
  /\ UNCHANGED <<tree, pc, job, file, res, left, got>>

ListReturns ==
  /\ listing = "done"
  /\ listing' = "idle" /\ left' = <<>> /\ got' = {}
  /\ UNCHANGED <<tree, pc, job, file, res>>

Create(w) ==
  \/ CreateBegin(w) \/ Lstat(w) \/ OpenTmp(w) \/ Write(w) \/ WriteVerified(w)
  \/ Link(w) \/ RemoveTmp(w) \/ CreateReturns(w)

FsNext ==
  \/ \E w \in Writers : Create(w) \/ CreateFails(w) \/ Die(w)
  \/ ListBegin \/ Visit \/ ListEnd \/ ListReturns

FsSpec == FsInit /\ [][FsNext]_fsVars

-----------------------------------------------------------------------------
(* Properties.                                                              *)

Fits(n, b) == Pinned[n] \in {None, b}
AllFitting == {x \in Names \X Bodies : Fits(x[1], x[2])}

\* "Create writes r to a temporary file beside name, verifies it, and hard-links it into place"
\* (fsdir/store.go:54): what stands at a name is complete and has the name's digest, whoever else
\* creates it, fails or dies.
EntriesChecked ==
  \A n \in Names : entry[n] # None => data[entry[n]] \in Bodies /\ Fits(n, data[entry[n]])

\* Create of the filesystem is the Create that store.Backend promises: one step in which an absent
\* name gets its content for good; nil only to the caller whose content that is.
Decided(w) == pc[w] \in {"remove", "done"}
Promised == INSTANCE Backend WITH
  Fitting <- AllFitting,
  entries <- [n \in Names |-> IF entry[n] = None THEN None ELSE data[entry[n]]],
  answer <- [w \in Writers |->
              IF Decided(w) THEN [name |-> Name(w), body |-> job[w].body, res |-> res[w]] ELSE None]

ImplementsBackend == Promised!BackendInit /\ [][Promised!BackendNext]_(Promised!backendVars)

\* "temporary files of Create are skipped" (fsdir/store.go:120), those of writers at work and those
\* that a dead one left: each path listed is a committed entry's, and Walk and DiffIDBlobs read it
\* back as the image, or the pair, that it was written for.
ListedIsWritten ==
  /\ \A x \in got : x \in Names /\ entry[x] # None
  /\ listing = "done" =>
       /\ Walked(got) = {<<Key(im.ref), im.platform>> :
                           im \in {im \in Images : IndexPath(im) \in got}}
       /\ \A d \in DiffIds : DiffIdBlobs(d, got) = {b \in Digests : DiffIdPath(d, b) \in got}
=============================================================================
