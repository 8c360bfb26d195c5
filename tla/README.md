# A specification of oci-image-copy

oci-image-copy copies single-platform container images between the local containers-storage (the
storage of podman) and a *store*: a tree of files on a file system, in S3 or behind HTTP.  Several
runs of the command may use one store, one storage and one blob cache at the same time, and nothing
coordinates them but the primitives the tree offers: a create that fails when the entry exists, a
rename, a file lock.  That is where the program is hard to get right and hard to test, and what
these modules are about.

The TLA+ modules here are translations of the Go code.  `PROJECT.json` maps each definition to the
lines it stands for; this file says how the parts fit together, what TLC checks, what is proved
and what is left.

## 1. Inventory

| Component | State | Operations | Hard behaviour | What makes it correct |
|---|---|---|---|---|
| `blobcache` | directory of `partial/`, `blobs/`, `tmp/`; a mutex per digest; a file lock per partial file | `Fetch` (resumes a partial file), `Put`, `Open`, `Has` | goroutines and processes that share the directory, waiters on a file that is replaced, crash in the middle of a copy, corrupt prefixes, power loss | what is in `blobs/` has its digest and stays; one writer per partial file; every call ends |
| `store` | the tree: shared blobs, diffID markers, leaves (`oci-layout`, `blobs/`, `index.json`) | `PutBlob`, `Commit`; readers `Resolve`, `Walk`, `DiffIDBlobs` | concurrent commits, crash between two files of a leaf, a create whose answer is lost | a leaf with an `index.json` is a complete image and never changes; answers are true |
| backends `ocidir/fsdir`, `s3dir`, `httpdir` | the files or objects | `Create` (never replaces), `Open`, `List`, `MkdirAll` | check then create, temporary files, conditional put with retries | an entry appears whole or not at all |
| `transfer` | none that outlives a push | `PlanPush`, `Diff`, `Push` | a stale plan, parallel uploads that fail, a shared blob, cancellation between uploads and commits | an entry without an error is committed; failures are attributed to what caused them |
| `cstorage` pull | layers, records and names of containers/storage | `PlanPull`, `Pull` | podman and other pulls work on the same storage; crash between record and name | a record's layers exist; a name is never lost |
| `cstorage` push source | none of its own | `PushSource.Resolve`, `find` | which of several blobs stands for a layer; export through a pipe | the manifest describes blobs that exist and decompress to the config's diffIDs |
| `registry` | a fallback `Source` | `Resolve` | index pins | the index lists the manifest it resolves to |
| `ociimagecopy` | a lazily opened storage; the result per entry | `Copy`, `List` | failures found by name in a joined error | every entry's result is its own |
| `ocidir` readers, `transfer/ocidir.go` | none | walks of nested indexes | repeated and shared children | children before parents, each once |
| `types`, command line, `internal` | none | parsing, formatting, signals, logging | | |

How they interact.  A **push** is `Copy` → `PlanPush` (`PushSource.Resolve` per image, which fills
the blob cache through `Cache.Put`, then `Diff` with `Store.HasBlob` per blob) → `Push`
(`Store.PutBlob` in goroutines, then `Store.Commit` per entry).  A **pull** is `Copy` → `PlanPull`
(`Store.Resolve`, or the registry when the store has no such image) → `Pull` (for a registry image
first a push into the store, then `Cache.Fetch` per missing layer, `PutLayer` per layer,
`CreateImage`, `AddNames`).  `store` talks to its backend only through `Open`, `Create`, `List` and
`MkdirAll`.

The hazards this code is exposed to are listed in `PROJECT.json`, each at the line where it bites
and with the properties that would catch it.

## 2. Modules

| Module | What it is |
|---|---|
| `BlobPool` | abstract: the promise of the cache for one digest |
| `BlobCache` | `blobcache.go`, `lock_unix.go`, `lock_other.go` |
| `BlobCacheLive` | the same with a bound on the calls, for liveness |
| `ImageCatalog` | abstract: the promise of the store |
| `Store` | `store.go` on a backend, `PutBlob` and `Commit` call by call |
| `Push` | EXTENDS `Store`: `transfer.go`, pushers that plan, upload and commit |
| `Backend` | abstract: the `Create` that `store.Backend` promises |
| `Paths` | the names in the store's tree and how `Walk` and `DiffIDBlobs` read them back |
| `FsDir` | EXTENDS `Paths`: `ocidir/fsdir/store.go`, `Create` and `List` by their system calls |
| `CStorage` | one machine: containers-storage with podman at work on it, the blob cache, the store's contents |
| `Pull` | EXTENDS `CStorage`: `cstorage/pull.go`, several pulls with failures, cancellation, crashes |
| `PushSource` | EXTENDS `CStorage`: `cstorage/push.go`, several pushes of local images |
| `Exchange` | EXTENDS `Pull`, `PushSource`: both on one machine, with podman; their properties |
| `Copy` | one run of the copy command: `ociimagecopy/copy.go`, `service.go`, the exit status |
| `OciDir` | the readers of an image layout: `ocidir/helper.go`, `transfer/ocidir.go` |
| `BlobCacheProofs`, `StoreProofs`, `PushProofs`, `FsDirProofs`, `ExchangeProofs` | theorems about these modules |
| `ServiceProofs` | theorems about `Copy` and `OciDir` |
| `StorageProofs` | lemmas about the calls in `CStorage`, used by `ExchangeProofs` |
| `Induction` | induction, definition by recursion, flattening of sequences: lemmas for all of them |
| `MCBlobCache`, `MCBlobCacheLive`, `MCStore`, `MCPush`, `MCExchange`, `MCService` | instances for TLC |

They lean on one another the way the code does.  `Copy` takes a push or a pull as a step that succeeds
or fails per entry; `Push`, `Pull` and `PushSource` are what happens inside.  `Pull` and `PushSource`
take the cache and the store at their promises (`BlobPool`, `ImageCatalog`), which `BlobCache` and
`Store` are shown to keep; `StoreAsPromised` checks the other half, that they use the store as the
promise allows.  `Store` takes its backend at the promise of `Backend`, which `FsDir` is shown to keep.

### BlobCache

One digest is modelled: two digests share no file, mutex or lock.  A file's bytes are a sequence of
chunks, each `"good"` (the blob's chunk at this position) or `"bad"`; the digest check is the
comparison with `Whole`.  Inodes are explicit, because the code compares them (`os.SameFile`) and
because a name, an open file and a lock outlive one another: `partial` and `blob` are the two names,
`file[w]` what `w` has open, `flock[i]` who locked inode `i`, `mutex[p]` who holds the in-process
mutex.  An inode nothing refers to can be used again.

`pc[w]` follows the code: `FetchBegin`, `FetchLock`, `FetchHas` (`Fetch`), `OpenPartial`, `LockFile`,
`CheckSame` (`openLocked`, whose loop is `same` → `open`), `RecheckHas`, `StatAndHash`, `ReadChunk`
per `ReadAt`, `SourceEnds`, `Verify`, `Sync`, `Commit` (`fetch`, `commit`), and `Close`, which is the
deferred close together with `Fetch`'s decision to try again.  The errors of each call are `IOFails`,
the context and the source's other errors `Interrupt`.  `PutBegin` … `PutCommit` are `Put`;
`OpenBlob`/`CloseBlob` a reader.  `Crash(p)` ends a process at any point: its files close, its locks
go, the files stay.  `PowerLoss` ends all of them, and what was not synced is cut or torn; renames
are taken to be durable, since the code relies on the file system for that.

Abstractions: `progress` callbacks and invalid descriptors (refused before anything happens) are left
out; `mkdir`s are part of the step whose error they share; the mutex is released at the deferred
unlock, where the call also returns.  A stream that `Put` cannot read to its end leaves only a
scratch file nobody looks at, so `PutBegin` starts with a complete one.

### Store

Blobs are names.  That is sound because no backend makes an entry visible before the content has
been verified (`writeVerified`; the checksum of the S3 request or the spooled copy).  A manifest's
layers, config and diffIDs are constants, and whether its platform matches a leaf is the relation
`Fits`.  The tree is `stored`, `markers`, `layout`, `dirs` and `index`, written by one backend call
per step: `PutHas`, `PutCreate`; `ReadManifest`, `ReadConfig`, `CheckLayer` per layer, `WriteMarker`
per layer, `WriteLayout`, `MakeDir`, `WriteIndex`, `Compare`.  Two callers interleave between any
two of them.  A backend call fails with no effect (`Fail`), or has its effect and fails
(`LoseAnswer`); `WriteIndex` also covers the S3 client that retries a put whose answer was lost
and then reads 412.  `Kill` ends the calls of any set of callers, which is what a crash of their
process does; the tree stays.

### Push

A pusher `w` is a caller of `Store` that commits, and `Uploaders[w]` are the callers that upload, as
many as the semaphore has places.  `PlanPush` takes one of the lists the source can resolve to,
`Diff` looks up one blob after another, with other pushers writing in between; `BeginPush` collects
the missing blobs, `StartUpload` takes the next one in the order of the plan (`Precedes`), and
`EndUpload` records the failure.  `WaitUploads`, `BeginCommit`, `EndCommit`, `SkipCancelled` and
`EndPush` are the rest of `Push`.  After `Cancel`, backend calls fail except a write that had already
begun, and it makes no difference to a push that has not begun to upload: there the plan is just
shorter, which `Resolved` covers.  `CrashPush` ends the process, and it may push again.

An entry that could not be resolved or diffed is left out of the plan; `Resolved[w]` holds the lists
with and without it.

### CStorage, Pull, PushSource, Exchange

The storage is `layer`, `image` and `name`.  The ID of a layer is a chain of diffIDs: the code hashes
the chain (`chainIDs`), and nothing but equality and the parent is ever asked of an ID.  A record's ID
is the digest of its config.  Each call of containers/storage (`PutLayer`, `CreateImage`, `AddNames`,
...) is one atomic step, which is what its lock file gives; between two of them any other process, or
podman, may do anything that the library allows: remove an image with its layers, prune a layer, load
an image, give layers other IDs (podman does when it pulls by a table of contents, `Tocs`), move names.

`Pull` follows a command through `PlanPull` (`Resolve`, `FindPrefix` layer by layer) and `Pull`:
`KeepBlob`, `KeepMarkers`, `KeepLeaf` are the push of a fallback's image into the store; `Fetch` per
missing layer; `LookLayer`, `PutLayer`, `ReuseLayer`, `CheckLayer` per layer; `CreateImage`,
`ReuseImage`, `SetBigData` three times, `AddNames`.  The plan keeps `from`, the first layer that was
missing when it was made, because layers before it are not fetched.  `FailPlan`, `FailEntry` and
`FailLayer` are calls that fail, `Leave` the end or the death of the process at any point.

`PushSource` is `Resolve` of a local image: `Find`, `WalkChain`, then per layer `PickAsIs`,
`PickByDiffId` or `Export`, `PutManifest`; and a push of the result with one entry (`SourceUpload`,
`SourceMarkers`, `SourceLeaf`), whose general form is `Push`.

`calm[w]` is a history variable: no call of `w` failed and podman took nothing away since `w` began.

Abstractions.  The bytes of a blob are what it decompresses to (`Content`), the blob that compressing
gives is `Zstd`; an uncompressed layer is listed by its diffID and decompresses to itself.  The
registry with its candidates and the choice of the platform's manifest in an index is the constant
`Registry`; a download that fails leaves some of its blobs in the cache (`Partly`).  A pin of an index
is a record that is named so.  The check at `pull.go:292` compares the diffID that the library returns,
so it acts only as far as the library computes it although `pull.go:273` passes the expected one in;
it is modelled as effective.

### Backend, Paths, FsDir

`Paths` builds the names of the tree as sequences of segments (`LeafPath`, `DiffIdPath`) and reads them
back (`ParseLeaf`, `DiffIdBlobs`), with repositories and tags that look like the markers `_tag` and
`_digest`.  A reference with a digest loses its tag on the way (`Key`), as in `LeafPath`.

`FsDir` has inodes, entries and the temporary names.  `Create` is `Lstat`, `OpenTmp`, `Write` per
chunk, `WriteVerified` (size and digest), `Link`, `RemoveTmp`; `List` comes to one name at a time and
to what stands beside it (`Passed`: its directory, and any of the temporary files that are there then), and
`Yielded` is the filter that keeps what is regular and not temporary.  A writer can fail at each call and
die at each point, which leaves its temporary file.  The random suffix and `O_EXCL` are what makes
`OpenTmp` take a free inode.  Power loss is not modelled: nothing is synced here, and nothing in the code
or its comments promises more.  `List` may in the code also fail on a temporary file that vanished under
`WalkDir`; it then yields that error, which is no answer.

### Copy

The state is what `Copy` has opened (`dir`, `opened`, `memory`, and `touched`: opened at any time), the
entries of its result, the errors collected, `writes`, the pairs of image and platform that are at the
destination, `outputLost`, the error that `errWriter` keeps, and `fate`, a history of what became of each
pair: whether any call for it failed.  `Planned` and `Transferred` are the two calls of `record`, with the
callback that renders the plan; `NewResult` counts the planned entries off.  `UploadsFail` puts the errors
of a push in any order, as the goroutines do; `TransferEntry` commits an entry also after an upload of it
failed, as `Push` does, and its commit may succeed, or fail after it was made, so an entry with an error
may be at the destination.  `Show` is the end of `cli.Copy`: it renders what the kind of output asks for
(`Renders`), each write of which may fail, and returns an error for failed entries, for a failure of no
entry, and for output that was not written; `ExitCode` makes the exit status of it.

### OciDir

A layout is what it will be in the end, and `there` is the part that another tool has written so far,
which only grows.  Layouts are acyclic, and descriptors tell the type that the content has.  Each walk
(`WalkBlobs`, `WalkManifests`, `Known`, `Search`) is a recursive function over the descriptors and one
step; `YieldBlob` hands one blob to a consumer, who may leave.  `Nil` stands for the error of a file
that cannot be read, which `find` drops in nested indexes and reports at the top.

## 3. What is checked

All runs use one model value per name and finish within a few minutes with two workers.

| Run | Instance | Checks |
|---|---|---|
| `BlobCacheTwo` | 2 processes of one goroutine, a blob of 2 chunks, descriptors of size 1 and 2, 4 inodes | all of the cache's safety properties, `IInv`, the action property `OnlyHolderRemoves`, and that `BlobCache` implements `BlobPool` |
| `BlobCacheOne` | 2 goroutines in one process, no flock | `OneHolder`, `GoodSourceHeals` |
| `BlobCacheLive` | 2 goroutines of one process and 1 of another, 3 calls, 5 inodes | `CallsReturn` |
| `BlobCacheNoLock` | 2 processes, no flock | `CollisionsCaught` is violated (finding 1) |
| `Store` | 2 callers.  "share": 2 images with a common layer, 2 leaves, one of which only one image fits; "refuse": a foreign layer and a diffID without a layer | `LeafComplete`, `AnswersTrue`, `IInv`, and that `Store` implements `ImageCatalog` |
| `Push` | "alone": 1 pusher with 2 goroutines, 2 images that share a layer; "race": 2 pushers, two manifests of one config, one leaf | `SilenceMeansCommitted`, `AbsentIsBlamed`, `PushInv`, `PushEnds` |
| `Exchange` | 8 scenarios of one state graph: two pulls of one image; one pull of two images that share a layer; a pull next to podman that loads the same image, or has it under other layer IDs; a push of a local build; a pull and a push of one reference; a pull by digest next to a push, after one that failed; an image that is not what it says, alone | `RecordsWhole`, `KeptInStore`, `CalmPullsSucceed`, `ServedReadable`, `ServedDecompresses`, `LeavesDecompress`, `OkIsImported`, `StoreAsPromised` |
| `PullPinned` | its scenario "pinned" | `PinnedPullsSucceed` is violated (finding 2) |
| `PullReuse` | two pulls, one of an image that is not what it says | `RecordsAgree` is violated (finding 3) |
| `PushMarked` | a pull of such an image, then a push of another | `ServedDecompresses` is violated (finding 4) |
| `Service` | "copy": every pair of locations, 2 images, 1 or 2 platforms, dry run or not, each kind of output, failures at each call; "race": 2 goroutines create entries; "list": one creates, and leaves temporary files, while another process lists; "read": two image layouts, of which up to 2 files are yet to arrive | `EntryShows`, `ExitTells`, `TouchesOnlyAsked`; `EntriesChecked`, `ListedIsWritten`, `ImplementsBackend`; `BlobsInOrder`, `AnswersRight` |
| `CopyTwice` | a request that names one platform twice | `FailuresCounted` is violated (finding 5) |

The types of each module are an invariant of its run (`TypeOK`, `PushTypeOK`, `TypesOK`).  A *scenario*
is a constant of the behaviour, chosen at the start, and a constraint on the steps (`Within`, `Allowed`,
`Step` in the MC modules): it leaves out steps of the specification, and adds none, so that one run can
hold several small instances.

Bounds, and why they are enough to show the interesting cases.

* *Inodes.*  A worker opens one file at a time and there are two names, so `|Workers| + 2` inodes
  never run out.  In `BlobCacheLive` they are numbers and a new file takes the least that is free
  (`LeastInode`), since symmetry is no help with liveness: what an inode is called is never asked.
* *Chunks.*  Two chunks give an empty, a partial, a complete and an oversized prefix, a source that
  ends early or not, and a torn first or second half.  The descriptor of size 1 makes the callers
  disagree on the size.
* *Workers.*  Two show each pairwise race, among them a waiter of `openLocked` whose file the other removes or
  renames.  A chain of three (one waits, one removes, a third makes the next file) is covered by the
  theorems.  `BlobCacheLive` has three: of two goroutines of one process one holds the mutex and waits for
  the file lock of the other process, or finds its file replaced, while the other waits for the mutex.
* *The view.*  `FilesView` drops the names of inodes and keeps which of them coincide, with the bytes
  and lock of each file that is reachable; inodes nothing refers to differ in nothing a later step
  can see, since creating a file resets its bytes.
* *Callers, images.*  Two callers and two images give every order of two commits to one leaf, and a
  layer that is there through the other image.  `m1` fits two leaves and `m2` one, so a commit is
  refused for its platform as well.
* *Pushers.*  "alone" has two entries that need the same layer, which is what attribution is about;
  "race" has two stale plans.  Two images and two pushers with two goroutines each do not fit into a
  run of minutes; the theorems cover any number.
* *Machine.*  Two images, one on top of the other, give a shared layer, a parent that may be gone, a
  layer present when the plan is made and a record that another image's removal must not break.
  A third image claims the diffID of a layer for another blob.  Each race is of two commands, or of one
  and podman; in the scenarios of `Exchange` podman removes, prunes and tags what is there, and adds
  only what the scenario names, and a context is cancelled only in "entries".  `MCInit` also starts with
  what podman has built before.
* *Names.*  Two leaves of one repository whose tag and digest look like the markers, one with a variant
  in its platform, and a diffID marker.  Three inodes are enough for two writers and an entry; they are
  symmetric, and `View` leaves out what a free inode holds, which is never read.
* *Layouts.*  An index of two variants and a manifest, flat and nested in another index that repeats
  a manifest.  Of two entries that match a tag the code takes the first, and so does `Named`; names in
  these layouts are distinct.  With one or two files missing an index may be there that lists one that
  is not, before and after what is looked for.
* *Calls.*  Only `BlobCacheLive` counts them (`MaxCalls`).  In all other runs callers come back
  for ever.

Deadlock is checked everywhere but in `BlobCacheLive`, where the system stops when its calls are used
up, and in `Service` and `CopyTwice`, where the command exits.

Fairness.  `BlobCacheLive` assumes weak fairness of each goroutine's own steps: a goroutine that can
run is run, a `ReadAt` returns, a lock that stays free is granted.  The mutex and the file lock may be
handed to others any number of times, which weak fairness allows; the calls end all the same because
there are finitely many, which is what a command makes.  With endless calls a waiter of `flock` could
starve, and the code does nothing against it.  `Push` assumes weak fairness of a pusher's steps
taken together: somebody of its goroutines who can run does.  Failures, cancellation, crashes and
new pushes are never assumed.

Every property has a mutant of the code that violates it, in `PROJECT.json`; the mutant's definition
stands before the definition it replaces and is marked `Mutant`.

## 4. What is proved

With TLAPS, for every value of the constants that satisfies the modules' assumptions.  There is no
bound on workers, inodes, chunks, images, goroutines, entries of a request or depth of a layout.  The
assumptions say what the constants are (the processes of the goroutines, the layers of the manifests, a
null value apart from the rest).  Those that say more than a type:

* a digest names one content, so an index is not under itself (`Depth` in `LayoutsAssumption`), and no
  digest is of a layer and of a manifest or a config (`CStorageAssumption`); compressing a layer gives
  a blob that decompresses to it (`Zstd`, `Content`);
* a repository of a reference is not empty and has no segment that looks like a marker
  (`PathAssumption`; the parser of references refuses both), and a file at another place of the tree
  than those the store writes is not below `image_refs` or `diff_ids` (`FsAssumption`).

`Segments`, like the names of other constants, is any set: the argument never asks what its elements are.

Some theorems have a hypothesis besides, stated with them.  `Locking \/ OneProcess` is the build with
flock, or a blob cache that one process uses; `BlobCacheNoLock` shows what happens with neither.
`IsFiniteSet(Blobs)` is what counting uploads needs.  `Described` says of a layout that an index describes
indexes and manifests, and that where it gives a platform it is the config's, once per manifest;
`MCService` assumes it of the layouts that TLC reads.  `Honest` says of every image of the registry and
every image podman has built that its layers decompress to what its config lists; findings 3 and 4 show
what happens without it.  `[]WriteOrder` says of a behaviour that the store never has a manifest without
the blobs it names, which finding 2 refutes of the code.

**BlobCache.**  `TypeCorrect`, `CommittedBlobsAreWhole`, `CollisionsAreCaught`, `MutualExclusion`,
`DigestFollowsFile`, `ReadersAreSafe`, `OkIsStored`, the action property `RemovalByHolder`, and `Refinement`
of `BlobPool`: each with flock for any number of processes, and without it for one.
`CommittedIsWhole` is not inductive: a rename is safe only since the renamed file is the one this
worker hashed and synced.  So `FilesInv` adds that the holder's file is the one at the name (`NameInv`), how
far it is (`WriterInv`: digester = bytes; whole; synced), and that scratch files and files being read are
complete and nobody else's (`PrivateInv`).  All that this needs of the locks is `Apart`: a file has one
holder.  With flock it comes from `LockInv` (from `CheckSame` to the deferred close the worker
holds the lock of its file, and a lock's holder has the file open), and `IInv` is all of these; with one
process it comes from the mutex (`SectionInv`: a goroutine between the mutex and its unlock holds it).
The types and open files (`TypeInv`) are proved first, the rest on top of them, one step per action;
`FilesInvariance` is the common result.

`HealsFromGoodSource`, with one process and no assumption on flock, is from `HealInv`: when a
source is good, a mismatch is possible on the first attempt only, and only with a prefix that was there
before (`HealOf`); that attempt removes the file, so the next one begins with none.

`WaitsEnd` needs no hypothesis.  Waiting is for the mutex of one's process or for the lock on a file;
nobody asks for either with a file's lock in hand, so a chain of waiters has at most two links and ends at
a goroutine that can run.  With `BlobCacheLive`'s fairness this is why the calls return.

**Store.**  `TypeCorrect`, `LeavesAreComplete`, `AnswersAreTrue`, and `Refinement` of `ImageCatalog`.
The argument is that nothing in the tree goes away (`TreeGrows`: blobs, markers and layouts are only
added, an `index.json` is never replaced), so what a caller has established by its stage stays true
whatever the others do.  `Found(c)` and `Written(c)` say what that is, and by the stage `index` they
are all that a leaf needs.

**Push.**  `PushTypeCorrect`, `PushedLeavesAreComplete`, `SilenceIsTrue` and `PushInvariance`.  Every
step of a pusher is a step of `Store` or leaves it alone (`Simulates`), so the lemmas about the store
carry over.  What is added follows the commits: `CommitOf(w)` says that the running call is the
commit of the next entry, and that an entry concluded `"ok"` has its leaf on its manifest, which stays
since leaves never change.  `PushRefinesStore` says the same of behaviours: what the pushers do is what
callers of `Store` do, so with the refinement there `PushImplementsCatalog` follows.  `AbsenceIsBlamed` adds `BlameInv`: what `Diff` found stays found (`FoundOf`); each blob
it missed waits, is being uploaded, has failed or is there, and after the wait one of the last two
(`MissingOf`); so a commit that finds a blob absent lacks one whose upload failed (`AbsentOf`), and the
error is reported against this entry or an earlier one that lacks the same blob.

`PushesRunDown` is the part of `PushEnds` that is not about fairness.  `Left(w)` counts the phases of a
push that are ahead, the lookups of `Diff` not made, the uploads not done and the calls that each has
left, and the commits not concluded.  Every step of its own, a failing one too, takes something out of
one of these sets and puts nothing in; other pushers touch none of them, and an answer from the store
can shorten the list of uploads but never lengthen it.  For this a digest must be uploaded once
(`UploadsAreOnce`), since a second upload of the same one would not be counted.

**FsDir.**  `FsTypeCorrect`, `EntriesAreChecked`, and `FsRefinesBackend`: `Create`, call by call, is
the one-step `Create` of `Backend`.  An entry's bytes are right only since nobody else writes the file
that is linked, so the invariant has that a temporary file is one writer's own (`PrivateInv`), that no
entry is linked to it before (`UnlinkedInv`), and that what was compared is what is linked
(`WrittenInv`).  In the refinement `Link` is the step that creates, `Lstat`, `Link` or an error the one
that decides, and everything else stutters.  `ListIsTrue` is about what readers of a tree see under
it: whatever directories and temporary files `List` passes, what is listed is an entry and stays one, and `Walk` and `DiffIDBlobs` read from the list exactly the
images and the pairs whose files are in it.  Most of its proof is that the names can be told apart: that
`ParseLeaf` reads `LeafPath` back, for repositories of any length, tags and digests that may look like
markers, and that no path of one kind is read as another.

**Exchange.**  `TypeCorrect`, `RecordsAreWhole`, `FallbackIsKept`, `ServedIsReadable`, the action
properties `OkMeansImported` and `StoreIsAsPromised`, all from `Invariance`.  For the storage, which
anybody may change at any time, the induction needs that with a layer all layers below it are there
(`Whole`): a call looks only at a layer's parent, or at what stands directly on it, and `StorageProofs`
shows for each call that this suffices.  What a process knows of the cache and the store stays, as these
only grow (`Grows`); so a pull knows at its stage that its image is kept (`KeptOk`), a push that the
blobs it chose are there (`Chose`, `PushOk`), and where they are in their lists (`PlaceOk`).  The
theorems are about `Spec`, which starts from an empty machine; podman, and a push that fails halfway,
bring it to the states that TLC's scenarios also start from.

Under `Honest`, `ServedIsTrue`, `LeavesAreTrue` and `RecordsAreTrue`, from `TrueInv`: each manifest in the
cache, the store or a leaf lists layers that decompress to their diffIDs, and so do the markers
(`TrueStore`); each layer of the storage holds what its ID says (`TrueLayers`), each record's manifests are
of its config (`TrueRecords`); each plan is such an image (`TruePlans`), and a push has picked for each layer
a blob of its content (`TruePushers`).  The parts need one another, since images go round: what a pull
brings into the storage is pushed into the store, and pulled from there.

`CalmPullsDoSucceed`, also under `Honest`, says that the only things that make a pull fail are failed
calls, removals and a leaf or a record that is already another's.  Here an entry's success depends on
what other pulls, pushes and commands that died half-way have left, so `CalmInv` says what a calm
pull can count on: since nothing was taken away, layers and records it has seen stay (`Lasts`);
the blobs of its entries are in the cache or the store and the layers below `from` are there (`Held`);
at each stage, the layers so far and, past `CreateImage`, the record are there (`AtWork`).
The argument is made for a set of references that are sure to be resolved to what is there.  Those
without a digest are; those with one are too while `WriteOrder` holds, which is `PinnedPullsTrustTheOrder`.

`PullsRunDown` says that a pull ends by itself: every step of its own, a failing one too, lowers `Rank`,
and no step of another process raises it, though podman may delete a layer right after the pull has
looked at it.  `Rank` is six numbers, compared from the left: the parts of the pull ahead (plan, entries),
the references or entries of this part, the stages of this entry, the items of its loop (layers, blobs to
keep, data items), the calls for this layer, and whether it may still be cancelled.  That a pull
which is run ends follows with what TLC found on the instance of `Exchange` (it is not kept as a run):
at every stage one of the pull's own steps is enabled, since no step of it waits for another process.

**Copy.**  `CopyTypeCorrect`, `EntriesShow`, `ExitIsTrue`, and the action property `OnlyAskedIsTouched`,
for a request of any images and platforms.  The result shows the right thing at the end because no
pair that was asked for is lost on its way through the plan (`PairsKept`); each failure is recorded in an
entry, or its error is among those that still will be, and nothing else is recorded (`FailuresKept`); the
entries are those asked for, in order, each planned as often as the plan has it (`EntriesOfPlan`).  For the
exit status it is added that a pair nothing failed for is at the destination or planned in a dry run
(`Delivered`), that 0 is returned only when no output was lost, and that nothing was opened while a usage
error is still possible (`Exited`, `Opening`).  The converse does not hold: an entry shown as failed may
be at the destination, when its commit succeeded after a failed upload or its answer was lost.  That the
shown failures are as many as the real ones is false in general, finding 5; `CountIsRight` proves it of
requests that name no platform twice, where a pair is asked for once, and waits, is planned or has its
fate in one place (`OnceInv`).  The proof also shows that `record` attributes every error to an entry (`rest` is
empty, see the end of 5).

**OciDir.**  `OciTypeCorrect` and `BlobsComeInOrder`: what is yielded has children before parents and each blob
once, all that was asked for and no other, for any layout, however deep and shared, and whatever part of
it has arrived.  The property is of what was yielded so far; it is inductive only with what is yet to come, so `WholeInv` says
the same of both together (`Whole`).  The walk is a recursive function; what it computes
is shown by recursion on the depth of a descriptor (`RankedRecursion`), which exists since no index
is under itself.

`AnswersAreRight`, under `Described`, holds the answers of `Resolve` and `AllImages` against definitions
that do not walk. A digest is described under `index.json` when an index that is in every closed set of
indexes describes it (`Reached`); what `find` says of an index is then true by recursion upwards for
"found". For "notexist" it is true since the indexes in which it finds nothing are such a closed set
(`SearchAnswers`), but only when no index nested in another is missing (`HalfNested`), see the end of 5;
of tags, and of what `index.json` itself describes, it is true whatever is missing. `selectPlatform`
looks at descriptors and never at the configs, and counts entries and not images; by `Described` both
are the same (`FitIs`). `AllImages` and `AllBlobs` walk the same way, so the manifests the one meets are
those among the blobs of the other, when nothing is unreadable (`ManifestsAre`).

**Induction.**  The library's induction theorems take an operator as a parameter, which the provers here
cannot instantiate.  `Induction` states them with sets: a set of numbers that has 0 and with n also
n + 1 is all of `Nat`.  On that rest `StepByStep` (a function of numbers defined from the one before),
`RankedRecursion` (a function defined from those of lower rank), `ConcatElements` and `FlattenClosed`
(what is in a concatenation of sequences).

`IInv` (of `BlobCache` and `Store`) and `PushInv` are checked by the runs too.  The other inductive
invariants were checked by TLC on the runs' instances before they were proved; they are not in the runs'
lists, since the theorems say more.

Only model-checked: the liveness properties `CallsReturn` and `PushEnds`, and `TypesOK` of `MCService`
as a whole, whose three parts `CopyTypeOK`, `FsTypeOK` and `OciTypeOK` are each a theorem.  Every other property of a passing run is a theorem.  Liveness under fairness and
`ENABLED` are outside the provers' reach; of both properties the safety half is proved (`WaitsEnd`,
`PushesRunDown`), and that somebody can always take the next step is what TLC adds.

## 5. Disagreements between the code and what it says of itself

1. `lock_other.go:7-8`: collisions without flock are such that "the final digest check catches" them.
   It checks the bytes the fetch itself wrote, not the file's, and a corrupt blob can be committed
   (`BlobCacheNoLock`).  Between goroutines of one process the claim holds (`CollisionsAreCaught`).
2. `store.go:334-335`: `Resolve` by digest "trusts the write order (layers, config, manifest blob)".
   `Push` goes on after a failed upload, so there is no such order: a manifest blob may be stored
   without its config or layers.  `Resolve` then returns it, the registry is never asked, and each later
   pull by this digest fails (`PullPinned`).  For the same reason `store.go:10`, "every digest a stored
   file refers to is present in the store", is true of leaves only, for which it is proved.  While
   the order holds these pulls succeed (`PinnedPullsTrustTheOrder`).
3. `pull.go:277-278`: a layer with the same chain ID "is reusable when its content agrees".  It is
   compared only when `PutLayer` meets it; one that is there a moment earlier (`pull.go:220`) is taken by
   its ID (`PullReuse`).  It is safe when images are what they say (`RecordsAreTrue`).
4. `store.go:75`: a marker's "presence records that blob decompresses to diffID".  `Commit` writes it
   from the config alone, and a push may serve the wrong blob for a layer (`PushMarked`);
   not when images are what they say (`ServedIsTrue`).
5. `cli/copy.go:49-50`: output "already show[s] each entry's failure".  With a platform given twice both
   failures go to the first of two entries (`CopyTwice`).  Without a repeated platform they do not
   (`CountIsRight`).

Seen in the models, but not kept as runs: `blobcache.go:138`, "one fresh attempt tells them apart", holds
within one process (`GoodSourceHeals`); with several, another can fill the partial file between the two
attempts.  `copy.go:141-143` returns only the rest when the plan fails as a whole; with the code as it is
the rest is empty there.
`transfer/ocidir.go:23`: a digest "matches a descriptor at the top level or inside nested indexes".  `find`
ends its search of an index at a nested one that it cannot read (76-77), and its caller drops that error (79):
while the nested one has not arrived, what the index lists after it is answered with `ErrNotExist`, though
its descriptor and its manifest are there.  In the run's layouts it is `mc`, which `iz` lists after `ix`.
`AnswersRight` names this case (`HalfNested`) and excludes no other.

## 6. Plan, and what is not modelled

Done: `BlobCache`, `Store`, `Push`; `CStorage`, `Pull`, `PushSource`, `Exchange`; `Backend`, `Paths`,
`FsDir`; `Copy`, `OciDir`.  What is left, the most useful first:

1. A larger `Exchange`: three processes, or two pulls next to podman, in a run of its own.
2. The composition of `Push` with `PushSource`: several entries whose sources are resolved while the
   first ones are uploaded by another command.

Not modelled, and why.  `s3dir`'s spooling and listing and the protocols of S3 and the registry are
their libraries'; `httpdir` and the views of a leaf (`leafDir`, `SingleManifestDir`) only read.
`Service.List` and the list command are a loop around `Walk`, whose reading of names is in `Paths`; the
config command changes nothing.  Parsing of locations, references and platforms, flags, output formats,
progress, logging, signals, user directories and the user namespace have no state that a property could
be about; a location enters `Copy` as valid or not.  `HasDiffIDBlob` is called by nothing.  The test
helpers in `internal` are the tests' own.  Power loss is modelled where the code syncs (`BlobCache`),
and not for `fsdir`, which neither syncs nor promises anything.
