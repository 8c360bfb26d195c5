------------------------------ MODULE BlobCache ------------------------------
(***************************************************************************)
(* Package blobcache for one digest: the goroutines of several processes   *)
(* run Fetch, Put and Open on one cache directory.  Digests do not share   *)
(* files, mutexes or locks, so one digest shows all the package does.      *)
(*                                                                         *)
(* A file's bytes are a sequence of chunks, each the blob's own chunk of   *)
(* that position ("good") or not ("bad"); they match the digest exactly    *)
(* when they are Whole.  Inodes are reused when no name and no descriptor  *)
(* refers to them, as a file system does; os.SameFile compares inodes.     *)
(***************************************************************************)
EXTENDS Integers, Sequences

CONSTANTS
  Workers,      \* goroutines that call the cache
  Processes,    \* processes; each has one Cache value, hence one mutex
  ProcessOf,    \* ProcessOf[w]: the process of goroutine w
  Inodes,       \* the files that exist or can be created (bound)
  None,         \* no inode, no worker
  BlobSize,     \* length of the blob the digest names
  DescSizes,    \* sizes the callers' descriptors claim for it
  Locking       \* TRUE for lock_unix.go, FALSE for lock_other.go

ASSUME CacheAssumption ==
  /\ ProcessOf \in [Workers -> Processes]
  /\ None \notin Workers
  /\ None \notin Inodes
  /\ BlobSize \in Nat
  /\ DescSizes \subseteq Nat
  /\ Locking \in BOOLEAN

VARIABLES
  partial,      \* the inode at partial/<alg>/<hex>, or None
  blob,         \* the inode at blobs/<alg>/<hex>, or None
  content,      \* content[i]: the bytes of inode i
  synced,       \* synced[i]: they are on disk, so a power loss keeps them
  flock,        \* flock[i]: the worker that holds the lock on inode i
  mutex,        \* mutex[p]: the worker of p that holds Cache.lock(digest)
  pc,           \* pc[w]: where w is in Fetch, Put or a read
  file,         \* file[w]: the inode w has open (in Put: its scratch file)
  call,         \* call[w]: the source and the descriptor of the Fetch
  sum,          \* sum[w]: the bytes the digester has seen; `done` is Len(sum[w])
  resumed,      \* resumed[w]: this attempt reuses a non-empty prefix
  retry,        \* retry[w]: this is the second attempt of Fetch
  res           \* res[w]: what fetch, or Put, is about to return

vars == <<partial, blob, content, synced, flock, mutex, pc, file, call, sum,
          resumed, retry, res>>

disk == <<partial, blob, content, synced>>
attempt == <<call, sum, resumed, retry>>

Chunk == {"good", "bad"}
Whole == [i \in 1..BlobSize |-> "good"]

Calls == [source : {"good", "bad"}, size : Nat]
NoCall == [source |-> "good", size |-> BlobSize]

FetchSteps == {"lock", "has", "open", "flock", "same", "recheck", "stat",
               "copy", "sync", "commit", "close"}
PutSteps == {"putlock", "puthas", "putcommit"}
Steps == {"idle", "read", "unlock"} \cup FetchSteps \cup PutSteps

TypeOK ==
  /\ partial \in Inodes \cup {None}
  /\ blob \in Inodes \cup {None}
  /\ content \in [Inodes -> Seq(Chunk)]
  /\ synced \in [Inodes -> BOOLEAN]
  /\ flock \in [Inodes -> Workers \cup {None}]
  /\ mutex \in [Processes -> Workers \cup {None}]
  /\ pc \in [Workers -> Steps]
  /\ file \in [Workers -> Inodes \cup {None}]
  /\ call \in [Workers -> Calls]
  /\ sum \in [Workers -> Seq(Chunk)]
  /\ resumed \in [Workers -> BOOLEAN]
  /\ retry \in [Workers -> BOOLEAN]
  /\ res \in [Workers -> {"none", "ok", "mismatch", "err"}]

Init ==
  /\ partial = None
  /\ blob = None
  /\ content = [i \in Inodes |-> <<>>]
  /\ synced = [i \in Inodes |-> FALSE]
  /\ flock = [i \in Inodes |-> None]
  /\ mutex = [p \in Processes |-> None]
  /\ pc = [w \in Workers |-> "idle"]
  /\ file = [w \in Workers |-> None]
  /\ call = [w \in Workers |-> NoCall]
  /\ sum = [w \in Workers |-> <<>>]
  /\ resumed = [w \in Workers |-> FALSE]
  /\ retry = [w \in Workers |-> FALSE]
  /\ res = [w \in Workers |-> "none"]

-----------------------------------------------------------------------------
(* Helpers.                                                                *)

Goto(w, from, to) ==
  /\ pc[w] = from
  /\ pc' = [pc EXCEPT ![w] = to]

\* w leaves step `from` for `to` and will return r.
Leave(w, from, to, r) ==
  /\ Goto(w, from, to)
  /\ res' = [res EXCEPT ![w] = r]

\* An inode to create: no name and no open file refers to it.
Unused(i) ==
  /\ i # partial
  /\ i # blob
  /\ \A w \in Workers : file[w] # i

\* f.Write at offset `off`; a gap before it reads as zeros.
WriteAt(s, off, c) ==
  LET len == IF off < Len(s) THEN Len(s) ELSE off + 1
  IN  [i \in 1..len |-> IF i = off + 1 THEN c
                        ELSE IF i <= Len(s) THEN s[i] ELSE "bad"]

\* What src.ReadAt can return at the offset `done`: chunks, and whether it can say io.EOF
\* although the descriptor asks for more.
Offers(w) == IF call[w].source = "bad" THEN Chunk
             ELSE IF Len(sum[w]) < BlobSize THEN {"good"} ELSE {}
EndsEarly(w) == call[w].source = "bad" \/ Len(sum[w]) >= BlobSize

\* Cache.discard removes the name, whichever inode it refers to by now.
Discard == partial' = None

\* Mutant: the descriptor is leaked, so the lock stays.
CloseFileLeaked(w) == file' = [file EXCEPT ![w] = None] /\ UNCHANGED flock

\* Closing w's file releases the lock w holds on it, if any.
CloseFile(w) ==
  /\ flock' = [i \in Inodes |-> IF i = file[w] /\ flock[i] = w
                                THEN None ELSE flock[i]]
  /\ file' = [file EXCEPT ![w] = None]

\* Mutant: the mutex is not waited for.
AcquireMutexAlways(w, from, to) ==
  /\ Goto(w, from, to)
  /\ mutex' = [mutex EXCEPT ![ProcessOf[w]] = w]
  /\ UNCHANGED <<disk, flock, file, attempt, res>>

\* Cache.lock
AcquireMutex(w, from, to) ==
  /\ Goto(w, from, to)
  /\ mutex[ProcessOf[w]] = None
  /\ mutex' = [mutex EXCEPT ![ProcessOf[w]] = w]
  /\ UNCHANGED <<disk, flock, file, attempt, res>>

\* The deferred unlock of Fetch and Put; the call returns and its locals are gone.
Unlock(w) ==
  /\ Goto(w, "unlock", "idle")
  /\ mutex' = [mutex EXCEPT ![ProcessOf[w]] = None]
  /\ call' = [call EXCEPT ![w] = NoCall]
  /\ sum' = [sum EXCEPT ![w] = <<>>]
  /\ resumed' = [resumed EXCEPT ![w] = FALSE]
  /\ retry' = [retry EXCEPT ![w] = FALSE]
  /\ res' = [res EXCEPT ![w] = "none"]
  /\ UNCHANGED <<disk, flock, file>>

-----------------------------------------------------------------------------
(* Fetch: the mutex, the first Has, openLocked, the Has under the lock.     *)

FetchBegin(w) ==
  /\ Goto(w, "idle", "lock")
  /\ \E s \in {"good", "bad"}, n \in DescSizes :
       call' = [call EXCEPT ![w] = [source |-> s, size |-> n]]
  /\ UNCHANGED <<disk, flock, mutex, file, sum, resumed, retry, res>>

FetchLock(w) == AcquireMutex(w, "lock", "has")

FetchHas(w) ==
  /\ IF blob # None THEN Leave(w, "has", "unlock", "ok")
                    ELSE Goto(w, "has", "open") /\ UNCHANGED res
  /\ UNCHANGED <<disk, flock, mutex, file, attempt>>

\* OpenFile with O_CREATE.
OpenPartial(w) ==
  /\ Goto(w, "open", "flock")
  /\ \/ /\ partial # None
        /\ file' = [file EXCEPT ![w] = partial]
        /\ UNCHANGED disk
     \/ /\ partial = None
        /\ \E i \in Inodes :
             /\ Unused(i)
             /\ partial' = i
             /\ file' = [file EXCEPT ![w] = i]
             /\ content' = [content EXCEPT ![i] = <<>>]
             /\ synced' = [synced EXCEPT ![i] = FALSE]
        /\ UNCHANGED blob
  /\ UNCHANGED <<flock, mutex, attempt, res>>

\* Mutant: LOCK_SH in place of LOCK_EX.
LockFileShared(w) ==
  /\ Goto(w, "flock", "same")
  /\ flock' = [flock EXCEPT ![file[w]] = w]
  /\ UNCHANGED <<disk, mutex, file, attempt, res>>

\* lockFile: waits for the lock, or returns at once where there is none.
LockFile(w) ==
  /\ Goto(w, "flock", "same")
  /\ IF Locking
     THEN /\ flock[file[w]] = None
          /\ flock' = [flock EXCEPT ![file[w]] = w]
     ELSE UNCHANGED flock
  /\ UNCHANGED <<disk, mutex, file, attempt, res>>

\* Mutant: the locked file is taken for the one at the name.
CheckSameDropped(w) ==
  /\ Goto(w, "same", "recheck")
  /\ UNCHANGED <<disk, flock, file, mutex, attempt, res>>

\* os.SameFile(held, current); otherwise close and open again.
CheckSame(w) ==
  /\ IF partial = file[w]
     THEN Goto(w, "same", "recheck") /\ UNCHANGED <<flock, file>>
     ELSE Goto(w, "same", "open") /\ CloseFile(w)
  /\ UNCHANGED <<disk, mutex, attempt, res>>

RecheckHas(w) ==
  /\ IF blob # None THEN Leave(w, "recheck", "close", "ok")
                    ELSE Goto(w, "recheck", "stat") /\ UNCHANGED res
  /\ UNCHANGED <<disk, flock, mutex, file, attempt>>

-----------------------------------------------------------------------------
(* Fetch: the copy, under the lock on the partial file.                     *)

\* The prefix an attempt starts from; an oversized file is truncated.
Prefix(w) == IF Len(content[file[w]]) > call[w].size
             THEN <<>> ELSE content[file[w]]

\* Mutant: the oversized file is not truncated, only the offset is reset.
StatNoTruncate(w) ==
  /\ Goto(w, "stat", "copy")
  /\ sum' = [sum EXCEPT ![w] = Prefix(w)]
  /\ resumed' = [resumed EXCEPT ![w] = Prefix(w) # <<>>]
  /\ UNCHANGED <<disk, flock, mutex, file, call, retry, res>>

StatAndHash(w) ==
  /\ Goto(w, "stat", "copy")
  /\ content' = [content EXCEPT ![file[w]] = Prefix(w)]
  /\ synced' = [synced EXCEPT ![file[w]] = @ /\ Prefix(w) = content[file[w]]]
  /\ sum' = [sum EXCEPT ![w] = Prefix(w)]
  /\ resumed' = [resumed EXCEPT ![w] = Prefix(w) # <<>>]
  /\ UNCHANGED <<partial, blob, flock, mutex, file, call, retry, res>>

\* One ReadAt that returns bytes, and the write of them to the file and the digester.
ReadChunk(w) ==
  /\ Goto(w, "copy", "copy")
  /\ Len(sum[w]) < call[w].size
  /\ \E c \in Offers(w) :
       /\ content' = [content EXCEPT ![file[w]] = WriteAt(@, Len(sum[w]), c)]
       /\ sum' = [sum EXCEPT ![w] = Append(@, c)]
  /\ synced' = [synced EXCEPT ![file[w]] = FALSE]
  /\ UNCHANGED <<partial, blob, flock, mutex, file, call, resumed, retry, res>>

\* Mutant: io.EOF is returned as it is, not as ErrMismatch.
SourceEndsRaw(w) ==
  /\ Len(sum[w]) < call[w].size
  /\ EndsEarly(w)
  /\ Leave(w, "copy", "close", "EOF")
  /\ Discard
  /\ UNCHANGED <<blob, content, synced, flock, mutex, file, attempt>>

\* io.EOF before desc.Size.
SourceEnds(w) ==
  /\ Len(sum[w]) < call[w].size
  /\ EndsEarly(w)
  /\ Leave(w, "copy", "close", "mismatch")
  /\ Discard
  /\ UNCHANGED <<blob, content, synced, flock, mutex, file, attempt>>

\* A cancelled context, any other read error, a write error: the partial file stays.
Interrupt(w) ==
  /\ Leave(w, "copy", "close", "err")
  /\ UNCHANGED <<disk, flock, mutex, file, attempt>>

\* Mutant: the size is taken as proof of the content.
VerifySizeOnly(w) ==
  /\ Len(sum[w]) >= call[w].size
  /\ Goto(w, "copy", "sync")
  /\ UNCHANGED <<disk, flock, mutex, file, attempt, res>>

Verify(w) ==
  /\ Len(sum[w]) >= call[w].size
  /\ IF sum[w] = Whole
     THEN Goto(w, "copy", "sync") /\ UNCHANGED <<partial, res>>
     ELSE Leave(w, "copy", "close", "mismatch") /\ Discard
  /\ UNCHANGED <<blob, content, synced, flock, mutex, file, attempt>>

\* Mutant: no Sync before the rename.
SyncSkipped(w) ==
  /\ Goto(w, "sync", "commit")
  /\ UNCHANGED <<disk, flock, mutex, file, attempt, res>>

Sync(w) ==
  /\ Goto(w, "sync", "commit")
  /\ synced' = [synced EXCEPT ![file[w]] = TRUE]
  /\ UNCHANGED <<partial, blob, content, flock, mutex, file, attempt, res>>

\* Rename: of whatever the name refers to by now.
Commit(w) ==
  /\ partial # None
  /\ Leave(w, "commit", "close", "ok")
  /\ blob' = partial
  /\ partial' = None
  /\ UNCHANGED <<content, synced, flock, mutex, file, attempt>>

\* Mutant: the error of the rename is dropped.
RenameErrorDropped(w) ==
  /\ Leave(w, "commit", "close", "ok")
  /\ UNCHANGED <<disk, flock, mutex, file, attempt>>

\* An error of MkdirAll, OpenFile, flock, Stat, Truncate, Sync or Rename; the rename fails
\* in particular when the name is gone.
IOFails(w) ==
  /\ \/ Leave(w, "open", "unlock", "err")
     \/ \E s \in {"flock", "same", "stat", "sync", "commit"} :
          Leave(w, s, "close", "err")
  /\ UNCHANGED <<disk, flock, mutex, file, attempt>>

\* Mutant: no second attempt.
RetriesNever(w) == FALSE

\* Fetch tries once more after a mismatch on a resumed prefix.
Retries(w) == res[w] = "mismatch" /\ resumed[w] /\ ~retry[w]

\* Mutant: the mismatching file is discarded after the lock is let go.
CloseThenDiscard(w) ==
  /\ CloseFile(w)
  /\ Goto(w, "close", "unlock")
  /\ IF res[w] = "mismatch" THEN Discard ELSE UNCHANGED partial
  /\ UNCHANGED <<blob, content, synced, mutex, attempt, res>>

\* The deferred f.Close, and Fetch's decision after it.
Close(w) ==
  /\ CloseFile(w)
  /\ IF Retries(w)
     THEN /\ Leave(w, "close", "open", "none")
          /\ retry' = [retry EXCEPT ![w] = TRUE]
          /\ resumed' = [resumed EXCEPT ![w] = FALSE]
          /\ sum' = [sum EXCEPT ![w] = <<>>]
     ELSE Goto(w, "close", "unlock") /\ UNCHANGED <<retry, resumed, sum, res>>
  /\ UNCHANGED <<disk, mutex, call>>

FetchStep(w) ==
  \/ FetchLock(w) \/ FetchHas(w) \/ OpenPartial(w) \/ LockFile(w)
  \/ CheckSame(w) \/ RecheckHas(w) \/ StatAndHash(w) \/ ReadChunk(w)
  \/ SourceEnds(w) \/ Verify(w) \/ Sync(w) \/ Commit(w) \/ Close(w)

Fault(w) == Interrupt(w) \/ IOFails(w)

-----------------------------------------------------------------------------
(* Put of a stream with this digest, and a read of the blob.               *)

\* The stream is in a scratch file, hashed and synced.  A stream that fails before leaves nothing.
PutBegin(w) ==
  /\ Goto(w, "idle", "putlock")
  /\ \E i \in Inodes :
       /\ Unused(i)
       /\ file' = [file EXCEPT ![w] = i]
       /\ content' = [content EXCEPT ![i] = Whole]
       /\ synced' = [synced EXCEPT ![i] = TRUE]
  /\ UNCHANGED <<partial, blob, flock, mutex, attempt, res>>

PutLock(w) == AcquireMutex(w, "putlock", "puthas")

\* When the blob is there, the deferred cleanup removes the duplicate.
PutHas(w) ==
  /\ IF blob # None
     THEN Leave(w, "puthas", "unlock", "ok") /\ file' = [file EXCEPT ![w] = None]
     ELSE Goto(w, "puthas", "putcommit") /\ UNCHANGED <<file, res>>
  /\ UNCHANGED <<disk, flock, mutex, attempt>>

\* Rename of the scratch file, replacing a blob another process made meanwhile.
PutCommit(w) ==
  /\ file' = [file EXCEPT ![w] = None]
  /\ \/ Leave(w, "putcommit", "unlock", "ok") /\ blob' = file[w]
     \/ Leave(w, "putcommit", "unlock", "err") /\ UNCHANGED blob
  /\ UNCHANGED <<partial, content, synced, flock, mutex, attempt>>

PutStep(w) == PutLock(w) \/ PutHas(w) \/ PutCommit(w)

\* Cache.Open and the Close of the file it returned.
OpenBlob(w) ==
  /\ blob # None
  /\ Goto(w, "idle", "read")
  /\ file' = [file EXCEPT ![w] = blob]
  /\ UNCHANGED <<disk, flock, mutex, attempt, res>>

CloseBlob(w) ==
  /\ Goto(w, "read", "idle")
  /\ file' = [file EXCEPT ![w] = None]
  /\ UNCHANGED <<disk, flock, mutex, attempt, res>>

-----------------------------------------------------------------------------
(* A process dies at any point; the machine loses power.                    *)

\* The workers of K are gone: their files are closed, their locks released.
Kill(K) ==
  /\ pc' = [w \in Workers |-> IF w \in K THEN "idle" ELSE pc[w]]
  /\ file' = [w \in Workers |-> IF w \in K THEN None ELSE file[w]]
  /\ call' = [w \in Workers |-> IF w \in K THEN NoCall ELSE call[w]]
  /\ sum' = [w \in Workers |-> IF w \in K THEN <<>> ELSE sum[w]]
  /\ resumed' = [w \in Workers |-> w \notin K /\ resumed[w]]
  /\ retry' = [w \in Workers |-> w \notin K /\ retry[w]]
  /\ res' = [w \in Workers |-> IF w \in K THEN "none" ELSE res[w]]
  /\ flock' = [i \in Inodes |-> IF flock[i] \in K THEN None ELSE flock[i]]
  /\ mutex' = [p \in Processes |-> IF mutex[p] \in K THEN None ELSE mutex[p]]

Crash(p) ==
  /\ \E w \in Workers : ProcessOf[w] = p /\ pc[w] # "idle"
  /\ Kill({w \in Workers : ProcessOf[w] = p})
  /\ UNCHANGED disk

\* Bytes that were not synced are cut after k chunks, those of B lost.
Tear(s, k, B) ==
  [j \in 1..(IF k < Len(s) THEN k ELSE Len(s)) |-> IF j \in B THEN "bad" ELSE s[j]]

PowerLoss ==
  /\ Kill(Workers)
  /\ \E k \in 0..BlobSize, B \in SUBSET (1..BlobSize) :
       content' = [i \in Inodes |-> IF synced[i] THEN content[i]
                                    ELSE Tear(content[i], k, B)]
  /\ UNCHANGED <<partial, blob, synced>>

Begin(w) == FetchBegin(w) \/ PutBegin(w) \/ OpenBlob(w)
Step(w) == FetchStep(w) \/ PutStep(w) \/ Unlock(w) \/ CloseBlob(w)

Next ==
  \/ \E w \in Workers : Begin(w) \/ Step(w) \/ Fault(w)
  \/ \E p \in Processes : Crash(p)
  \/ PowerLoss

Spec == Init /\ [][Next]_vars

-----------------------------------------------------------------------------
(* Properties.                                                              *)

\* w is past openLocked and has not closed the partial file yet.
Holding(w) == pc[w] \in {"recheck", "stat", "copy", "sync", "commit"}

\* What the cache is for: a file at blobs/<alg>/<hex> has the digest's content, and no power
\* loss can take it away (the digest check and the Sync before each rename).
CommittedIsWhole == blob # None => content[blob] = Whole /\ synced[blob]

\* openLocked: "the locked file is always the one at name", and one worker at a time has it,
\* across goroutines and processes and however the waiters wake up.
OneHolder ==
  \A w \in Workers : Holding(w) =>
    /\ partial = file[w]
    /\ \A v \in Workers : Holding(v) => v = w

\* The digester of an attempt has seen exactly the bytes that are in the file, those another
\* process left there included; so the digest it checks is the file's.
DigestIsOfFile ==
  \A w \in Workers : pc[w] \in {"copy", "sync", "commit"} => sum[w] = content[file[w]]

\* A reader keeps seeing the blob after Open, though Put may replace the file under its name.
ReadersSeeWhole == \A w \in Workers : pc[w] = "read" => content[file[w]] = Whole

\* "There concurrent processes can still collide on a partial file, which the final digest
\* check catches" (lock_other.go:7-8): whatever collides, a committed blob has its content.
CollisionsCaught == blob # None => content[blob] = Whole

\* A Fetch or Put that returns no error leaves the blob in the cache.
OkMeansStored == \A w \in Workers : res[w] = "ok" => blob # None

\* Fetch from a source that has the blob, with the right size, never reports a mismatch: "one
\* fresh attempt" tells a corrupt prefix from a corrupt source (blobcache.go:138).
GoodSourceHeals ==
  \A w \in Workers :
    pc[w] = "unlock" /\ res[w] = "mismatch" =>
      call[w] # [source |-> "good", size |-> BlobSize]

\* Only a worker that holds the partial file takes its name away, and it does so before it lets
\* the lock go (blobcache.go:159-160); nobody loses a prefix someone else is filling.
OnlyHolderRemoves ==
  [][partial # None /\ partial' # partial =>
       \E w \in Workers : Holding(w) /\ file[w] = partial /\ file'[w] = partial]_vars

\* The detailed cache implements BlobPool.
Stored == IF blob = None THEN "absent"
          ELSE IF content[blob] = Whole /\ synced[blob] THEN "valid" ELSE "damaged"

Outcome(w) == CASE pc[w] \in {"idle", "read"} -> "idle"
                [] pc[w] = "unlock" -> IF res[w] = "ok" THEN "ok" ELSE "failed"
                [] OTHER -> "pending"

Pool == INSTANCE BlobPool WITH
          stored <- Stored, outcome <- [w \in Workers |-> Outcome(w)]

ImplementsPool == Pool!PoolSpec

-----------------------------------------------------------------------------
(* The inductive invariant of the build that locks.                         *)

HoldSteps == {"recheck", "stat", "copy", "sync", "commit"}
NoFileSteps == {"idle", "lock", "has", "open", "unlock"}

\* Who has a file open.
FilesOpen == \A w \in Workers : file[w] = None <=> pc[w] \in NoFileSteps

\* Who has which lock.
LockInv ==
  /\ \A w \in Workers : pc[w] \in HoldSteps \cup {"same"} => flock[file[w]] = w
  /\ \A i \in Inodes : flock[i] # None =>
       /\ file[flock[i]] = i
       /\ pc[flock[i]] \in HoldSteps \cup {"same", "close"}

\* The holder has the file at the partial name; the two names are never one file.
NameInv ==
  /\ \A w \in Workers : pc[w] \in HoldSteps => partial = file[w]
  /\ partial # None => partial # blob

\* How far the holder is with the file it will commit.
WriterInv ==
  \A w \in Workers :
    /\ pc[w] \in {"copy", "sync", "commit"} => sum[w] = content[file[w]]
    /\ pc[w] \in {"sync", "commit"} => sum[w] = Whole
    /\ pc[w] = "commit" => synced[file[w]]

\* A scratch file of Put is complete and its own; a file being read is complete and no
\* longer at the partial name.
PrivateInv ==
  \A w \in Workers :
    /\ pc[w] \in PutSteps \cup {"read"} =>
         content[file[w]] = Whole /\ synced[file[w]] /\ file[w] # partial
    /\ pc[w] \in PutSteps =>
         file[w] # blob /\ \A v \in Workers : file[v] = file[w] => v = w

\* What the proofs in BlobCacheProofs.tla carry from step to step: the types with who has a file
\* open, and what becomes of the files.
TypeInv == TypeOK /\ FilesOpen
FilesInv == NameInv /\ WriterInv /\ PrivateInv /\ CommittedIsWhole /\ OkMeansStored
IInv == TypeInv /\ LockInv /\ FilesInv

\* All that the files need of the locks: nobody else is past openLocked, or about to find that it
\* has the right file, with the file of a holder.
Apart ==
  \A v, w \in Workers :
    pc[w] \in HoldSteps /\ pc[v] \in HoldSteps \cup {"same"} /\ file[v] = file[w] => v = w

-----------------------------------------------------------------------------
(* The inductive invariant of one process, with or without flock.           *)

OneProcess == \A v, w \in Workers : ProcessOf[v] = ProcessOf[w]

\* Between Cache.lock and its unlock.
Section == (FetchSteps \ {"lock"}) \cup {"puthas", "putcommit", "unlock"}

SectionInv == \A w \in Workers : pc[w] \in Section => mutex[ProcessOf[w]] = w

Good(w) == call[w] = [source |-> "good", size |-> BlobSize]

\* The holder has the file at the partial name.  A mismatch takes the name away, so a second attempt
\* starts from an empty file; from an empty prefix a good source yields only what the digest names.
HealOf(w) ==
  /\ pc[w] \in HoldSteps => partial = file[w]
  /\ pc[w] = "close" /\ res[w] = "mismatch" => partial = None
  /\ res[w] = "mismatch" => pc[w] \in {"close", "unlock"}
  /\ retry[w] =>
       /\ pc[w] \in (FetchSteps \ {"lock", "has"}) \cup {"unlock"}
       /\ ~resumed[w]
       /\ pc[w] = "open" => partial = None
       /\ pc[w] \in {"flock", "same", "recheck", "stat"} =>
            partial = file[w] /\ content[file[w]] = <<>>
  /\ Good(w) =>
       /\ pc[w] = "copy" /\ ~resumed[w] =>
            Len(sum[w]) <= BlobSize /\ \A i \in DOMAIN sum[w] : sum[w][i] = "good"
       /\ res[w] = "mismatch" => pc[w] = "close" /\ Retries(w)

HealInv == TypeInv /\ SectionInv /\ \A w \in Workers : HealOf(w)
=============================================================================
