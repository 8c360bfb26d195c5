--------------------------- MODULE BlobCacheProofs ---------------------------
(***************************************************************************)
(* Proofs about BlobCache, for any number of workers, processes and files, *)
(* any blob size and any descriptor sizes.                                 *)
(***************************************************************************)
EXTENDS BlobCache, SequenceTheorems, TLAPS

-----------------------------------------------------------------------------
(* Facts about the operators on file contents.                             *)

\* The blob's bytes are a sequence of chunks.
LEMMA WholeType == Whole \in Seq(Chunk)
  BY CacheAssumption DEF Whole, Chunk

\* A write gives a file of chunks, wherever it goes.
LEMMA WriteAtType ==
  ASSUME NEW s \in Seq(Chunk), NEW off \in Nat, NEW c \in Chunk
  PROVE  WriteAt(s, off, c) \in Seq(Chunk)
  <1> DEFINE len == IF off < Len(s) THEN Len(s) ELSE off + 1
             t == [i \in 1..len |-> IF i = off + 1 THEN c
                        ELSE IF i <= Len(s) THEN s[i] ELSE "bad"]
  <1>1. len \in Nat
    OBVIOUS
  <1>2. \A i \in 1..len : t[i] \in Chunk
    BY DEF Chunk
  <1> HIDE DEF len
  <1>3. t \in [1..len -> Chunk]
    BY <1>2
  <1>4. t \in Seq(Chunk)
    BY <1>1, <1>3
  <1> QED
    BY <1>4 DEF WriteAt, len

\* A write at the end of a file appends.
LEMMA WriteAtEnd ==
  ASSUME NEW s \in Seq(Chunk), NEW c \in Chunk
  PROVE  WriteAt(s, Len(s), c) = Append(s, c)
  <1> DEFINE t == [i \in 1..(Len(s) + 1) |-> IF i = Len(s) + 1 THEN c
                        ELSE IF i <= Len(s) THEN s[i] ELSE "bad"]
             a == Append(s, c)
  <1>1. WriteAt(s, Len(s), c) = t
    BY DEF WriteAt
  <1>2. t \in Seq(Chunk)
    <2>1. Len(s) \in Nat
      BY LenProperties
    <2>2. WriteAt(s, Len(s), c) \in Seq(Chunk)
      BY <2>1, WriteAtType
    <2> QED
      BY <1>1, <2>2
  <1>3. /\ a \in Seq(Chunk)
        /\ Len(a) = Len(s) + 1
        /\ \A i \in 1..Len(s) : a[i] = s[i]
        /\ a[Len(s) + 1] = c
    BY AppendProperties
  <1>4. Len(t) = Len(s) + 1
    BY LenProperties
  <1>5. \A i \in 1..Len(t) : t[i] = a[i]
    BY <1>3, <1>4, LenProperties
  <1> HIDE DEF t, a
  <1>6. t = a
    BY <1>2, <1>3, <1>4, <1>5, SeqEqual
  <1> QED
    BY <1>1, <1>6 DEF a

\* What a power loss leaves of a file of chunks is a file of chunks.
LEMMA TearType ==
  ASSUME NEW s \in Seq(Chunk), NEW k \in Nat, NEW B
  PROVE  Tear(s, k, B) \in Seq(Chunk)
  <1> DEFINE n == IF k < Len(s) THEN k ELSE Len(s)
             t == [j \in 1..n |-> IF j \in B THEN "bad" ELSE s[j]]
  <1>1. n \in Nat /\ n <= Len(s)
    OBVIOUS
  <1>2. \A j \in 1..n : t[j] \in Chunk
    BY <1>1 DEF Chunk
  <1> HIDE DEF n
  <1>3. t \in [1..n -> Chunk]
    BY <1>2
  <1>4. t \in Seq(Chunk)
    BY <1>1, <1>3
  <1> QED
    BY <1>4 DEF Tear, n

-----------------------------------------------------------------------------
(* Type correctness, of both builds.                                       *)

\* The type invariant is inductive together with who has a file open.
LEMMA TypeInit == Init => TypeInv
  BY CacheAssumption DEF Init, TypeInv, TypeOK, FilesOpen, NoFileSteps, Calls, NoCall, Steps

\* Closing a file leaves a lock table and a file table.
LEMMA CloseFileType ==
  ASSUME TypeOK, NEW w \in Workers, CloseFile(w)
  PROVE  /\ flock' \in [Inodes -> Workers \cup {None}]
         /\ file' \in [Workers -> Inodes \cup {None}]
         /\ file' = [file EXCEPT ![w] = None]
  BY DEF CloseFile, TypeOK

\* The steps that fill the partial file.
LEMMA TypeCopy ==
  ASSUME TypeInv, NEW w \in Workers, StatAndHash(w) \/ ReadChunk(w)
  PROVE  TypeInv'
  <1> USE DEF TypeInv, TypeOK, Goto
  <1>0. file[w] \in Inodes /\ content[file[w]] \in Seq(Chunk) /\ sum[w] \in Seq(Chunk)
    BY DEF StatAndHash, ReadChunk, FilesOpen, NoFileSteps
  <1>1. CASE StatAndHash(w)
    <2>1. Prefix(w) \in Seq(Chunk)
      BY <1>0 DEF Prefix
    <2>2. content' \in [Inodes -> Seq(Chunk)] /\ sum' \in [Workers -> Seq(Chunk)]
      BY <1>1, <2>1 DEF StatAndHash
    <2>3. synced' \in [Inodes -> BOOLEAN]
      BY <1>0, <1>1 DEF StatAndHash
    <2>4. resumed' \in [Workers -> BOOLEAN]
      BY <1>1 DEF StatAndHash
    <2>5. pc' \in [Workers -> Steps] /\ FilesOpen'
      BY <1>1 DEF StatAndHash, FilesOpen, NoFileSteps, Steps, FetchSteps
    <2> QED
      BY <1>1, <2>2, <2>3, <2>4, <2>5 DEF StatAndHash
  <1>2. CASE ReadChunk(w)
    <2>1. PICK c \in Offers(w) :
            /\ content' = [content EXCEPT ![file[w]] = WriteAt(@, Len(sum[w]), c)]
            /\ sum' = [sum EXCEPT ![w] = Append(@, c)]
      BY <1>2 DEF ReadChunk
    <2>2. c \in Chunk
      BY DEF Offers, Chunk
    <2>3. Len(sum[w]) \in Nat
      BY <1>0, LenProperties
    <2>4. WriteAt(content[file[w]], Len(sum[w]), c) \in Seq(Chunk)
      BY <1>0, <2>2, <2>3, WriteAtType
    <2>5. Append(sum[w], c) \in Seq(Chunk)
      BY <1>0, <2>2, AppendProperties
    <2>6. content' \in [Inodes -> Seq(Chunk)] /\ sum' \in [Workers -> Seq(Chunk)]
      BY <2>1, <2>4, <2>5
    <2>7. pc' \in [Workers -> Steps] /\ FilesOpen'
      BY <1>2 DEF ReadChunk, FilesOpen, NoFileSteps
    <2> QED
      BY <1>2, <2>6, <2>7 DEF ReadChunk
  <1> QED
    BY <1>1, <1>2

\* A crash and a power loss.
LEMMA TypeKill ==
  ASSUME TypeInv, NEW K, Kill(K)
  PROVE  /\ flock' \in [Inodes -> Workers \cup {None}]
         /\ mutex' \in [Processes -> Workers \cup {None}]
         /\ pc' \in [Workers -> Steps]
         /\ file' \in [Workers -> Inodes \cup {None}]
         /\ call' \in [Workers -> Calls]
         /\ sum' \in [Workers -> Seq(Chunk)]
         /\ resumed' \in [Workers -> BOOLEAN]
         /\ retry' \in [Workers -> BOOLEAN]
         /\ res' \in [Workers -> {"none", "ok", "mismatch", "err"}]
         /\ FilesOpen'
  <1> USE DEF TypeInv, TypeOK, Kill
  <1>1. call' \in [Workers -> Calls]
    BY CacheAssumption DEF NoCall, Calls
  <1>2. sum' \in [Workers -> Seq(Chunk)]
    OBVIOUS
  <1>3. FilesOpen' /\ pc' \in [Workers -> Steps]
    BY DEF FilesOpen, NoFileSteps, Steps
  <1> QED
    BY <1>1, <1>2, <1>3

\* A worker that moves keeps its file, or exchanges it for one that fits the new step.
LEMMA FilesMove ==
  ASSUME TypeInv, NEW w \in Workers, NEW b \in Steps, NEW f \in Inodes \cup {None},
         pc' = [pc EXCEPT ![w] = b],
         \/ file' = file /\ (pc[w] \in NoFileSteps <=> b \in NoFileSteps)
         \/ file' = [file EXCEPT ![w] = f] /\ (f = None <=> b \in NoFileSteps)
  PROVE  /\ pc' \in [Workers -> Steps]
         /\ file' \in [Workers -> Inodes \cup {None}]
         /\ FilesOpen'
  <1>1. /\ pc \in [Workers -> Steps] /\ file \in [Workers -> Inodes \cup {None}]
        /\ \A v \in Workers : file[v] = None <=> pc[v] \in NoFileSteps
    BY DEF TypeInv, TypeOK, FilesOpen
  <1>2. pc' \in [Workers -> Steps] /\ file' \in [Workers -> Inodes \cup {None}]
    BY <1>1
  <1>3. ASSUME NEW v \in Workers PROVE file'[v] = None <=> pc'[v] \in NoFileSteps
    <2>1. CASE v = w
      BY <1>1, <2>1
    <2>2. CASE v # w
      BY <1>1, <2>2
    <2> QED
      BY <2>1, <2>2
  <1>4. NoFileSteps' = NoFileSteps
    BY DEF NoFileSteps
  <1> QED
    BY <1>2, <1>3 DEF FilesOpen

\* Each action keeps the types; the ones that compute file contents use the lemmas above.
LEMMA TypeNext == TypeInv /\ [Next]_vars => TypeInv'
  <1> SUFFICES ASSUME TypeInv, [Next]_vars PROVE TypeInv'
    OBVIOUS
  <1> USE CacheAssumption DEF TypeInv, TypeOK, FilesOpen, NoFileSteps, Goto, Leave, disk, attempt
  <1>1. ASSUME NEW w \in Workers, FetchBegin(w) PROVE TypeInv'
    BY <1>1 DEF FetchBegin, Calls, Steps, FetchSteps
  <1>2. ASSUME NEW w \in Workers, PutBegin(w) PROVE TypeInv'
    BY <1>2, WholeType DEF PutBegin, Steps, PutSteps
  <1>3. ASSUME NEW w \in Workers, OpenBlob(w) PROVE TypeInv'
    BY <1>3 DEF OpenBlob, Steps
  <1>4. ASSUME NEW w \in Workers, FetchLock(w) \/ PutLock(w) PROVE TypeInv'
    <2>0. mutex' = [mutex EXCEPT ![ProcessOf[w]] = w]
      BY <1>4 DEF FetchLock, PutLock, AcquireMutex
    <2>1. mutex' \in [Processes -> Workers \cup {None}]
      BY <2>0
    <2>2. pc' \in [Workers -> Steps] /\ FilesOpen'
      BY <1>4 DEF FetchLock, PutLock, AcquireMutex, Steps, FetchSteps, PutSteps
    <2> QED
      BY <1>4, <2>1, <2>2 DEF FetchLock, PutLock, AcquireMutex
  <1>5. ASSUME NEW w \in Workers, FetchHas(w) PROVE TypeInv'
    BY <1>5 DEF FetchHas, Steps, FetchSteps
  <1>6. ASSUME NEW w \in Workers, OpenPartial(w) PROVE TypeInv'
    <2>1. CASE partial # None
      <3>1. file' = [file EXCEPT ![w] = partial]
        BY <1>6, <2>1 DEF OpenPartial
      <3>2. pc' \in [Workers -> Steps] /\ FilesOpen'
        BY <1>6, <2>1, <3>1 DEF OpenPartial, Steps, FetchSteps
      <3> QED
        BY <1>6, <2>1, <3>1, <3>2 DEF OpenPartial
    <2>2. CASE partial = None
      <3>1. PICK i \in Inodes :
              /\ partial' = i
              /\ file' = [file EXCEPT ![w] = i]
              /\ content' = [content EXCEPT ![i] = <<>>]
              /\ synced' = [synced EXCEPT ![i] = FALSE]
        BY <1>6, <2>2 DEF OpenPartial
      <3>2. <<>> \in Seq(Chunk)
        OBVIOUS
      <3>3. content' \in [Inodes -> Seq(Chunk)]
        BY <3>1, <3>2
      <3> QED
        BY <1>6, <2>2, <3>1, <3>3 DEF OpenPartial, Steps, FetchSteps
    <2> QED
      BY <2>1, <2>2
  <1>7. ASSUME NEW w \in Workers, LockFile(w) PROVE TypeInv'
    BY <1>7 DEF LockFile, Steps, FetchSteps
  <1>8. ASSUME NEW w \in Workers, CheckSame(w) PROVE TypeInv'
    <2>1. CASE partial = file[w]
      BY <1>8, <2>1 DEF CheckSame, Steps, FetchSteps
    <2>2. CASE partial # file[w]
      <3>1. /\ flock' \in [Inodes -> Workers \cup {None}]
            /\ file' \in [Workers -> Inodes \cup {None}]
            /\ file' = [file EXCEPT ![w] = None]
        BY <1>8, <2>2, CloseFileType DEF CheckSame
      <3>2. pc' = [pc EXCEPT ![w] = "open"] /\ "open" \in Steps
        BY <1>8, <2>2 DEF CheckSame, Steps, FetchSteps
      <3>3. pc' \in [Workers -> Steps] /\ FilesOpen'
        BY <3>1, <3>2, FilesMove
      <3> QED
        BY <1>8, <2>2, <3>1, <3>3 DEF CheckSame
    <2> QED
      BY <2>1, <2>2
  <1>9. ASSUME NEW w \in Workers, RecheckHas(w) PROVE TypeInv'
    <2>1. /\ \E b \in {"close", "stat"} : pc' = [pc EXCEPT ![w] = b] /\ b \in Steps
          /\ pc[w] = "recheck" /\ file' = file
          /\ res' \in [Workers -> {"none", "ok", "mismatch", "err"}]
      BY <1>9 DEF RecheckHas, Steps, FetchSteps
    <2>2. pc' \in [Workers -> Steps] /\ FilesOpen'
      BY <2>1, FilesMove
    <2> QED
      BY <1>9, <2>1, <2>2 DEF RecheckHas
  <1>10. ASSUME NEW w \in Workers, StatAndHash(w) PROVE TypeInv'
    BY <1>10, TypeCopy
  <1>11. ASSUME NEW w \in Workers, ReadChunk(w) PROVE TypeInv'
    BY <1>11, TypeCopy
  <1>12. ASSUME NEW w \in Workers, SourceEnds(w) PROVE TypeInv'
    BY <1>12 DEF SourceEnds, Discard, Steps, FetchSteps
  <1>13. ASSUME NEW w \in Workers, Verify(w) PROVE TypeInv'
    <2>1. /\ \E b \in {"close", "sync"} : pc' = [pc EXCEPT ![w] = b] /\ b \in Steps
          /\ pc[w] = "copy" /\ file' = file /\ partial' \in {partial, None}
          /\ res' \in [Workers -> {"none", "ok", "mismatch", "err"}]
      BY <1>13 DEF Verify, Discard, Steps, FetchSteps
    <2>2. pc' \in [Workers -> Steps] /\ FilesOpen'
      BY <2>1, FilesMove
    <2> QED
      BY <1>13, <2>1, <2>2 DEF Verify
  <1>14. ASSUME NEW w \in Workers, Sync(w) PROVE TypeInv'
    BY <1>14 DEF Sync, Steps, FetchSteps
  <1>15. ASSUME NEW w \in Workers, Commit(w) PROVE TypeInv'
    BY <1>15 DEF Commit, Steps, FetchSteps
  <1>16. ASSUME NEW w \in Workers, Close(w) PROVE TypeInv'
    <2>1. /\ flock' \in [Inodes -> Workers \cup {None}]
          /\ file' \in [Workers -> Inodes \cup {None}]
          /\ file' = [file EXCEPT ![w] = None]
      BY <1>16, CloseFileType DEF Close
    <2>2. sum' \in [Workers -> Seq(Chunk)]
      <3>1. sum' = [sum EXCEPT ![w] = <<>>] \/ sum' = sum
        BY <1>16 DEF Close
      <3>2. <<>> \in Seq(Chunk)
        OBVIOUS
      <3> QED
        BY <3>1, <3>2
    <2>0. \E b \in {"open", "unlock"} : pc' = [pc EXCEPT ![w] = b] /\ b \in Steps
      BY <1>16 DEF Close, Steps, FetchSteps
    <2>3. pc' \in [Workers -> Steps] /\ FilesOpen'
      BY <2>0, <2>1, FilesMove
    <2>4. /\ resumed' \in [Workers -> BOOLEAN]
          /\ retry' \in [Workers -> BOOLEAN]
          /\ res' \in [Workers -> {"none", "ok", "mismatch", "err"}]
      BY <1>16 DEF Close
    <2> QED
      BY <1>16, <2>1, <2>2, <2>3, <2>4 DEF Close
  <1>17. ASSUME NEW w \in Workers, PutHas(w) PROVE TypeInv'
    <2>1. /\ \/ pc' = [pc EXCEPT ![w] = "unlock"] /\ file' = [file EXCEPT ![w] = None]
             \/ pc' = [pc EXCEPT ![w] = "putcommit"] /\ file' = file
          /\ "unlock" \in Steps /\ "putcommit" \in Steps /\ pc[w] = "puthas"
          /\ res' \in [Workers -> {"none", "ok", "mismatch", "err"}]
      BY <1>17 DEF PutHas, Steps, PutSteps
    <2>2. /\ pc' \in [Workers -> Steps] /\ FilesOpen'
          /\ file' \in [Workers -> Inodes \cup {None}]
      <3>1. CASE pc' = [pc EXCEPT ![w] = "unlock"] /\ file' = [file EXCEPT ![w] = None]
        BY <2>1, <3>1, FilesMove
      <3>2. CASE pc' = [pc EXCEPT ![w] = "putcommit"] /\ file' = file
        BY <2>1, <3>2, FilesMove
      <3> QED
        BY <2>1, <3>1, <3>2
    <2>3. UNCHANGED <<partial, blob, content, synced, flock, mutex, call, sum, resumed, retry>>
      BY <1>17 DEF PutHas
    <2> QED
      BY <2>1, <2>2, <2>3
  <1>18. ASSUME NEW w \in Workers, PutCommit(w) PROVE TypeInv'
    <2>1. blob' \in Inodes \cup {None}
      BY <1>18 DEF PutCommit
    <2>0. /\ pc' = [pc EXCEPT ![w] = "unlock"] /\ "unlock" \in Steps
          /\ file' = [file EXCEPT ![w] = None]
      BY <1>18 DEF PutCommit, Steps, PutSteps
    <2>2. pc' \in [Workers -> Steps] /\ FilesOpen'
      BY <2>0, FilesMove
    <2> QED
      BY <1>18, <2>1, <2>2 DEF PutCommit
  <1>19. ASSUME NEW w \in Workers, Unlock(w) PROVE TypeInv'
    BY <1>19 DEF Unlock, NoCall, Calls, Steps
  <1>20. ASSUME NEW w \in Workers, CloseBlob(w) PROVE TypeInv'
    BY <1>20 DEF CloseBlob, Steps
  <1>21. ASSUME NEW w \in Workers, Fault(w) PROVE TypeInv'
    BY <1>21 DEF Fault, Interrupt, IOFails, Steps, FetchSteps
  <1>22. ASSUME NEW p \in Processes, Crash(p) PROVE TypeInv'
    BY <1>22, TypeKill DEF Crash
  <1>23. ASSUME PowerLoss PROVE TypeInv'
    <2>1. PICK k \in 0..BlobSize, B \in SUBSET (1..BlobSize) :
            content' = [i \in Inodes |-> IF synced[i] THEN content[i]
                                         ELSE Tear(content[i], k, B)]
      BY <1>23 DEF PowerLoss
    <2>2. k \in Nat
      OBVIOUS
    <2>3. \A i \in Inodes : Tear(content[i], k, B) \in Seq(Chunk)
      BY <2>2, TearType
    <2>4. content' \in [Inodes -> Seq(Chunk)]
      BY <2>1, <2>3
    <2> QED
      BY <1>23, <2>4, TypeKill DEF PowerLoss
  <1>24. CASE UNCHANGED vars
    BY <1>24 DEF vars
  <1> QED
    BY <1>1, <1>2, <1>3, <1>4, <1>5, <1>6, <1>7, <1>8, <1>9, <1>10, <1>11, <1>12,
       <1>13, <1>14, <1>15, <1>16, <1>17, <1>18, <1>19, <1>20, <1>21, <1>22, <1>23,
       <1>24 DEF Next, Begin, Step, FetchStep, PutStep

\* Every variable of the cache keeps its type, whatever the workers, crashes and power
\* losses do, in the build with locks and in the one without.
THEOREM TypeCorrect == Spec => []TypeOK
  <1>1. TypeInv => TypeOK
    BY DEF TypeInv
  <1> QED
    BY <1>1, TypeInit, TypeNext, PTL DEF Spec

-----------------------------------------------------------------------------
(* The inductive invariant of the build that locks.                        *)

LEMMA FilesInit == Init => LockInv /\ FilesInv
  BY CacheAssumption DEF Init, FilesInv, LockInv, NameInv, WriterInv, PrivateInv,
     CommittedIsWhole, OkMeansStored, HoldSteps, PutSteps

\* A worker at a step that needs a file has one open.
LEMMA FileThere ==
  ASSUME TypeInv, NEW w \in Workers, pc[w] \notin NoFileSteps
  PROVE  file[w] \in Inodes
  <1>1. file[w] \in Inodes \cup {None}
    BY DEF TypeInv, TypeOK
  <1>2. file[w] # None
    BY DEF TypeInv, FilesOpen
  <1> QED
    BY <1>1, <1>2

\* A worker past openLocked is alone with the partial file: nobody else is past openLocked,
\* and whoever has the file open as well waits for its lock or is about to close it.
LEMMA HolderAlone ==
  ASSUME TypeInv, Apart, FilesInv, NEW w \in Workers, pc[w] \in HoldSteps
  PROVE  /\ file[w] \in Inodes /\ file[w] = partial /\ file[w] # blob
         /\ \A v \in Workers : pc[v] \in HoldSteps => v = w
         /\ \A v \in Workers : file[v] = file[w] /\ v # w => pc[v] \in {"flock", "close"}
  <1> USE DEF TypeInv, TypeOK, FilesInv
  <1>1. file[w] \in Inodes
    BY FileThere DEF NoFileSteps, HoldSteps
  <1>2. file[w] = partial /\ file[w] # blob
    BY <1>1, CacheAssumption DEF NameInv
  <1>3. \A v \in Workers : file[v] = file[w] /\ v # w =>
          pc[v] \notin HoldSteps \cup {"same"}
    BY DEF Apart
  <1>4. \A v \in Workers : pc[v] \in HoldSteps => file[v] = partial
    BY DEF NameInv
  <1>5. \A v \in Workers : file[v] = file[w] => pc[v] \notin PutSteps \cup {"read"}
    BY <1>2 DEF PrivateInv
  <1>6. \A v \in Workers : file[v] = file[w] => pc[v] \notin NoFileSteps
    BY <1>1, CacheAssumption DEF FilesOpen
  <1>7. \A v \in Workers : pc[v] \in NoFileSteps \cup HoldSteps \cup PutSteps
                                     \cup {"same", "read", "flock", "close"}
    BY DEF Steps, FetchSteps, NoFileSteps, HoldSteps
  <1> QED
    BY <1>1, <1>2, <1>3, <1>4, <1>5, <1>6, <1>7

\* A worker that has no lock moves, opens or closes a file, and takes no lock.
LEMMA LockOutside ==
  ASSUME TypeInv, LockInv, NEW w \in Workers, NEW b, NEW f,
         pc[w] \notin HoldSteps \cup {"same", "close"}, b \notin HoldSteps \cup {"same"},
         pc' = [pc EXCEPT ![w] = b], file' = [file EXCEPT ![w] = f], flock' = flock
  PROVE  LockInv'
  BY CacheAssumption DEF TypeInv, TypeOK, LockInv, HoldSteps

\* A worker that has the lock moves on and keeps it.
LEMMA LockInside ==
  ASSUME TypeInv, LockInv, NEW w \in Workers, NEW b,
         pc[w] \in HoldSteps \cup {"same"}, b \in HoldSteps \cup {"same", "close"},
         pc' = [pc EXCEPT ![w] = b], file' = file, flock' = flock
  PROVE  LockInv'
  BY CacheAssumption DEF TypeInv, TypeOK, LockInv, HoldSteps

\* A worker closes its file, and loses the lock with it.
LEMMA LockClose ==
  ASSUME TypeInv, LockInv, NEW w \in Workers, NEW b, b \in NoFileSteps,
         pc' = [pc EXCEPT ![w] = b], CloseFile(w)
  PROVE  LockInv'
  <1> USE CacheAssumption DEF TypeInv, TypeOK, CloseFile, HoldSteps, NoFileSteps
  <1>1. ASSUME NEW v \in Workers, pc'[v] \in HoldSteps \cup {"same"}
        PROVE  flock'[file'[v]] = v
    <2>1. v # w
      BY <1>1
    <2>2. pc[v] \in HoldSteps \cup {"same"} /\ file'[v] = file[v]
      BY <1>1, <2>1
    <2>3. file[v] \in Inodes
      BY <2>2 DEF FilesOpen
    <2>4. flock[file[v]] = v
      BY <2>2 DEF LockInv
    <2> QED
      BY <2>1, <2>2, <2>3, <2>4
  <1>2. \A i \in Inodes : flock'[i] # None =>
          file'[flock'[i]] = i /\ pc'[flock'[i]] \in HoldSteps \cup {"same", "close"}
    BY DEF LockInv
  <1> QED
    BY <1>1, <1>2 DEF LockInv

LEMMA LockNext ==
  ASSUME Locking, TypeInv, TypeInv', LockInv, [Next]_vars
  PROVE  LockInv'
  <1> USE DEF TypeInv, TypeOK, Goto, Leave, HoldSteps
  <1>1. ASSUME NEW w \in Workers, FetchBegin(w) \/ FetchLock(w) \/ FetchHas(w) \/ PutLock(w)
                                  \/ Unlock(w)
        PROVE  LockInv'
    <2>1. file' = [file EXCEPT ![w] = file[w]] /\ flock' = flock
      BY <1>1 DEF FetchBegin, FetchLock, FetchHas, PutLock, AcquireMutex, Unlock
    <2>2. PICK b \in {"lock", "has", "open", "unlock", "puthas", "idle"} :
            pc' = [pc EXCEPT ![w] = b]
      BY <1>1 DEF FetchBegin, FetchLock, FetchHas, PutLock, AcquireMutex, Unlock
    <2>3. pc[w] \notin HoldSteps \cup {"same", "close"}
      BY <1>1 DEF FetchBegin, FetchLock, FetchHas, PutLock, AcquireMutex, Unlock
    <2> QED
      BY <2>1, <2>2, <2>3, LockOutside
  <1>2. ASSUME NEW w \in Workers, PutBegin(w) \/ PutHas(w) \/ PutCommit(w) \/ OpenBlob(w)
                                  \/ CloseBlob(w) \/ OpenPartial(w)
        PROVE  LockInv'
    <2>1. flock' = flock /\ \E f : file' = [file EXCEPT ![w] = f]
      BY <1>2 DEF PutBegin, PutHas, PutCommit, OpenBlob, CloseBlob, OpenPartial
    <2>2. PICK b \in {"putlock", "putcommit", "unlock", "read", "idle", "flock"} :
            pc' = [pc EXCEPT ![w] = b]
      BY <1>2 DEF PutBegin, PutHas, PutCommit, OpenBlob, CloseBlob, OpenPartial
    <2>3. pc[w] \notin HoldSteps \cup {"same", "close"}
      BY <1>2 DEF PutBegin, PutHas, PutCommit, OpenBlob, CloseBlob, OpenPartial
    <2> QED
      BY <2>1, <2>2, <2>3, LockOutside
  <1>3. ASSUME NEW w \in Workers, LockFile(w) PROVE LockInv'
    <2>1. /\ flock[file[w]] = None /\ flock' = [flock EXCEPT ![file[w]] = w]
          /\ file' = file /\ pc[w] = "flock" /\ pc' = [pc EXCEPT ![w] = "same"]
      BY <1>3 DEF LockFile
    <2>2. file[w] \in Inodes
      BY <2>1 DEF FilesOpen, NoFileSteps
    <2>3. \A v \in Workers : pc'[v] \in HoldSteps \cup {"same"} => flock'[file'[v]] = v
      BY <2>1, <2>2, CacheAssumption DEF LockInv
    <2>4. \A i \in Inodes : flock'[i] # None =>
            file'[flock'[i]] = i /\ pc'[flock'[i]] \in HoldSteps \cup {"same", "close"}
      BY <2>1, <2>2 DEF LockInv
    <2> QED
      BY <2>3, <2>4 DEF LockInv
  <1>4. ASSUME NEW w \in Workers, CheckSame(w) PROVE LockInv'
    <2>1. CASE partial = file[w]
      BY <1>4, <2>1, LockInside DEF CheckSame
    <2>2. CASE partial # file[w]
      BY <1>4, <2>2, LockClose DEF CheckSame, NoFileSteps
    <2> QED
      BY <2>1, <2>2
  <1>5. ASSUME NEW w \in Workers, RecheckHas(w) \/ StatAndHash(w) \/ ReadChunk(w)
                  \/ SourceEnds(w) \/ Verify(w) \/ Sync(w) \/ Commit(w) \/ Interrupt(w)
        PROVE  LockInv'
    <2> USE DEF RecheckHas, StatAndHash, ReadChunk, SourceEnds, Verify, Sync, Commit,
                Interrupt
    <2>1. file' = file /\ flock' = flock
      BY <1>5
    <2>2. PICK b \in {"stat", "copy", "sync", "commit", "close"} : pc' = [pc EXCEPT ![w] = b]
      BY <1>5
    <2>3. pc[w] \in HoldSteps \cup {"same"}
      BY <1>5
    <2> QED
      BY <2>1, <2>2, <2>3, LockInside
  <1>6. ASSUME NEW w \in Workers, IOFails(w) PROVE LockInv'
    <2>1. file' = [file EXCEPT ![w] = file[w]] /\ file' = file /\ flock' = flock
      BY <1>6 DEF IOFails
    <2>2. CASE pc[w] \in {"open", "flock"}
      <3>1. PICK b \in {"unlock", "close"} : pc' = [pc EXCEPT ![w] = b]
        BY <1>6, <2>2 DEF IOFails
      <3> QED
        BY <2>1, <2>2, <3>1, LockOutside
    <2>3. CASE pc[w] \notin {"open", "flock"}
      <3>1. pc[w] \in HoldSteps \cup {"same"} /\ pc' = [pc EXCEPT ![w] = "close"]
        BY <1>6, <2>3 DEF IOFails
      <3> QED
        BY <2>1, <3>1, LockInside
    <2> QED
      BY <2>2, <2>3
  <1>7. ASSUME NEW w \in Workers, Close(w) PROVE LockInv'
    <2>1. PICK b \in {"open", "unlock"} : pc' = [pc EXCEPT ![w] = b]
      BY <1>7 DEF Close
    <2> QED
      BY <1>7, <2>1, LockClose DEF Close, NoFileSteps
  <1>8. ASSUME NEW K, Kill(K) PROVE LockInv'
    <2>0. \A v \in Workers : pc[v] \in HoldSteps \cup {"same"} => file[v] \in Inodes
      BY DEF FilesOpen, NoFileSteps
    <2> USE <1>8, CacheAssumption DEF Kill, LockInv
    <2>1. ASSUME NEW v \in Workers, pc'[v] \in HoldSteps \cup {"same"}
          PROVE  flock'[file'[v]] = v
      <3>1. v \notin K /\ pc[v] \in HoldSteps \cup {"same"} /\ file'[v] = file[v]
        BY <2>1
      <3>2. file[v] \in Inodes
        BY <2>0, <3>1
      <3> QED
        BY <3>1, <3>2
    <2>2. \A i \in Inodes : flock'[i] # None =>
            file'[flock'[i]] = i /\ pc'[flock'[i]] \in HoldSteps \cup {"same", "close"}
      OBVIOUS
    <2> QED
      BY <2>1, <2>2
  <1>9. CASE UNCHANGED vars
    BY <1>9 DEF vars, LockInv
  <1> QED
    BY <1>1, <1>2, <1>3, <1>4, <1>5, <1>6, <1>7, <1>8, <1>9
       DEF Next, Begin, Step, FetchStep, PutStep, Fault, Crash, PowerLoss

\* Names: whoever moves into HoldSteps has the file at the name; the names change by an
\* OpenFile that creates, a Discard or Commit of the lone holder, and a Put.
LEMMA NameNext ==
  ASSUME Apart, TypeInv, TypeInv', FilesInv, [Next]_vars
  PROVE  NameInv'
  <1> USE CacheAssumption DEF TypeInv, TypeOK, FilesInv, Goto, Leave, disk, NameInv, HoldSteps
  <1>1. ASSUME NEW w \in Workers, FetchBegin(w) \/ FetchLock(w) \/ FetchHas(w) \/ PutLock(w)
                                  \/ Unlock(w) \/ LockFile(w)
        PROVE  NameInv'
    BY <1>1 DEF FetchBegin, FetchLock, FetchHas, PutLock, AcquireMutex, Unlock, LockFile
  <1>2. ASSUME NEW w \in Workers, PutBegin(w) \/ PutHas(w) \/ OpenBlob(w) \/ CloseBlob(w)
        PROVE  NameInv'
    <2>1. UNCHANGED <<partial, blob>>
      BY <1>2 DEF PutBegin, PutHas, OpenBlob, CloseBlob
    <2>2. \A v \in Workers : pc'[v] \in HoldSteps => pc[v] \in HoldSteps /\ file'[v] = file[v]
      BY <1>2 DEF PutBegin, PutHas, OpenBlob, CloseBlob
    <2> QED
      BY <2>1, <2>2
  <1>3. ASSUME NEW w \in Workers, PutCommit(w) PROVE NameInv'
    <2>0. pc[w] = "putcommit"
      BY <1>3 DEF PutCommit
    <2>1. file[w] # partial /\ file[w] \in Inodes
      BY <2>0, FileThere DEF PrivateInv, PutSteps, NoFileSteps
    <2>2. blob' \in {blob, file[w]} /\ partial' = partial /\ pc' = [pc EXCEPT ![w] = "unlock"]
      BY <1>3 DEF PutCommit
    <2>3. \A v \in Workers : pc'[v] \in HoldSteps => pc[v] \in HoldSteps /\ file'[v] = file[v]
      BY <1>3, <2>2 DEF PutCommit
    <2> QED
      BY <2>1, <2>2, <2>3
  <1>4. ASSUME NEW w \in Workers, OpenPartial(w) PROVE NameInv'
    <2>1. CASE partial # None
      BY <1>4, <2>1 DEF OpenPartial
    <2>2. CASE partial = None
      <3>1. \A v \in Workers : pc[v] \notin HoldSteps
        BY <2>2, HolderAlone
      <3>2. partial' # blob /\ blob' = blob /\ pc' = [pc EXCEPT ![w] = "flock"]
        BY <1>4, <2>2 DEF OpenPartial, Unused
      <3> QED
        BY <3>1, <3>2
    <2> QED
      BY <2>1, <2>2
  <1>5. ASSUME NEW w \in Workers, CheckSame(w) \/ Close(w) PROVE NameInv'
    <2>1. UNCHANGED <<partial, blob>>
      BY <1>5 DEF CheckSame, Close
    <2>2. ASSUME NEW v \in Workers, pc'[v] \in HoldSteps PROVE partial = file'[v]
      <3>1. CASE CheckSame(w) /\ partial = file[w]
        BY <2>2, <3>1 DEF CheckSame
      <3>2. CASE CheckSame(w) /\ partial # file[w]
        BY <2>2, <3>2 DEF CheckSame, CloseFile
      <3>3. CASE Close(w)
        <4>1. pc' = [pc EXCEPT ![w] = "open"] \/ pc' = [pc EXCEPT ![w] = "unlock"]
          BY <3>3 DEF Close
        <4>2. file' = [file EXCEPT ![w] = None]
          BY <3>3 DEF Close, CloseFile
        <4> QED
          BY <2>2, <4>1, <4>2
      <3> QED
        BY <1>5, <3>1, <3>2, <3>3
    <2> QED
      BY <2>1, <2>2
  <1>6. ASSUME NEW w \in Workers, RecheckHas(w) \/ StatAndHash(w) \/ ReadChunk(w) \/ Sync(w)
                                  \/ Fault(w)
        PROVE  NameInv'
    BY <1>6 DEF RecheckHas, StatAndHash, ReadChunk, Sync, Fault, Interrupt, IOFails
  <1>7. ASSUME NEW w \in Workers, SourceEnds(w) \/ Commit(w) \/ Verify(w) PROVE NameInv'
    <2> USE DEF SourceEnds, Commit, Verify, Discard
    <2>1. pc[w] \in HoldSteps
      BY <1>7
    <2>2. \A v \in Workers : pc[v] \in HoldSteps => v = w
      BY <2>1, HolderAlone
    <2>3. CASE partial' = partial
      BY <1>7, <2>3
    <2>4. CASE partial' # partial
      <3>1. partial' = None /\ pc' = [pc EXCEPT ![w] = "close"]
        BY <1>7, <2>4
      <3> QED
        BY <2>2, <3>1
    <2> QED
      BY <2>3, <2>4
  <1>8. ASSUME NEW K, Kill(K), UNCHANGED <<partial, blob>> PROVE NameInv'
    BY <1>8 DEF Kill
  <1>9. CASE UNCHANGED vars
    BY <1>9 DEF vars
  <1> QED
    BY <1>1, <1>2, <1>3, <1>4, <1>5, <1>6, <1>7, <1>8, <1>9
       DEF Next, Begin, Step, FetchStep, PutStep, Crash, PowerLoss

\* The holder's progress: nobody else touches the file it fills.
LEMMA WriterNext ==
  ASSUME Apart, TypeInv, TypeInv', FilesInv, [Next]_vars
  PROVE  WriterInv'
  <1> USE CacheAssumption DEF TypeInv, TypeOK, FilesInv, Goto, Leave, disk, attempt, WriterInv
  <1>1. ASSUME NEW w \in Workers, FetchBegin(w) \/ FetchLock(w) \/ FetchHas(w) \/ PutLock(w)
                                  \/ Unlock(w) \/ LockFile(w)
        PROVE  WriterInv'
    BY <1>1 DEF FetchBegin, FetchLock, FetchHas, PutLock, AcquireMutex, Unlock, LockFile
  <1>2. ASSUME NEW w \in Workers, PutHas(w) \/ PutCommit(w) \/ OpenBlob(w) \/ CloseBlob(w)
        PROVE  WriterInv'
    BY <1>2 DEF PutHas, PutCommit, OpenBlob, CloseBlob
  <1>3. ASSUME NEW w \in Workers, PutBegin(w) PROVE WriterInv'
    <2>1. PICK i \in Inodes : /\ Unused(i)
                              /\ content' = [content EXCEPT ![i] = Whole]
                              /\ synced' = [synced EXCEPT ![i] = TRUE]
      BY <1>3 DEF PutBegin
    <2>2. \A v \in Workers : pc'[v] \in {"copy", "sync", "commit"} =>
            /\ v # w /\ pc[v] = pc'[v] /\ file'[v] = file[v] /\ file[v] # i
            /\ sum'[v] = sum[v]
      BY <1>3, <2>1 DEF PutBegin, Unused
    <2>3. \A v \in Workers : pc[v] \in {"copy", "sync", "commit"} => file[v] \in Inodes
      BY HolderAlone DEF HoldSteps
    <2> QED
      BY <2>1, <2>2, <2>3
  <1>4. ASSUME NEW w \in Workers, OpenPartial(w) PROVE WriterInv'
    <2>1. CASE partial # None
      BY <1>4, <2>1 DEF OpenPartial
    <2>2. CASE partial = None
      <3>1. \A v \in Workers : pc[v] \notin {"copy", "sync", "commit"}
        BY <2>2, HolderAlone DEF HoldSteps
      <3> QED
        BY <1>4, <3>1 DEF OpenPartial
    <2> QED
      BY <2>1, <2>2
  <1>5. ASSUME NEW w \in Workers, CheckSame(w) \/ Close(w) PROVE WriterInv'
    BY <1>5 DEF CheckSame, Close, CloseFile
  <1>6. ASSUME NEW w \in Workers, RecheckHas(w) \/ SourceEnds(w) \/ Commit(w) \/ Fault(w)
        PROVE  WriterInv'
    BY <1>6 DEF RecheckHas, SourceEnds, Commit, Fault, Interrupt, IOFails
  <1>7. ASSUME NEW w \in Workers, Verify(w) PROVE WriterInv'
    BY <1>7 DEF Verify
  <1>8. ASSUME NEW w \in Workers, StatAndHash(w) \/ ReadChunk(w) \/ Sync(w) PROVE WriterInv'
    <2> USE DEF StatAndHash, ReadChunk, Sync
    <2>1. /\ file[w] \in Inodes /\ file' = file
          /\ \A v \in Workers : pc[v] \in {"copy", "sync", "commit"} => v = w
      BY <1>8, HolderAlone DEF HoldSteps
    <2>2. \A v \in Workers : pc'[v] \in {"copy", "sync", "commit"} => v = w
      BY <1>8, <2>1
    <2>3. CASE StatAndHash(w)
      BY <2>1, <2>2, <2>3
    <2>4. CASE ReadChunk(w)
      <3>1. PICK c \in Offers(w) :
              /\ content' = [content EXCEPT ![file[w]] = WriteAt(@, Len(sum[w]), c)]
              /\ sum' = [sum EXCEPT ![w] = Append(@, c)]
        BY <2>4
      <3>2. c \in Chunk
        BY DEF Offers, Chunk
      <3>3. content[file[w]] = sum[w] /\ sum[w] \in Seq(Chunk)
        BY <2>4
      <3>4. WriteAt(content[file[w]], Len(sum[w]), c) = Append(sum[w], c)
        BY <3>2, <3>3, WriteAtEnd
      <3> QED
        BY <2>1, <2>2, <2>4, <3>1, <3>4
    <2>5. CASE Sync(w)
      BY <2>1, <2>2, <2>5
    <2> QED
      BY <1>8, <2>3, <2>4, <2>5
  <1>9. ASSUME NEW K, Kill(K), UNCHANGED <<content, synced>> PROVE WriterInv'
    BY <1>9 DEF Kill
  <1>10. CASE PowerLoss
    BY <1>10 DEF PowerLoss, Kill
  <1>11. CASE UNCHANGED vars
    BY <1>11 DEF vars
  <1> QED
    BY <1>1, <1>2, <1>3, <1>4, <1>5, <1>6, <1>7, <1>8, <1>9, <1>10, <1>11
       DEF Next, Begin, Step, FetchStep, PutStep, Crash

\* What a reader or a Put has open stays complete and off the partial name.
LEMMA PrivateNext ==
  ASSUME Apart, TypeInv, TypeInv', FilesInv, [Next]_vars
  PROVE  PrivateInv'
  <1> USE CacheAssumption DEF TypeInv, TypeOK, FilesInv, Goto, Leave, disk, attempt,
                              PrivateInv, PutSteps
  <1>0. \A v \in Workers : pc[v] \in PutSteps \cup {"read"} => file[v] \in Inodes
    BY FileThere DEF NoFileSteps
  <1>1. ASSUME NEW w \in Workers, FetchBegin(w) \/ FetchLock(w) \/ FetchHas(w) \/ PutLock(w)
                                  \/ Unlock(w) \/ LockFile(w) \/ RecheckHas(w) \/ Fault(w)
        PROVE  PrivateInv'
    BY <1>1 DEF FetchBegin, FetchLock, FetchHas, PutLock, AcquireMutex, Unlock, LockFile,
       RecheckHas, Fault, Interrupt, IOFails
  <1>2. ASSUME NEW w \in Workers, PutHas(w) \/ CloseBlob(w) \/ CheckSame(w) \/ Close(w)
        PROVE  PrivateInv'
    <2> USE DEF PutHas, CloseBlob, CheckSame, Close, CloseFile
    <2>1. UNCHANGED disk /\ file' \in {file, [file EXCEPT ![w] = None]}
      BY <1>2
    <2>2. \A v \in Workers : pc'[v] \in PutSteps \cup {"read"} => pc[v] \in PutSteps \cup {"read"}
      BY <1>2
    <2>3. \A v \in Workers : pc'[v] \in PutSteps => pc[v] \in PutSteps
      BY <1>2
    <2>4. \A v \in Workers : pc'[v] \in PutSteps \cup {"read"} => file'[v] = file[v]
      BY <1>2, <2>1
    <2> HIDE DEF PutHas, CloseBlob, CheckSame, Close
    <2> QED
      BY <1>0, <2>1, <2>2, <2>3, <2>4
  <1>3. ASSUME NEW w \in Workers, PutBegin(w) PROVE PrivateInv'
    <2>1. PICK i \in Inodes : /\ Unused(i)
                              /\ file' = [file EXCEPT ![w] = i]
                              /\ content' = [content EXCEPT ![i] = Whole]
                              /\ synced' = [synced EXCEPT ![i] = TRUE]
      BY <1>3 DEF PutBegin
    <2>2. /\ pc' = [pc EXCEPT ![w] = "putlock"]
          /\ partial' = partial /\ blob' = blob
      BY <1>3 DEF PutBegin
    <2>3. i # partial /\ i # blob /\ \A v \in Workers : file[v] # i
      BY <2>1 DEF Unused
    <2>4. content'[i] = Whole /\ synced'[i] /\ file'[w] = i
      BY <2>1
    <2>5. \A v \in Workers \ {w} : pc'[v] = pc[v] /\ file'[v] = file[v] /\ file[v] # i
      BY <2>1, <2>2, <2>3
    <2>6. \A j \in Inodes \ {i} : content'[j] = content[j] /\ synced'[j] = synced[j]
      BY <2>1
    <2> QED
      BY <1>0, <2>2, <2>3, <2>4, <2>5, <2>6
  <1>4. ASSUME NEW w \in Workers, OpenPartial(w) PROVE PrivateInv'
    <2>1. CASE partial # None
      <3>1. UNCHANGED disk /\ file' = [file EXCEPT ![w] = partial]
            /\ pc' = [pc EXCEPT ![w] = "flock"]
        BY <1>4, <2>1 DEF OpenPartial
      <3> QED
        BY <3>1, <1>0
    <2>2. CASE partial = None
      <3>1. PICK i \in Inodes : /\ Unused(i)
                                /\ partial' = i
                                /\ file' = [file EXCEPT ![w] = i]
                                /\ content' = [content EXCEPT ![i] = <<>>]
                                /\ synced' = [synced EXCEPT ![i] = FALSE]
        BY <1>4, <2>2 DEF OpenPartial
      <3>2. blob' = blob /\ pc' = [pc EXCEPT ![w] = "flock"]
        BY <1>4, <2>2 DEF OpenPartial
      <3>3. \A v \in Workers : file[v] # i
        BY <3>1 DEF Unused
      <3>4. \A v \in Workers \ {w} : pc'[v] = pc[v] /\ file'[v] = file[v]
        BY <3>1, <3>2
      <3>5. \A j \in Inodes \ {i} : content'[j] = content[j] /\ synced'[j] = synced[j]
        BY <3>1
      <3>6. pc'[w] = "flock" /\ file'[w] = i
        BY <3>1, <3>2
      <3> QED
        BY <1>0, <3>1, <3>2, <3>3, <3>4, <3>5, <3>6
    <2> QED
      BY <2>1, <2>2
  <1>5. ASSUME NEW w \in Workers, StatAndHash(w) \/ ReadChunk(w) \/ Sync(w) PROVE PrivateInv'
    <2> USE DEF StatAndHash, ReadChunk, Sync
    <2>1. /\ file' = file /\ partial' = partial /\ blob' = blob
          /\ \E b \in {"copy", "commit"} : pc' = [pc EXCEPT ![w] = b]
      BY <1>5
    <2>2. \A j \in Inodes \ {file[w]} : content'[j] = content[j] /\ synced'[j] = synced[j]
      BY <1>5
    <2>3. file[w] = partial
      BY <1>5, HolderAlone DEF HoldSteps
    <2> HIDE DEF StatAndHash, ReadChunk, Sync
    <2> QED
      BY <1>0, <2>1, <2>2, <2>3
  <1>6. ASSUME NEW w \in Workers, SourceEnds(w) \/ Verify(w) \/ Commit(w) PROVE PrivateInv'
    <2> USE DEF SourceEnds, Verify, Commit, Discard
    <2>1. /\ file' = file /\ UNCHANGED <<content, synced>>
          /\ \E b \in {"sync", "close"} : pc' = [pc EXCEPT ![w] = b]
      BY <1>6
    <2>2. partial' \in {partial, None} /\ blob' \in {blob, partial}
      BY <1>6
    <2> HIDE DEF SourceEnds, Verify, Commit
    <2> QED
      BY <1>0, <2>1, <2>2
  <1>7. ASSUME NEW w \in Workers, OpenBlob(w) PROVE PrivateInv'
    <2>1. /\ UNCHANGED disk /\ file' = [file EXCEPT ![w] = blob]
          /\ pc' = [pc EXCEPT ![w] = "read"] /\ blob # None
      BY <1>7 DEF OpenBlob
    <2>2. content[blob] = Whole /\ synced[blob] /\ blob # partial
      BY <2>1 DEF CommittedIsWhole, NameInv
    <2> QED
      BY <2>1, <2>2
  <1>8. ASSUME NEW w \in Workers, PutCommit(w) PROVE PrivateInv'
    <2>1. /\ UNCHANGED <<partial, content, synced>> /\ pc' = [pc EXCEPT ![w] = "unlock"]
          /\ file' = [file EXCEPT ![w] = None] /\ blob' \in {blob, file[w]}
          /\ pc[w] = "putcommit"
      BY <1>8 DEF PutCommit
    <2>2. \A v \in Workers : file[v] = file[w] => v = w
      BY <2>1
    <2>3. \A v \in Workers : pc'[v] \in PutSteps \cup {"read"} =>
            v # w /\ pc'[v] = pc[v] /\ file'[v] = file[v] /\ file[v] # file[w]
      BY <2>1, <2>2
    <2> QED
      BY <1>0, <2>1, <2>3
  <1>9. ASSUME NEW K, Kill(K), UNCHANGED <<partial, blob>>,
               \A j \in Inodes : synced[j] => content'[j] = content[j] /\ synced'[j]
        PROVE  PrivateInv'
    <2>1. \A v \in Workers : pc'[v] \in PutSteps \cup {"read"} =>
            pc'[v] = pc[v] /\ file'[v] = file[v]
      BY <1>9 DEF Kill
    <2>2. \A v \in Workers : file'[v] \in {file[v], None}
      BY <1>9 DEF Kill
    <2> QED
      BY <1>0, <1>9, <2>1, <2>2
  <1>10. ASSUME NEW p \in Processes, Crash(p) PROVE PrivateInv'
    BY <1>9, <1>10 DEF Crash
  <1>11. CASE PowerLoss
    <2>1. \A j \in Inodes : synced[j] => content'[j] = content[j] /\ synced'[j]
      BY <1>11 DEF PowerLoss
    <2> QED
      BY <1>9, <1>11, <2>1 DEF PowerLoss
  <1>12. CASE UNCHANGED vars
    BY <1>12 DEF vars
  <1> QED
    BY <1>1, <1>2, <1>3, <1>4, <1>5, <1>6, <1>7, <1>8, <1>10, <1>11, <1>12
       DEF Next, Begin, Step, FetchStep, PutStep

\* The committed file: it is written by nobody, and replaced by complete files only.
LEMMA CommittedNext ==
  ASSUME Apart, TypeInv, TypeInv', FilesInv, [Next]_vars
  PROVE  CommittedIsWhole' /\ (blob # None => blob' # None)
  <1> USE CacheAssumption DEF TypeInv, TypeOK, FilesInv, Goto, Leave, disk, CommittedIsWhole
  <1> DEFINE Goal == CommittedIsWhole' /\ (blob # None => blob' # None)
  <1>1. ASSUME UNCHANGED <<blob, content, synced>> PROVE Goal
    BY <1>1
  <1>2. ASSUME NEW w \in Workers, PutBegin(w) \/ OpenPartial(w) PROVE Goal
    <2>1. CASE PutBegin(w)
      <3>1. PICK i \in Inodes : /\ Unused(i)
                                /\ content' = [content EXCEPT ![i] = Whole]
                                /\ synced' = [synced EXCEPT ![i] = TRUE]
        BY <2>1 DEF PutBegin
      <3>2. i # blob /\ blob' = blob
        BY <2>1, <3>1 DEF PutBegin, Unused
      <3> QED
        BY <3>1, <3>2
    <2>2. CASE OpenPartial(w) /\ partial # None
      BY <2>2 DEF OpenPartial
    <2>3. CASE OpenPartial(w) /\ partial = None
      <3>1. PICK i \in Inodes : /\ Unused(i)
                                /\ content' = [content EXCEPT ![i] = <<>>]
                                /\ synced' = [synced EXCEPT ![i] = FALSE]
        BY <2>3 DEF OpenPartial
      <3>2. i # blob /\ blob' = blob
        BY <2>3, <3>1 DEF OpenPartial, Unused
      <3> QED
        BY <3>1, <3>2
    <2> QED
      BY <1>2, <2>1, <2>2, <2>3
  <1>3. ASSUME NEW w \in Workers, StatAndHash(w) \/ ReadChunk(w) \/ Sync(w) PROVE Goal
    <2>1. file[w] # blob
      BY <1>3, HolderAlone DEF StatAndHash, ReadChunk, Sync, HoldSteps
    <2>2. blob' = blob
      BY <1>3 DEF StatAndHash, ReadChunk, Sync
    <2>3. \A j \in Inodes \ {file[w]} : content'[j] = content[j] /\ synced'[j] = synced[j]
      BY <1>3 DEF StatAndHash, ReadChunk, Sync
    <2> QED
      BY <2>1, <2>2, <2>3
  <1>4. ASSUME NEW w \in Workers, Commit(w) PROVE Goal
    <2>1. blob' = file[w] /\ UNCHANGED <<content, synced>> /\ pc[w] = "commit"
      BY <1>4, HolderAlone DEF Commit, HoldSteps
    <2>2. content[file[w]] = Whole /\ synced[file[w]] /\ file[w] \in Inodes
      BY <2>1, HolderAlone DEF WriterInv, HoldSteps
    <2> QED
      BY <2>1, <2>2
  <1>5. ASSUME NEW w \in Workers, PutCommit(w) PROVE Goal
    <2>1. blob' \in {blob, file[w]} /\ UNCHANGED <<content, synced>> /\ pc[w] = "putcommit"
      BY <1>5 DEF PutCommit
    <2>2. content[file[w]] = Whole /\ synced[file[w]] /\ file[w] \in Inodes
      BY <2>1, FileThere DEF PrivateInv, PutSteps, NoFileSteps
    <2> QED
      BY <2>1, <2>2
  <1>6. CASE PowerLoss
    BY <1>6 DEF PowerLoss
  <1>7. CASE \E p \in Processes : Crash(p)
    BY <1>1, <1>7 DEF Crash
  <1>8. CASE UNCHANGED vars
    BY <1>1, <1>8 DEF vars
  <1>9. ASSUME NEW w \in Workers,
               FetchBegin(w) \/ OpenBlob(w) \/ FetchLock(w) \/ FetchHas(w) \/ LockFile(w)
                 \/ CheckSame(w) \/ RecheckHas(w) \/ SourceEnds(w) \/ Verify(w)
                 \/ Close(w) \/ PutLock(w) \/ PutHas(w) \/ Unlock(w) \/ CloseBlob(w)
                 \/ Fault(w)
        PROVE  Goal
    <2>1. UNCHANGED <<blob, content, synced>>
      BY <1>9 DEF FetchBegin, OpenBlob, FetchLock, FetchHas, LockFile, CheckSame, RecheckHas,
         SourceEnds, Verify, Close, PutLock, PutHas, Unlock, CloseBlob, Fault, Interrupt,
         IOFails, AcquireMutex, Discard
    <2> QED
      BY <1>1, <2>1
  <1> QED
    BY <1>2, <1>3, <1>4, <1>5, <1>6, <1>7, <1>8, <1>9
       DEF Next, Begin, Step, FetchStep, PutStep

\* A result "ok" is only given once the blob is there, and the blob stays.
LEMMA OkNext ==
  ASSUME Apart, TypeInv, TypeInv', FilesInv, [Next]_vars
  PROVE  OkMeansStored'
  <1> USE CacheAssumption DEF TypeInv, TypeOK, FilesInv, Goto, Leave, disk, attempt,
                              OkMeansStored
  <1>0. blob # None => blob' # None
    BY CommittedNext
  <1>1. ASSUME NEW w \in Workers,
               FetchBegin(w) \/ PutBegin(w) \/ OpenBlob(w) \/ FetchLock(w) \/ FetchHas(w)
                 \/ OpenPartial(w) \/ LockFile(w) \/ CheckSame(w) \/ RecheckHas(w)
        PROVE  OkMeansStored'
    <2>1. res' = res \/ (res' = [res EXCEPT ![w] = "ok"] /\ blob # None)
      BY <1>1 DEF FetchBegin, PutBegin, OpenBlob, FetchLock, AcquireMutex, FetchHas,
         OpenPartial, LockFile, CheckSame, RecheckHas
    <2> QED
      BY <1>0, <2>1
  <1>2. ASSUME NEW w \in Workers,
               StatAndHash(w) \/ ReadChunk(w) \/ SourceEnds(w) \/ Verify(w) \/ Sync(w)
                 \/ Fault(w) \/ Close(w) \/ PutLock(w) \/ Unlock(w) \/ CloseBlob(w)
        PROVE  OkMeansStored'
    <2>1. res' = res \/ \E r \in {"none", "mismatch", "err"} : res' = [res EXCEPT ![w] = r]
      BY <1>2 DEF StatAndHash, ReadChunk, SourceEnds, Verify, Sync, Fault, Interrupt, IOFails,
         Close, PutLock, AcquireMutex, Unlock, CloseBlob
    <2> QED
      BY <1>0, <2>1
  <1>3. ASSUME NEW w \in Workers, PutHas(w) PROVE OkMeansStored'
    BY <1>0, <1>3 DEF PutHas
  <1>4. ASSUME NEW w \in Workers, PutCommit(w) PROVE OkMeansStored'
    <2>1. pc[w] = "putcommit"
      BY <1>4 DEF PutCommit
    <2>2. \/ blob' = file[w]
          \/ res' = [res EXCEPT ![w] = "err"]
      BY <1>4 DEF PutCommit
    <2> HIDE DEF TypeInv, FilesInv
    <2>3. file[w] \in Inodes
      BY <2>1, FileThere DEF NoFileSteps
    <2> USE DEF TypeInv
    <2> QED
      BY <1>0, <2>2, <2>3 DEF FilesInv
  <1>5. ASSUME NEW w \in Workers, Commit(w) PROVE OkMeansStored'
    BY <1>5 DEF Commit
  <1>6. ASSUME NEW K, Kill(K) PROVE OkMeansStored'
    <2>1. \A v \in Workers : res'[v] \in {res[v], "none"}
      BY <1>6 DEF Kill
    <2> QED
      BY <1>0, <2>1
  <1>7. CASE UNCHANGED vars
    BY <1>7 DEF vars
  <1> QED
    BY <1>1, <1>2, <1>3, <1>4, <1>5, <1>6, <1>7
       DEF Next, Begin, Step, FetchStep, PutStep, Crash, PowerLoss

\* The steps of the files, whatever keeps the holders apart.
LEMMA FilesNext ==
  ASSUME Apart, TypeInv, TypeInv', FilesInv, [Next]_vars
  PROVE  FilesInv'
  BY NameNext, WriterNext, PrivateNext, CommittedNext, OkNext DEF FilesInv

\* flock does.
LEMMA LocksSetApart ==
  ASSUME LockInv
  PROVE  Apart
  BY DEF LockInv, Apart

-----------------------------------------------------------------------------
(* One process: its mutex alone keeps its goroutines apart, flock or not.   *)

\* Between Cache.lock and its unlock a goroutine is alone in its process.
LEMMA AloneInSection ==
  ASSUME OneProcess, SectionInv, NEW v \in Workers, NEW w \in Workers,
         pc[v] \in Section, pc[w] \in Section
  PROVE  v = w
  BY DEF OneProcess, SectionInv

\* A goroutine outside of the section owes nothing but that it has no mismatch to report and
\* is at no second attempt.
LEMMA HealOutside ==
  ASSUME NEW w \in Workers, pc[w] \notin Section, res[w] # "mismatch", ~retry[w]
  PROVE  HealOf(w)
  BY DEF HealOf, Section, FetchSteps, HoldSteps

\* The steps inside the section move one goroutine, which stays there or unlocks.
Inside(w) ==
  \/ FetchHas(w) \/ OpenPartial(w) \/ LockFile(w) \/ CheckSame(w) \/ RecheckHas(w)
  \/ StatAndHash(w) \/ ReadChunk(w) \/ SourceEnds(w) \/ Verify(w) \/ Sync(w)
  \/ Commit(w) \/ Close(w) \/ PutHas(w) \/ PutCommit(w) \/ Fault(w)

\* Only v's own step changes what v is about to report.
LEMMA InsideMoves ==
  ASSUME TypeInv, NEW w \in Workers, Inside(w)
  PROVE  /\ pc[w] \in Section /\ pc'[w] \in Section /\ mutex' = mutex
         /\ \A v \in Workers \ {w} :
              pc'[v] = pc[v] /\ res'[v] = res[v] /\ retry'[v] = retry[v]
  <1> USE DEF TypeInv, TypeOK, Goto, Leave, Section, FetchSteps, attempt
  <1>1. CASE FetchHas(w)
    BY <1>1 DEF FetchHas
  <1>2. CASE OpenPartial(w)
    BY <1>2 DEF OpenPartial
  <1>3. CASE LockFile(w)
    BY <1>3 DEF LockFile
  <1>4. CASE CheckSame(w)
    BY <1>4 DEF CheckSame
  <1>5. CASE RecheckHas(w)
    BY <1>5 DEF RecheckHas
  <1>6. CASE StatAndHash(w)
    BY <1>6 DEF StatAndHash
  <1>7. CASE ReadChunk(w)
    BY <1>7 DEF ReadChunk
  <1>8. CASE SourceEnds(w)
    BY <1>8 DEF SourceEnds
  <1>9. CASE Verify(w)
    BY <1>9 DEF Verify
  <1>10. CASE Sync(w)
    BY <1>10 DEF Sync
  <1>11. CASE Commit(w)
    BY <1>11 DEF Commit
  <1>12. CASE Close(w)
    BY <1>12 DEF Close
  <1>13. CASE PutHas(w)
    BY <1>13 DEF PutHas
  <1>14. CASE PutCommit(w)
    BY <1>14 DEF PutCommit
  <1>15. CASE Fault(w)
    BY <1>15 DEF Fault, Interrupt, IOFails
  <1> QED
    BY <1>1, <1>2, <1>3, <1>4, <1>5, <1>6, <1>7, <1>8, <1>9, <1>10, <1>11, <1>12, <1>13,
       <1>14, <1>15 DEF Inside

\* The steps that copy: a good source gives the blob's chunks and does not end before them.
LEMMA HealCopy ==
  ASSUME TypeInv, NEW w \in Workers, HealOf(w),
         StatAndHash(w) \/ ReadChunk(w) \/ SourceEnds(w) \/ Verify(w)
  PROVE  HealOf(w)'
  <1> DEFINE s == sum[w]
             Clean == Good(w) /\ ~resumed[w]
  <1>0. /\ file[w] \in Inodes /\ content[file[w]] \in Seq(Chunk) /\ s \in Seq(Chunk)
        /\ BlobSize \in Nat /\ Len(s) \in Nat
    <2>1. pc[w] \notin NoFileSteps
      BY DEF StatAndHash, ReadChunk, SourceEnds, Verify, Goto, Leave, NoFileSteps
    <2>2. file[w] \in Inodes
      BY <2>1, FileThere
    <2>3. s \in Seq(Chunk) /\ content[file[w]] \in Seq(Chunk)
      BY <2>2 DEF TypeInv, TypeOK
    <2> QED
      BY <2>2, <2>3, CacheAssumption, LenProperties
  <1>1. CASE StatAndHash(w)
    <2>1. /\ pc[w] = "stat" /\ pc'[w] = "copy" /\ partial' = partial /\ file' = file
          /\ call' = call /\ retry' = retry /\ res' = res
          /\ sum'[w] = Prefix(w)
      BY <1>1 DEF StatAndHash, Goto, TypeInv, TypeOK
    <2>2. res[w] # "mismatch" /\ partial = file[w]
      BY <2>1 DEF HealOf, HoldSteps
    <2>3. retry[w] => Prefix(w) = <<>>
      BY <2>1 DEF HealOf, Prefix
    <2>4. resumed'[w] <=> Prefix(w) # <<>>
      BY <1>1 DEF StatAndHash, TypeInv, TypeOK
    <2>5. ~resumed'[w] =>
            Len(sum'[w]) <= BlobSize /\ \A i \in DOMAIN sum'[w] : sum'[w][i] = "good"
      <3>1. Len(<<>>) = 0 /\ DOMAIN <<>> = {}
        OBVIOUS
      <3> QED
        BY <1>0, <2>1, <2>4, <3>1
    <2>6. retry[w] => ~resumed'[w]
      BY <2>3, <2>4
    <2> QED
      BY <1>0, <2>1, <2>2, <2>5, <2>6 DEF HealOf, Good, HoldSteps, Retries, FetchSteps
  <1>2. CASE ReadChunk(w)
    <2>1. PICK c \in Offers(w) : sum' = [sum EXCEPT ![w] = Append(@, c)]
      BY <1>2 DEF ReadChunk
    <2>2. /\ pc[w] = "copy" /\ pc'[w] = "copy" /\ partial' = partial /\ file' = file
          /\ call' = call /\ retry' = retry /\ res' = res /\ resumed' = resumed
          /\ sum'[w] = Append(s, c) /\ Len(s) < call[w].size
      BY <1>2, <2>1 DEF ReadChunk, Goto, TypeInv, TypeOK
    <2>3. res[w] # "mismatch" /\ partial = file[w]
      BY <2>2 DEF HealOf, HoldSteps
    <2>4. ASSUME Clean
          PROVE  Len(sum'[w]) <= BlobSize /\ \A i \in DOMAIN sum'[w] : sum'[w][i] = "good"
      <3>1. c = "good" /\ Len(s) < BlobSize
        BY <2>2, <2>4 DEF Offers, Good
      <3>2. \A i \in DOMAIN s : s[i] = "good"
        BY <2>2, <2>4 DEF HealOf
      <3>3. DOMAIN s = 1..Len(s) /\ c \in Chunk
        BY <1>0, <3>1, LenProperties DEF Chunk
      <3>4. /\ Len(Append(s, c)) = Len(s) + 1 /\ DOMAIN Append(s, c) = 1..(Len(s) + 1)
            /\ \A i \in 1..Len(s) : Append(s, c)[i] = s[i]
            /\ Append(s, c)[Len(s) + 1] = c
        BY <1>0, <3>3, AppendProperties, LenProperties
      <3> HIDE DEF s
      <3>5. \A i \in 1..(Len(s) + 1) : Append(s, c)[i] = "good"
        BY <1>0, <3>1, <3>2, <3>3, <3>4
      <3> QED
        BY <1>0, <2>2, <3>1, <3>4, <3>5
    <2> QED
      BY <2>2, <2>3, <2>4 DEF HealOf, Good, HoldSteps, Retries, FetchSteps
  <1>3. CASE SourceEnds(w)
    <2>1. /\ pc[w] = "copy" /\ pc'[w] = "close" /\ partial' = None /\ file' = file
          /\ call' = call /\ retry' = retry /\ resumed' = resumed
          /\ res'[w] = "mismatch" /\ Len(s) < call[w].size /\ EndsEarly(w)
      BY <1>3 DEF SourceEnds, Discard, Leave, Goto, attempt, TypeInv, TypeOK
    <2>2. Good(w) => FALSE
      BY <1>0, <2>1 DEF Good, EndsEarly
    <2>3. retry[w] => ~resumed[w]
      BY <2>1 DEF HealOf
    <2> QED
      BY <2>1, <2>2, <2>3 DEF HealOf, Good, HoldSteps, Retries, FetchSteps
  <1>4. CASE Verify(w)
    <2>1. /\ pc[w] = "copy" /\ Len(s) >= call[w].size
          /\ file' = file /\ call' = call /\ retry' = retry /\ resumed' = resumed
      BY <1>4 DEF Verify, Goto, Leave, attempt
    <2>2. retry[w] => ~resumed[w]
      BY <2>1 DEF HealOf
    <2>3. res[w] # "mismatch" /\ partial = file[w]
      BY <2>1 DEF HealOf, HoldSteps
    <2>4. CASE s = Whole
      <3>1. pc'[w] = "sync" /\ partial' = partial /\ res' = res
        BY <1>4, <2>4 DEF Verify, Goto, TypeInv, TypeOK
      <3> QED
        BY <2>1, <2>2, <2>3, <3>1 DEF HealOf, Good, HoldSteps, Retries, FetchSteps
    <2>5. CASE s # Whole
      <3>1. pc'[w] = "close" /\ partial' = None /\ res'[w] = "mismatch"
        BY <1>4, <2>5 DEF Verify, Leave, Discard, Goto, TypeInv, TypeOK
      <3>2. ~Clean
        <4>1. SUFFICES ASSUME Clean PROVE FALSE
          OBVIOUS
        <4>2. Len(s) = BlobSize /\ \A i \in DOMAIN s : s[i] = "good"
          BY <1>0, <2>1, <4>1 DEF HealOf, Good
        <4>3. s = Whole
          BY <1>0, <4>2, LenProperties DEF Whole
        <4> QED
          BY <2>5, <4>3
      <3> QED
        BY <2>1, <2>2, <3>1, <3>2 DEF HealOf, Good, HoldSteps, Retries, FetchSteps
    <2> QED
      BY <2>4, <2>5
  <1> QED
    BY <1>1, <1>2, <1>3, <1>4

\* The other steps of the section: a mismatch has taken the name away before the file is closed,
\* so the second attempt opens an empty file.
LEMMA HealInside ==
  ASSUME TypeInv, NEW w \in Workers, HealOf(w), Inside(w)
  PROVE  HealOf(w)'
  <1> USE DEF Goto, Leave, disk, attempt
  <1>0. /\ pc \in [Workers -> Steps] /\ res \in [Workers -> {"none", "ok", "mismatch", "err"}]
        /\ sum \in [Workers -> Seq(Chunk)] /\ file \in [Workers -> Inodes \cup {None}]
        /\ resumed \in [Workers -> BOOLEAN] /\ retry \in [Workers -> BOOLEAN]
        /\ content \in [Inodes -> Seq(Chunk)]
    BY DEF TypeInv, TypeOK
  <1>1. CASE StatAndHash(w) \/ ReadChunk(w) \/ SourceEnds(w) \/ Verify(w)
    BY <1>1, HealCopy
  <1>2. CASE FetchHas(w)
    BY <1>0, <1>2 DEF FetchHas, HealOf, Good, HoldSteps, Retries, FetchSteps
  <1>3. CASE OpenPartial(w)
    <2>1. /\ pc[w] = "open" /\ pc'[w] = "flock" /\ res' = res /\ call' = call
          /\ retry' = retry /\ resumed' = resumed
      BY <1>0, <1>3 DEF OpenPartial
    <2>2. retry[w] => partial' = file'[w] /\ content'[file'[w]] = <<>>
      <3>1. retry[w] => partial = None
        BY <2>1 DEF HealOf
      <3> QED
        BY <1>0, <1>3, <3>1 DEF OpenPartial
    <2> QED
      BY <2>1, <2>2 DEF HealOf, Good, HoldSteps, Retries, FetchSteps
  <1>4. CASE LockFile(w)
    BY <1>0, <1>4 DEF LockFile, HealOf, Good, HoldSteps, Retries, FetchSteps
  <1>5. CASE CheckSame(w)
    BY <1>0, <1>5 DEF CheckSame, CloseFile, HealOf, Good, HoldSteps, Retries, FetchSteps
  <1>6. CASE RecheckHas(w)
    BY <1>0, <1>6 DEF RecheckHas, HealOf, Good, HoldSteps, Retries, FetchSteps
  <1>7. CASE Sync(w)
    BY <1>0, <1>7 DEF Sync, HealOf, Good, HoldSteps, Retries, FetchSteps
  <1>8. CASE Commit(w)
    BY <1>0, <1>8 DEF Commit, HealOf, Good, HoldSteps, Retries, FetchSteps
  <1>9. CASE Close(w)
    <2>1. /\ pc[w] = "close" /\ partial' = partial /\ call' = call
      BY <1>9 DEF Close
    <2>2. CASE Retries(w)
      <3>1. pc'[w] = "open" /\ res'[w] = "none" /\ partial = None /\ ~resumed'[w]
        BY <1>0, <1>9, <2>2 DEF Close, HealOf, Retries
      <3> QED
        BY <2>1, <3>1 DEF HealOf, Good, HoldSteps, FetchSteps
    <2>3. CASE ~Retries(w)
      <3>1. pc'[w] = "unlock" /\ res' = res /\ retry' = retry /\ resumed' = resumed
        BY <1>0, <1>9, <2>3 DEF Close
      <3> QED
        BY <2>1, <2>3, <3>1 DEF HealOf, Good, HoldSteps, FetchSteps
    <2> QED
      BY <2>2, <2>3
  <1>10. CASE PutHas(w)
    BY <1>0, <1>10 DEF PutHas, HealOf, Good, HoldSteps, Retries, FetchSteps
  <1>11. CASE PutCommit(w)
    BY <1>0, <1>11 DEF PutCommit, HealOf, Good, HoldSteps, Retries, FetchSteps
  <1>12. CASE Fault(w)
    BY <1>0, <1>12 DEF Fault, Interrupt, IOFails, HealOf, Good, HoldSteps, Retries, FetchSteps
  <1> QED
    BY <1>1, <1>2, <1>3, <1>4, <1>5, <1>6, <1>7, <1>8, <1>9, <1>10, <1>11, <1>12 DEF Inside

\* What one goroutine holds is not touched by another that is outside of the section.
LEMMA HealFrame ==
  ASSUME NEW w \in Workers, HealOf(w),
         pc'[w] = pc[w], file'[w] = file[w], call'[w] = call[w], sum'[w] = sum[w],
         resumed'[w] = resumed[w], retry'[w] = retry[w], res'[w] = res[w],
         partial' = partial,
         pc[w] \notin NoFileSteps => content'[file[w]] = content[file[w]]
  PROVE  HealOf(w)'
  BY DEF HealOf, Good, Retries, HoldSteps, NoFileSteps, FetchSteps

\* The steps outside of the section.
Outside(w) == FetchBegin(w) \/ PutBegin(w) \/ OpenBlob(w) \/ CloseBlob(w)

LEMMA OutsideMoves ==
  ASSUME TypeInv, NEW w \in Workers, Outside(w)
  PROVE  /\ pc[w] \notin Section /\ pc'[w] \notin Section
         /\ mutex' = mutex /\ partial' = partial /\ res' = res /\ retry' = retry
         /\ \A v \in Workers \ {w} :
              /\ pc'[v] = pc[v] /\ file'[v] = file[v] /\ call'[v] = call[v] /\ sum'[v] = sum[v]
              /\ resumed'[v] = resumed[v]
              /\ content'[file[v]] = content[file[v]]
  <1> USE DEF TypeInv, TypeOK, Goto, Section, FetchSteps, disk, attempt
  <1>1. CASE FetchBegin(w)
    BY <1>1 DEF FetchBegin
  <1>2. CASE PutBegin(w)
    <2>1. PICK i \in Inodes :
            /\ Unused(i) /\ file' = [file EXCEPT ![w] = i]
            /\ content' = [content EXCEPT ![i] = Whole]
      BY <1>2 DEF PutBegin
    <2>2. \A v \in Workers : file[v] # i
      BY <2>1 DEF Unused
    <2>3. \A v \in Workers \ {w} : content'[file[v]] = content[file[v]]
      BY <2>1, <2>2
    <2> QED
      BY <1>2, <2>1, <2>3 DEF PutBegin
  <1>3. CASE OpenBlob(w)
    BY <1>3 DEF OpenBlob
  <1>4. CASE CloseBlob(w)
    BY <1>4 DEF CloseBlob
  <1> QED
    BY <1>1, <1>2, <1>3, <1>4 DEF Outside

LEMMA HealInit == Init => HealInv
  <1> SUFFICES ASSUME Init PROVE HealInv
    OBVIOUS
  <1>1. TypeInv
    BY TypeInit
  <1>2. \A w \in Workers : pc[w] = "idle" /\ res[w] = "none" /\ ~retry[w]
    BY DEF Init
  <1>3. \A w \in Workers : HealOf(w)
    BY <1>2, HealOutside DEF Section, FetchSteps
  <1>4. SectionInv
    BY <1>2 DEF SectionInv, Section, FetchSteps
  <1> QED
    BY <1>1, <1>3, <1>4 DEF HealInv

\* When all goroutines die, nobody owes anything.
LEMMA HealKill ==
  ASSUME Kill(Workers)
  PROVE  SectionInv' /\ \A w \in Workers : HealOf(w)'
  <1>1. \A w \in Workers : pc'[w] = "idle" /\ res'[w] = "none" /\ ~retry'[w]
    BY DEF Kill
  <1>2. \A w \in Workers : HealOf(w)'
    BY <1>1 DEF HealOf, Good, HoldSteps
  <1>3. SectionInv'
    BY <1>1 DEF SectionInv, Section, FetchSteps
  <1> QED
    BY <1>2, <1>3

\* A goroutine that is in the section, enters it or leaves it is alone there, so its steps
\* concern itself; one outside touches nothing of the one inside.
LEMMA HealNext == OneProcess /\ HealInv /\ [Next]_vars => HealInv'
  <1> SUFFICES ASSUME OneProcess, HealInv, [Next]_vars PROVE HealInv'
    OBVIOUS
  <1>0. /\ TypeInv /\ SectionInv /\ TypeInv' /\ \A w \in Workers : HealOf(w)
    BY TypeNext DEF HealInv
  <1>a. \A w \in Workers : pc[w] \notin Section => res[w] # "mismatch" /\ ~retry[w]
    BY <1>0 DEF HealOf, Section, FetchSteps
  <1> DEFINE Healed == SectionInv' /\ \A w \in Workers : HealOf(w)'
  <1>b. /\ pc \in [Workers -> Steps] /\ mutex \in [Processes -> Workers \cup {None}]
        /\ res \in [Workers -> {"none", "ok", "mismatch", "err"}]
        /\ retry \in [Workers -> BOOLEAN] /\ ProcessOf \in [Workers -> Processes]
        /\ None \notin Workers
    BY <1>0, CacheAssumption DEF TypeInv, TypeOK
  <1>1. ASSUME NEW w \in Workers, Inside(w) PROVE Healed
    <2>1. /\ pc[w] \in Section /\ pc'[w] \in Section /\ mutex' = mutex
          /\ \A v \in Workers \ {w} : pc'[v] = pc[v] /\ res'[v] = res[v] /\ retry'[v] = retry[v]
      BY <1>0, <1>1, InsideMoves
    <2>2. \A v \in Workers \ {w} : pc[v] \notin Section
      BY <1>0, <2>1, AloneInSection
    <2>3. HealOf(w)'
      BY <1>0, <1>1, HealInside
    <2>4. \A v \in Workers \ {w} : pc'[v] \notin Section /\ res'[v] # "mismatch" /\ ~retry'[v]
      BY <1>a, <2>1, <2>2
    <2>5. \A v \in Workers \ {w} : HealOf(v)'
      BY <2>4 DEF HealOf, Section, FetchSteps, HoldSteps
    <2>6. SectionInv'
      BY <1>0, <2>1, <2>4 DEF SectionInv, Section
    <2> QED
      BY <2>3, <2>5, <2>6
  <1>2. ASSUME NEW w \in Workers, FetchLock(w) \/ PutLock(w) PROVE Healed
    <2>1. /\ mutex[ProcessOf[w]] = None /\ mutex' = [mutex EXCEPT ![ProcessOf[w]] = w]
          /\ pc[w] \in {"lock", "putlock"} /\ pc'[w] \in {"has", "puthas"}
          /\ res' = res /\ retry' = retry /\ \A v \in Workers \ {w} : pc'[v] = pc[v]
      BY <1>2, <1>b DEF FetchLock, PutLock, AcquireMutex, Goto, attempt
    <2>2. \A v \in Workers : pc[v] \notin Section
      <3>1. SUFFICES ASSUME NEW v \in Workers, pc[v] \in Section PROVE FALSE
        OBVIOUS
      <3>2. mutex[ProcessOf[v]] = v /\ ProcessOf[v] = ProcessOf[w]
        BY <1>0, <3>1 DEF SectionInv, OneProcess
      <3> QED
        BY <1>b, <2>1, <3>2
    <2>3. \A v \in Workers : res'[v] # "mismatch" /\ ~retry'[v]
      BY <1>a, <2>1, <2>2
    <2>4. \A v \in Workers \ {w} : pc'[v] \notin Section
      BY <2>1, <2>2
    <2>5. \A v \in Workers : pc'[v] \notin Section \/ pc'[v] \in {"has", "puthas"}
      BY <2>1, <2>4
    <2>6. \A v \in Workers : HealOf(v)'
      BY <2>3, <2>5 DEF HealOf, Section, FetchSteps, HoldSteps
    <2>7. mutex'[ProcessOf[w]] = w
      BY <1>b, <2>1
    <2>8. SectionInv'
      BY <2>4, <2>7 DEF SectionInv, Section
    <2> QED
      BY <2>6, <2>8
  <1>3. ASSUME NEW w \in Workers, Unlock(w) PROVE Healed
    <2>1. /\ pc[w] = "unlock" /\ pc'[w] = "idle" /\ res'[w] = "none" /\ ~retry'[w]
          /\ \A v \in Workers \ {w} : pc'[v] = pc[v] /\ res'[v] = res[v] /\ retry'[v] = retry[v]
      BY <1>3, <1>b DEF Unlock, Goto
    <2>2. \A v \in Workers \ {w} : pc[v] \notin Section
      BY <1>0, <2>1, AloneInSection DEF Section
    <2>3. \A v \in Workers : pc'[v] \notin Section /\ res'[v] # "mismatch" /\ ~retry'[v]
      BY <1>a, <2>1, <2>2 DEF Section, FetchSteps
    <2>4. \A v \in Workers : HealOf(v)'
      BY <2>3 DEF HealOf, Section, FetchSteps, HoldSteps
    <2>5. SectionInv'
      BY <2>3 DEF SectionInv, Section
    <2> QED
      BY <2>4, <2>5
  <1>4. ASSUME NEW w \in Workers, Outside(w) PROVE Healed
    <2>1. /\ pc[w] \notin Section /\ pc'[w] \notin Section
          /\ mutex' = mutex /\ partial' = partial /\ res' = res /\ retry' = retry
          /\ \A v \in Workers \ {w} :
               /\ pc'[v] = pc[v] /\ file'[v] = file[v] /\ call'[v] = call[v] /\ sum'[v] = sum[v]
               /\ resumed'[v] = resumed[v]
               /\ content'[file[v]] = content[file[v]]
      BY <1>0, <1>4, OutsideMoves
    <2>2. HealOf(w)'
      <3>1. res'[w] # "mismatch" /\ ~retry'[w]
        BY <1>a, <2>1
      <3> QED
        BY <2>1, <3>1 DEF HealOf, Section, FetchSteps, HoldSteps
    <2>3. \A v \in Workers \ {w} : HealOf(v)'
      BY <1>0, <2>1, HealFrame
    <2>4. SectionInv'
      BY <1>0, <2>1 DEF SectionInv, Section
    <2> QED
      BY <2>2, <2>3, <2>4
  <1>5. ASSUME NEW p \in Processes, Crash(p) PROVE Healed
    <2>1. {w \in Workers : ProcessOf[w] = p} = Workers
      BY <1>5 DEF Crash, OneProcess
    <2>2. Kill({w \in Workers : ProcessOf[w] = p})
      BY <1>5 DEF Crash
    <2>3. Kill(Workers)
      BY <2>1, <2>2
    <2> QED
      BY <2>3, HealKill
  <1>6. ASSUME PowerLoss PROVE Healed
    BY <1>6, HealKill DEF PowerLoss
  <1>7. ASSUME UNCHANGED vars PROVE Healed
    <2>1. SectionInv'
      BY <1>0, <1>7 DEF SectionInv, Section, vars
    <2>2. \A w \in Workers : HealOf(w)'
      BY <1>0, <1>7 DEF HealOf, Good, Retries, HoldSteps, vars
    <2> QED
      BY <2>1, <2>2
  <1> HIDE DEF Healed
  <1>8. Healed
    BY <1>1, <1>2, <1>3, <1>4, <1>5, <1>6, <1>7
    DEF Next, Begin, Step, FetchStep, PutStep, Inside, Outside
  <1> QED
    BY <1>0, <1>8 DEF HealInv, Healed

\* The mutex of the one process does.
LEMMA MutexSetsApart ==
  ASSUME OneProcess, SectionInv
  PROVE  Apart
  BY AloneInSection DEF Apart, HoldSteps, Section, FetchSteps

-----------------------------------------------------------------------------
(* The theorems: for the build that locks, however many processes share    *)
(* the cache, and for the one that does not when a single process has it.  *)

\* The inductive invariant of the build that locks holds in every reachable state.
THEOREM Invariance == ASSUME Locking PROVE Spec => []IInv
  <1>1. Init => IInv
    BY TypeInit, FilesInit DEF IInv
  <1>2. IInv /\ [Next]_vars => IInv'
    BY TypeNext, LockNext, LocksSetApart, FilesNext DEF IInv
  <1> QED
    BY <1>1, <1>2, PTL DEF Spec

\* So do those of its parts that are about the files in a build without flock, when one process
\* has the cache.
THEOREM FilesInvariance == ASSUME Locking \/ OneProcess PROVE Spec => [](TypeInv /\ Apart /\ FilesInv)
  <1>1. CASE Locking
    <2>1. IInv => TypeInv /\ Apart /\ FilesInv
      BY LocksSetApart DEF IInv
    <2> QED
      BY <1>1, <2>1, Invariance, PTL
  <1>2. CASE OneProcess
    <2>1. Init => FilesInv
      BY FilesInit
    <2>2. HealInv => TypeInv /\ Apart
      BY <1>2, MutexSetsApart DEF HealInv
    <2>3. HealInv /\ FilesInv /\ [Next]_vars => FilesInv'
      BY <2>2, TypeNext, FilesNext
    <2>4. HealInv /\ [Next]_vars => HealInv'
      BY <1>2, HealNext
    <2> QED
      BY <2>1, <2>2, <2>3, <2>4, HealInit, PTL DEF Spec
  <1> QED
    BY <1>1, <1>2

\* A file at blobs/<alg>/<hex> always has the digest's content and is on disk, however many
\* workers fetch, put, crash and lose power.
THEOREM CommittedBlobsAreWhole == ASSUME Locking \/ OneProcess PROVE Spec => []CommittedIsWhole
  <1>1. TypeInv /\ Apart /\ FilesInv => CommittedIsWhole
    BY DEF FilesInv
  <1> QED
    BY <1>1, FilesInvariance, PTL

\* What lock_other.go says of colliding writers holds as long as one process has the cache: the
\* digest check is never bypassed.  Two processes without flock break it (BlobCacheNoLock).
THEOREM CollisionsAreCaught == ASSUME Locking \/ OneProcess PROVE Spec => []CollisionsCaught
  <1>1. CommittedIsWhole => CollisionsCaught
    BY DEF CommittedIsWhole, CollisionsCaught
  <1> QED
    BY <1>1, CommittedBlobsAreWhole, PTL

\* One worker at a time is past openLocked, and the file it has is the one at the name: flock, or
\* the mutex of the one process, is enough.
THEOREM MutualExclusion == ASSUME Locking \/ OneProcess PROVE Spec => []OneHolder
  <1>1. TypeInv /\ Apart /\ FilesInv => OneHolder
    BY HolderAlone DEF OneHolder, Holding, HoldSteps
  <1> QED
    BY <1>1, FilesInvariance, PTL

\* The digest a fetch checks is that of the bytes in the file it commits.
THEOREM DigestFollowsFile == ASSUME Locking \/ OneProcess PROVE Spec => []DigestIsOfFile
  <1>1. TypeInv /\ Apart /\ FilesInv => DigestIsOfFile
    BY DEF FilesInv, WriterInv, DigestIsOfFile
  <1> QED
    BY <1>1, FilesInvariance, PTL

\* A reader sees the whole blob for as long as it has it open.
THEOREM ReadersAreSafe == ASSUME Locking \/ OneProcess PROVE Spec => []ReadersSeeWhole
  <1>1. TypeInv /\ Apart /\ FilesInv => ReadersSeeWhole
    BY DEF FilesInv, PrivateInv, ReadersSeeWhole
  <1> QED
    BY <1>1, FilesInvariance, PTL

\* A call that returns no error leaves the blob in the cache.
THEOREM OkIsStored == ASSUME Locking \/ OneProcess PROVE Spec => []OkMeansStored
  <1>1. TypeInv /\ Apart /\ FilesInv => OkMeansStored
    BY DEF FilesInv
  <1> QED
    BY <1>1, FilesInvariance, PTL

\* The partial name is only taken away by the worker that holds the file at it, while it still
\* has the file open (and locked, where there is a lock).
THEOREM RemovalByHolder == ASSUME Locking \/ OneProcess PROVE Spec => OnlyHolderRemoves
  <1> DEFINE Removal == partial # None /\ partial' # partial =>
               \E w \in Workers : Holding(w) /\ file[w] = partial /\ file'[w] = partial
  <1>1. TypeInv /\ Apart /\ FilesInv /\ [Next]_vars => Removal
    <2> SUFFICES ASSUME TypeInv, Apart, FilesInv, [Next]_vars, partial # None, partial' # partial
                 PROVE  \E w \in Workers : Holding(w) /\ file[w] = partial /\ file'[w] = partial
      OBVIOUS
    <2>1. PICK w \in Workers : SourceEnds(w) \/ Verify(w) \/ Commit(w)
      BY DEF Next, Begin, Step, FetchStep, PutStep, Fault, vars, disk, Crash, PowerLoss,
         FetchBegin, PutBegin, OpenBlob, FetchLock, PutLock, AcquireMutex, FetchHas,
         OpenPartial, LockFile, CheckSame, RecheckHas, StatAndHash, ReadChunk, Sync, Close,
         PutHas, PutCommit, Unlock, CloseBlob, Interrupt, IOFails
    <2>2. pc[w] \in HoldSteps /\ Holding(w) /\ file' = file
      BY <2>1 DEF SourceEnds, Verify, Commit, Goto, Leave, Holding, HoldSteps
    <2> QED
      BY <2>2, HolderAlone
  <1> QED
    BY <1>1, FilesInvariance, PTL DEF Spec, OnlyHolderRemoves

\* In one process, with flock or without, the second attempt of Fetch tells a corrupt prefix
\* from a corrupt source: a source that has the blob, asked for the right size, is never reported
\* as a mismatch.
THEOREM HealsFromGoodSource == ASSUME OneProcess PROVE Spec => []GoodSourceHeals
  <1>1. HealInv => GoodSourceHeals
    <2>1. ASSUME HealInv, NEW w \in Workers, pc[w] = "unlock", res[w] = "mismatch"
          PROVE  ~Good(w)
      BY <2>1 DEF HealInv, HealOf
    <2> QED
      BY <2>1 DEF GoodSourceHeals, Good
  <1>2. HealInv /\ [Next]_vars => HealInv'
    BY HealNext
  <1> QED
    BY <1>1, <1>2, HealInit, PTL DEF Spec

-----------------------------------------------------------------------------
(* The cache implements BlobPool.                                          *)

\* What the callers know, as the mapping gives it.
Outcomes == [w \in Workers |-> Outcome(w)]

\* A step of w between two points inside its call, or outside of any, is not seen by the pool.
LEMMA OutcomeSame ==
  ASSUME TypeInv, NEW w \in Workers, NEW b, pc' = [pc EXCEPT ![w] = b],
         \A v \in Workers \ {w} : res'[v] = res[v],
         \/ pc[w] \notin {"idle", "read", "unlock"} /\ b \notin {"idle", "read", "unlock"}
         \/ pc[w] \in {"idle", "read"} /\ b \in {"idle", "read"}
  PROVE  Outcomes' = Outcomes
  <1> SUFFICES ASSUME NEW v \in Workers PROVE Outcome(v)' = Outcome(v)
    BY DEF Outcomes
  <1> QED
    BY DEF Outcome, TypeInv, TypeOK

\* A step of w that takes it to the outcome o.
LEMMA OutcomeMove ==
  ASSUME TypeInv, NEW w \in Workers, NEW b, NEW o, pc' = [pc EXCEPT ![w] = b],
         \A v \in Workers \ {w} : res'[v] = res[v], Outcome(w)' = o
  PROVE  Outcomes' = [Outcomes EXCEPT ![w] = o]
  <1>1. \A v \in Workers \ {w} : Outcome(v)' = Outcome(v)
    BY DEF Outcome, TypeInv, TypeOK
  <1> QED
    BY <1>1 DEF Outcomes

LEMMA PoolInitial == Init => Pool!PoolInit
  BY DEF Init, Pool!PoolInit, Stored, Outcome

\* Every step of the cache is a step of the pool, or none.
LEMMA PoolStep ==
  ASSUME TypeInv, FilesInv, FilesInv', [Next]_vars
  PROVE  [Pool!PoolNext]_(Pool!poolVars)
  <1> DEFINE Seen == Pool!PoolNext \/ (Outcomes' = Outcomes /\ Stored' = Stored)
  <1>0. /\ Stored = IF blob = None THEN "absent" ELSE "valid"
        /\ Stored' = IF blob' = None THEN "absent" ELSE "valid"
    BY DEF FilesInv, CommittedIsWhole, Stored
  <1> USE DEF Goto, Leave, disk, attempt
  <1>1. ASSUME NEW w \in Workers, FetchBegin(w) \/ PutBegin(w) PROVE Seen
    <2>1. blob' = blob /\ res' = res /\ pc[w] = "idle"
          /\ \E b \in {"lock", "putlock"} : pc' = [pc EXCEPT ![w] = b]
      BY <1>1 DEF FetchBegin, PutBegin
    <2>2. Outcome(w) = "idle" /\ Outcome(w)' = "pending"
      BY <2>1 DEF Outcome, TypeInv, TypeOK
    <2>3. Outcomes' = [Outcomes EXCEPT ![w] = "pending"]
      <3>1. PICK b : pc' = [pc EXCEPT ![w] = b]
        BY <2>1
      <3>2. \A v \in Workers \ {w} : res'[v] = res[v]
        BY <2>1
      <3> QED
        BY <2>2, <3>1, <3>2, OutcomeMove
    <2> QED
      BY <1>0, <2>1, <2>2, <2>3 DEF Pool!PoolNext, Pool!Begin, Pool!Move, Outcomes
  <1>2. ASSUME NEW w \in Workers, NEW b, blob' = blob, pc' = [pc EXCEPT ![w] = b],
               \A v \in Workers \ {w} : res'[v] = res[v],
               \/ pc[w] \notin {"idle", "read", "unlock"} /\ b \notin {"idle", "read", "unlock"}
               \/ pc[w] \in {"idle", "read"} /\ b \in {"idle", "read"}
        PROVE  Seen
    BY <1>0, <1>2, OutcomeSame
  <1>a. ASSUME NEW w \in Workers, OpenBlob(w) \/ CloseBlob(w) PROVE Seen
    <2>1. /\ blob' = blob /\ res' = res /\ pc[w] \in {"idle", "read"}
          /\ \E b \in {"idle", "read"} : pc' = [pc EXCEPT ![w] = b]
      BY <1>a DEF OpenBlob, CloseBlob
    <2> QED
      BY <1>2, <2>1
  <1>b. ASSUME NEW w \in Workers, FetchLock(w) \/ PutLock(w) \/ LockFile(w) PROVE Seen
    <2>1. /\ blob' = blob /\ res' = res /\ pc[w] \in {"lock", "putlock", "flock"}
          /\ \E b \in {"has", "puthas", "same"} : pc' = [pc EXCEPT ![w] = b]
      BY <1>b DEF FetchLock, PutLock, LockFile, AcquireMutex
    <2> QED
      BY <1>2, <2>1
  <1>c. ASSUME NEW w \in Workers, OpenPartial(w) PROVE Seen
    <2>1. blob' = blob /\ res' = res /\ pc[w] = "open" /\ pc' = [pc EXCEPT ![w] = "flock"]
      BY <1>c DEF OpenPartial
    <2> QED
      BY <1>2, <2>1
  <1>d. ASSUME NEW w \in Workers, CheckSame(w) PROVE Seen
    <2>1. /\ blob' = blob /\ res' = res /\ pc[w] = "same"
          /\ \E b \in {"recheck", "open"} : pc' = [pc EXCEPT ![w] = b]
      BY <1>d DEF CheckSame
    <2> QED
      BY <1>2, <2>1
  <1>e. ASSUME NEW w \in Workers, StatAndHash(w) \/ ReadChunk(w) \/ Sync(w) PROVE Seen
    <2>1. /\ blob' = blob /\ res' = res /\ pc[w] \in {"stat", "copy", "sync"}
          /\ \E b \in {"copy", "commit"} : pc' = [pc EXCEPT ![w] = b]
      BY <1>e DEF StatAndHash, ReadChunk, Sync
    <2> QED
      BY <1>2, <2>1
  <1>f. ASSUME NEW w \in Workers, RecheckHas(w) \/ SourceEnds(w) PROVE Seen
    <2>1. /\ blob' = blob /\ pc[w] \in {"recheck", "copy"}
          /\ \E b \in {"stat", "close"} : pc' = [pc EXCEPT ![w] = b]
          /\ res' = res \/ \E r : res' = [res EXCEPT ![w] = r]
      BY <1>f DEF RecheckHas, SourceEnds
    <2>2. \A v \in Workers \ {w} : res'[v] = res[v]
      BY <2>1 DEF TypeInv, TypeOK
    <2> QED
      BY <1>2, <2>1, <2>2
  <1>g. ASSUME NEW w \in Workers, Verify(w) \/ Interrupt(w) PROVE Seen
    <2>1. /\ blob' = blob /\ pc[w] = "copy"
          /\ \E b \in {"sync", "close"} : pc' = [pc EXCEPT ![w] = b]
          /\ res' = res \/ \E r : res' = [res EXCEPT ![w] = r]
      BY <1>g DEF Verify, Interrupt
    <2>2. \A v \in Workers \ {w} : res'[v] = res[v]
      BY <2>1 DEF TypeInv, TypeOK
    <2> QED
      BY <1>2, <2>1, <2>2
  <1>3. ASSUME NEW w \in Workers, pc[w] \notin {"idle", "read", "unlock"}, blob' = blob,
               pc' = [pc EXCEPT ![w] = "unlock"],
               \A v \in Workers \ {w} : res'[v] = res[v]
        PROVE  Seen
    <2>1. Outcome(w) = "pending" /\ Outcome(w)' = IF res'[w] = "ok" THEN "ok" ELSE "failed"
      BY <1>3 DEF Outcome, TypeInv, TypeOK
    <2>2. CASE res'[w] = "ok"
      <3>1. Outcomes' = [Outcomes EXCEPT ![w] = "ok"]
        BY <1>3, <2>1, <2>2, OutcomeMove
      <3>2. Stored' = "valid"
        BY <1>0, <2>2 DEF FilesInv, OkMeansStored
      <3> QED
        BY <2>1, <3>1, <3>2 DEF Pool!PoolNext, Pool!Succeed, Pool!Move, Outcomes
    <2>3. CASE res'[w] # "ok"
      <3>1. Outcomes' = [Outcomes EXCEPT ![w] = "failed"]
        BY <1>3, <2>1, <2>3, OutcomeMove
      <3> QED
        BY <1>0, <1>3, <2>1, <3>1 DEF Pool!PoolNext, Pool!Fail, Pool!Move, Outcomes
    <2> QED
      BY <2>2, <2>3
  <1>4. ASSUME NEW w \in Workers, FetchHas(w) \/ PutHas(w) PROVE Seen
    <2>1. /\ blob' = blob /\ pc[w] \in {"has", "puthas"}
          /\ \/ res' = [res EXCEPT ![w] = "ok"] /\ pc' = [pc EXCEPT ![w] = "unlock"]
             \/ /\ res' = res
                /\ \E b \in {"open", "putcommit"} : pc' = [pc EXCEPT ![w] = b]
      BY <1>4 DEF FetchHas, PutHas
    <2>2. \A v \in Workers \ {w} : res'[v] = res[v]
      BY <2>1 DEF TypeInv, TypeOK
    <2> QED
      BY <1>0, <1>3, <2>1, <2>2, OutcomeSame
  <1>5. ASSUME NEW w \in Workers, Close(w) PROVE Seen
    <2>1. /\ blob' = blob /\ pc[w] = "close"
          /\ \E b \in {"open", "unlock"} : pc' = [pc EXCEPT ![w] = b]
          /\ res' = res \/ res' = [res EXCEPT ![w] = "none"]
      BY <1>5 DEF Close
    <2>2. \A v \in Workers \ {w} : res'[v] = res[v]
      BY <2>1 DEF TypeInv, TypeOK
    <2> QED
      BY <1>0, <1>3, <2>1, <2>2, OutcomeSame
  <1>6. ASSUME NEW w \in Workers, IOFails(w) PROVE Seen
    <2>1. /\ blob' = blob /\ pc[w] \notin {"idle", "read", "unlock"}
          /\ \E b \in {"unlock", "close"} : pc' = [pc EXCEPT ![w] = b]
          /\ res' = [res EXCEPT ![w] = "err"]
      BY <1>6 DEF IOFails
    <2>2. \A v \in Workers \ {w} : res'[v] = res[v]
      BY <2>1 DEF TypeInv, TypeOK
    <2> QED
      BY <1>0, <1>3, <2>1, <2>2, OutcomeSame
  <1>7. ASSUME NEW w \in Workers, Commit(w) PROVE Seen
    <2>1. /\ pc[w] = "commit" /\ pc' = [pc EXCEPT ![w] = "close"]
          /\ res' = [res EXCEPT ![w] = "ok"] /\ blob' = partial /\ partial # None
      BY <1>7 DEF Commit
    <2>2. Outcome(w) = "pending" /\ \A v \in Workers \ {w} : res'[v] = res[v]
      BY <2>1 DEF Outcome, TypeInv, TypeOK
    <2>3. Outcomes' = Outcomes
      BY <2>1, <2>2, OutcomeSame
    <2> QED
      BY <1>0, <2>1, <2>2, <2>3 DEF Pool!PoolNext, Pool!Store, Outcomes
  <1>8. ASSUME NEW w \in Workers, PutCommit(w) PROVE Seen
    <2>1. /\ pc[w] = "putcommit" /\ pc' = [pc EXCEPT ![w] = "unlock"]
          /\ \/ res' = [res EXCEPT ![w] = "ok"]
             \/ res' = [res EXCEPT ![w] = "err"] /\ blob' = blob
      BY <1>8 DEF PutCommit
    <2>2. \A v \in Workers \ {w} : res'[v] = res[v]
      BY <2>1 DEF TypeInv, TypeOK
    <2>3. CASE res'[w] = "ok"
      <3>1. Outcome(w) = "pending" /\ Outcome(w)' = "ok"
        BY <2>1, <2>3 DEF Outcome, TypeInv, TypeOK
      <3>2. Outcomes' = [Outcomes EXCEPT ![w] = "ok"]
        BY <2>1, <2>2, <3>1, OutcomeMove
      <3>3. Stored' = "valid"
        BY <1>0, <2>3 DEF FilesInv, OkMeansStored
      <3> QED
        BY <3>1, <3>2, <3>3 DEF Pool!PoolNext, Pool!Succeed, Pool!Move, Outcomes
    <2>4. CASE res'[w] # "ok"
      <3>1. blob' = blob
        BY <2>1, <2>4 DEF TypeInv, TypeOK
      <3> QED
        BY <1>3, <2>1, <2>2, <3>1
    <2> QED
      BY <2>3, <2>4
  <1>9. ASSUME NEW w \in Workers, Unlock(w) PROVE Seen
    <2>1. /\ blob' = blob /\ pc[w] = "unlock" /\ pc' = [pc EXCEPT ![w] = "idle"]
          /\ res' = [res EXCEPT ![w] = "none"]
      BY <1>9 DEF Unlock
    <2>2. Outcome(w) \in {"ok", "failed"} /\ Outcome(w)' = "idle"
      BY <2>1 DEF Outcome, TypeInv, TypeOK
    <2>3. \A v \in Workers \ {w} : res'[v] = res[v]
      BY <2>1 DEF TypeInv, TypeOK
    <2>4. Outcomes' = [Outcomes EXCEPT ![w] = "idle"]
      BY <2>1, <2>2, <2>3, OutcomeMove
    <2> QED
      BY <1>0, <2>1, <2>2, <2>4 DEF Pool!PoolNext, Pool!Return, Outcomes
  <1>10. ASSUME NEW K \in SUBSET Workers, Kill(K), blob' = blob PROVE Seen
    <2>1. \A v \in Workers : Outcome(v)' = IF v \in K THEN "idle" ELSE Outcome(v)
      BY <1>10 DEF Kill, Outcome
    <2>2. Outcomes' = [v \in Workers |-> IF v \in K THEN "idle" ELSE Outcomes[v]]
      BY <2>1 DEF Outcomes
    <2> QED
      BY <1>0, <1>10, <2>2 DEF Pool!PoolNext, Pool!Kill, Outcomes
  <1>11. ASSUME \E p \in Processes : Crash(p) PROVE Seen
    <2>1. PICK p \in Processes : Crash(p)
      BY <1>11
    <2> DEFINE K == {w \in Workers : ProcessOf[w] = p}
    <2>2. K \in SUBSET Workers /\ Kill(K) /\ blob' = blob
      BY <2>1 DEF Crash
    <2> HIDE DEF K
    <2> QED
      BY <1>10, <2>2
  <1>12. ASSUME PowerLoss PROVE Seen
    <2>1. Workers \in SUBSET Workers /\ Kill(Workers) /\ blob' = blob
      BY <1>12 DEF PowerLoss
    <2> QED
      BY <1>10, <2>1
  <1>13. ASSUME UNCHANGED vars PROVE Seen
    <2>1. Outcomes' = Outcomes /\ Stored' = Stored
      BY <1>13 DEF vars, Outcomes, Outcome, Stored
    <2> QED
      BY <2>1
  <1> HIDE DEF Seen
  <1>14. Seen
    BY <1>1, <1>a, <1>b, <1>c, <1>d, <1>e, <1>f, <1>g, <1>4, <1>5, <1>6, <1>7, <1>8, <1>9,
       <1>11, <1>12, <1>13 DEF Next, Begin, Step, FetchStep, PutStep, Fault
  <1> QED
    BY <1>14 DEF Seen, Pool!poolVars, Outcomes

\* The cache, with its files, locks, retries and crashes, implements BlobPool: the digest's
\* entry goes from absent to valid only, and no call succeeds without a valid entry.
THEOREM Refinement == ASSUME Locking \/ OneProcess PROVE Spec => ImplementsPool
  <1>1. TypeInv /\ FilesInv /\ FilesInv' /\ [Next]_vars => [Pool!PoolNext]_(Pool!poolVars)
    BY PoolStep
  <1> QED
    BY <1>1, PoolInitial, FilesInvariance, PTL DEF Spec, ImplementsPool, Pool!PoolSpec

-----------------------------------------------------------------------------
(* Who waits for whom.                                                      *)

\* w waits for v to let go the mutex of their process, or the lock on the file w has open.
WaitsFor(w, v) ==
  \/ pc[w] \in {"lock", "putlock"} /\ mutex[ProcessOf[w]] = v
  \/ pc[w] = "flock" /\ Locking /\ flock[file[w]] = v

\* The mutex is with a goroutine of the process that has taken it and not yet given it back.
MutexInv ==
  \A p \in Processes : mutex[p] # None => ProcessOf[mutex[p]] = p /\ pc[mutex[p]] \in Section

LEMMA MutexNext == TypeInv /\ MutexInv /\ [Next]_vars => MutexInv'
  <1> SUFFICES ASSUME TypeInv, MutexInv, [Next]_vars PROVE MutexInv'
    OBVIOUS
  <1>0. mutex \in [Processes -> Workers \cup {None}]
    BY DEF TypeInv, TypeOK
  <1>1. ASSUME NEW w \in Workers, Outside(w) PROVE MutexInv'
    <2>1. pc[w] \notin Section /\ mutex' = mutex /\ \A v \in Workers \ {w} : pc'[v] = pc[v]
      BY <1>1, OutsideMoves
    <2> QED
      BY <1>0, <2>1 DEF MutexInv
  <1>2. ASSUME NEW w \in Workers, Inside(w) PROVE MutexInv'
    <2>1. pc'[w] \in Section /\ mutex' = mutex /\ \A v \in Workers \ {w} : pc'[v] = pc[v]
      BY <1>2, InsideMoves
    <2> QED
      BY <1>0, <2>1 DEF MutexInv
  <1>3. ASSUME NEW w \in Workers, FetchLock(w) \/ PutLock(w) PROVE MutexInv'
    <2>1. /\ pc[w] \in {"lock", "putlock"} /\ pc'[w] \in Section
          /\ \A v \in Workers \ {w} : pc'[v] = pc[v]
          /\ mutex' = [mutex EXCEPT ![ProcessOf[w]] = w]
      BY <1>3 DEF FetchLock, PutLock, AcquireMutex, Goto, TypeInv, TypeOK, Section, FetchSteps
    <2>2. pc[w] \notin Section
      BY <2>1 DEF Section, FetchSteps
    <2> QED
      BY <1>0, <2>1, <2>2, CacheAssumption DEF MutexInv
  <1>4. ASSUME NEW w \in Workers, Unlock(w) PROVE MutexInv'
    BY <1>4, CacheAssumption DEF Unlock, Goto, MutexInv, TypeInv, TypeOK
  <1>5. ASSUME NEW K \in SUBSET Workers, Kill(K) PROVE MutexInv'
    BY <1>5 DEF Kill, MutexInv, TypeInv, TypeOK
  <1>6. CASE UNCHANGED vars
    BY <1>6 DEF vars, MutexInv
  <1>7. \A p : {w \in Workers : ProcessOf[w] = p} \in SUBSET Workers
    OBVIOUS
  <1> QED
    BY <1>1, <1>2, <1>3, <1>4, <1>5, <1>6, <1>7
       DEF Next, Begin, Step, FetchStep, PutStep, Outside, Inside, Crash, PowerLoss

\* A caller waits for a goroutine of its own process that has the mutex, or for one that has the
\* lock on the file; the second kind waits for nobody, the first at most for the second.
NoCircularWaits ==
  \A u, v \in Workers : WaitsFor(u, v) =>
    \/ \A w \in Workers : ~WaitsFor(v, w)
    \/ /\ pc[u] \in {"lock", "putlock"} /\ ProcessOf[v] = ProcessOf[u] /\ pc[v] = "flock"
       /\ \A w \in Workers : WaitsFor(v, w) =>
            /\ pc[w] \in HoldSteps \cup {"same", "close"}
            /\ \A x \in Workers : ~WaitsFor(w, x)

\* No callers wait for each other, whichever processes they are in and whoever died: at most two
\* steps along the waiting there is a goroutine that waits for nobody, which has the mutex or is
\* between its lock on the file and the deferred close.  Nobody takes the mutex, or another file's
\* lock, with the lock on a file (Fetch, Put and openLocked).
THEOREM WaitsEnd == Spec => []NoCircularWaits
  <1>1. Init => MutexInv
    BY DEF Init, MutexInv
  <1>2. TypeInv /\ MutexInv /\ (Locking => LockInv) => NoCircularWaits
    <2> SUFFICES ASSUME TypeInv, MutexInv, Locking => LockInv,
                        NEW u \in Workers, NEW v \in Workers, WaitsFor(u, v)
                 PROVE  \/ \A w \in Workers : ~WaitsFor(v, w)
                        \/ /\ pc[u] \in {"lock", "putlock"} /\ ProcessOf[v] = ProcessOf[u]
                           /\ pc[v] = "flock"
                           /\ \A w \in Workers : WaitsFor(v, w) =>
                                /\ pc[w] \in HoldSteps \cup {"same", "close"}
                                /\ \A x \in Workers : ~WaitsFor(w, x)
      BY DEF NoCircularWaits
    \* Who has the lock on a file waits for nobody.
    <2>1. ASSUME NEW x \in Workers, NEW w \in Workers, pc[x] = "flock", WaitsFor(x, w)
          PROVE  pc[w] \in HoldSteps \cup {"same", "close"} /\ \A y \in Workers : ~WaitsFor(w, y)
      <3>1. Locking /\ flock[file[x]] = w /\ file[x] \in Inodes
        BY <2>1 DEF WaitsFor, TypeInv, TypeOK, FilesOpen, NoFileSteps
      <3>2. pc[w] \in HoldSteps \cup {"same", "close"}
        BY <3>1, CacheAssumption DEF LockInv
      <3> QED
        BY <3>2 DEF WaitsFor, HoldSteps
    <2>2. CASE pc[u] = "flock"
      BY <2>1, <2>2
    <2>3. CASE pc[u] # "flock"
      <3>1. pc[u] \in {"lock", "putlock"} /\ mutex[ProcessOf[u]] = v /\ ProcessOf[u] \in Processes
        BY <2>3, CacheAssumption DEF WaitsFor
      <3>2. ProcessOf[v] = ProcessOf[u] /\ pc[v] \in Section
        BY <3>1, CacheAssumption DEF MutexInv
      <3>3. pc[v] # "flock" => \A w \in Workers : ~WaitsFor(v, w)
        BY <3>2 DEF WaitsFor, Section, FetchSteps
      <3> QED
        BY <2>1, <3>1, <3>2, <3>3
    <2> QED
      BY <2>2, <2>3
  <1>3. CASE Locking
    <2>1. IInv => TypeInv /\ LockInv
      BY DEF IInv
    <2> QED
      BY <1>1, <1>2, <1>3, <2>1, MutexNext, Invariance, PTL DEF Spec
  <1>4. CASE ~Locking
    BY <1>1, <1>2, <1>4, TypeInit, TypeNext, MutexNext, PTL DEF Spec
  <1> QED
    BY <1>3, <1>4
=============================================================================
