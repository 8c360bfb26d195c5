---------------------------- MODULE FsDirProofs ----------------------------
(***************************************************************************)
(* Proofs about FsDir, for every set of writers, names and contents.       *)
(*                                                                         *)
(* O_EXCL makes a temporary file its writer's own (PrivateInv) and no      *)
(* entry is linked to it before the writer does so (UnlinkedInv); so what  *)
(* the writer compared is what it links (WrittenInv), and no byte of an    *)
(* entry changes after (EntriesChecked).                                   *)
(***************************************************************************)
EXTENDS FsDir, SequenceTheorems, TLAPS

\* A call has the arguments it was made with.
JobInv == \A w \in Writers : pc[w] # "idle" => job[w] \in Jobs

\* A call has a temporary file from its open to its Remove.
FileInv == \A w \in Writers : file[w] # None <=> pc[w] \in {"write", "link", "remove"}

PrivateInv == \A v, w \in Writers : file[v] # None /\ file[v] = file[w] => v = w

UnlinkedInv ==
  \A w \in Writers, n \in Names : pc[w] \in {"write", "link"} => entry[n] # file[w]

\* d is the beginning of what the reader yields.
Begins(d, b) == Len(d) <= Len(b) /\ \A x \in 1..Len(d) : d[x] = b[x]

WrittenInv ==
  \A w \in Writers :
    /\ pc[w] \in {"write", "link"} => Begins(data[file[w]], job[w].body)
    /\ pc[w] = "link" => data[file[w]] = job[w].body /\ Fits(Name(w), job[w].body)

FilesInv == FileInv /\ PrivateInv /\ UnlinkedInv
FsInv == FsTypeOK /\ JobInv /\ FilesInv /\ WrittenInv /\ EntriesChecked

LEMMA JobTypes ==
  ASSUME NEW j \in Jobs
  PROVE  /\ j \in [name : Names \cup {None}, body : Bodies \cup {<<>>}, size : Nat]
         /\ j.name \in Names /\ j.body \in Bodies /\ j.body \in Seq(Nat) /\ j.size \in Nat
         /\ Pinned[j.name] = None => j.size = Len(j.body)
  BY FsAssumption

\* No directory and no temporary file is yielded.
LEMMA YieldedAreEntries ==
  ASSUME NEW n \in Names, NEW F \in Passed(n), NEW x \in Yielded(F)
  PROVE  x = n /\ entry[n] # None
  <1>1. PICK T \in SUBSET tmp :
          F = {[path |-> i, regular |-> TRUE, base |-> ".tmp-"] : i \in T} \cup
                {y \in {[path |-> Front(n), regular |-> FALSE, base |-> "segment"],
                        [path |-> n, regular |-> TRUE, base |-> "segment"]} : entry[n] # None}
    BY DEF Passed
  <1>2. PICK y \in F : y.regular /\ y.base # ".tmp-" /\ x = y.path
    BY DEF Yielded
  <1> QED
    BY <1>1, <1>2

LEMMA FsInitial == FsInit => FsInv
  <1> SUFFICES ASSUME FsInit PROVE FsInv
    OBVIOUS
  <1>1. FsTypeOK
    <2>1. NoJob \in [name : Names \cup {None}, body : Bodies \cup {<<>>}, size : Nat]
      BY DEF NoJob
    <2>2. <<>> \in Seq(Nat) /\ <<>> \in Seq(Names)
      OBVIOUS
    <2> QED
      BY <2>1, <2>2 DEF FsInit, FsTypeOK, Steps
  <1>2. JobInv /\ FilesInv /\ WrittenInv /\ EntriesChecked
    BY DEF FsInit, JobInv, FilesInv, FileInv, PrivateInv, UnlinkedInv, WrittenInv, EntriesChecked
  <1> QED
    BY <1>1, <1>2 DEF FsInv

-----------------------------------------------------------------------------
(* The shapes of a step.                                                    *)

\* w ends, or goes on, with the files as they are.
Stays(w) ==
  /\ UNCHANGED <<tmp, data, job, file, list>>
  /\ \E s \in Steps : pc' = [pc EXCEPT ![w] = s]
  /\ res' = res \/ \E r \in {"ok", "exist", "error"} : res' = [res EXCEPT ![w] = r]

LEMMA EndingStays ==
  ASSUME FsTypeOK, NEW w \in Writers, NEW r, Ending(w, r)
  PROVE  /\ pc'[w] = IF file[w] = None THEN "done" ELSE "remove"
         /\ pc'[w] \in Steps /\ pc' = [pc EXCEPT ![w] = pc'[w]]
         /\ res' = [res EXCEPT ![w] = r] /\ res'[w] = r
         /\ \A v \in Writers \ {w} : pc'[v] = pc[v] /\ res'[v] = res[v]
  BY DEF Ending, FsTypeOK, Steps

\* Everybody's file, job and place but w's.
Others(w) ==
  \A v \in Writers \ {w} :
    pc'[v] = pc[v] /\ job'[v] = job[v] /\ file'[v] = file[v] /\ res'[v] = res[v]

LEMMA CreateOthers ==
  ASSUME FsTypeOK, NEW w \in Writers, Create(w) \/ CreateFails(w) \/ Die(w)
  PROVE  Others(w)
  <1>1. CASE CreateBegin(w) \/ OpenTmp(w) \/ Write(w) \/ RemoveTmp(w)
    BY <1>1 DEF CreateBegin, OpenTmp, Write, RemoveTmp, Goto, Others, FsTypeOK
  <1>2. CASE Lstat(w) \/ WriteVerified(w)
    BY <1>2 DEF Lstat, WriteVerified, Goto, Ending, Others, FsTypeOK
  <1>3. CASE Link(w) \/ CreateFails(w)
    BY <1>3 DEF Link, CreateFails, Ending, Others, FsTypeOK
  <1>4. CASE CreateReturns(w) \/ Die(w)
    BY <1>4 DEF CreateReturns, Die, Gone, Others, FsTypeOK
  <1> QED
    BY <1>1, <1>2, <1>3, <1>4 DEF Create

-----------------------------------------------------------------------------
(* Types, and jobs.                                                         *)

LEMMA FsTypeNext ==
  ASSUME FsTypeOK, JobInv, FileInv, [FsNext]_fsVars
  PROVE  FsTypeOK' /\ JobInv'
  <1> DEFINE T == FsTypeOK' /\ JobInv'
  <1> USE DEF FsTypeOK, JobInv, tree, list
  <1>1. ASSUME NEW w \in Writers, CreateBegin(w) PROVE T
    <2>1. PICK j \in Jobs : job' = [job EXCEPT ![w] = j]
      BY <1>1 DEF CreateBegin
    <2>2. j \in [name : Names \cup {None}, body : Bodies \cup {<<>>}, size : Nat]
      BY JobTypes
    <2> QED
      BY <1>1, <2>1, <2>2 DEF CreateBegin, Goto, Steps
  <1>2. ASSUME NEW w \in Writers, Lstat(w) \/ WriteVerified(w) PROVE T
    BY <1>2 DEF Lstat, WriteVerified, Goto, Ending, Steps
  <1>3. ASSUME NEW w \in Writers, OpenTmp(w) PROVE T
    <2>1. <<>> \in Seq(Nat)
      OBVIOUS
    <2> QED
      BY <1>3, <2>1 DEF OpenTmp, Goto, Steps
  <1>4. ASSUME NEW w \in Writers, Write(w) PROVE T
    <2>1. file[w] \in Inodes /\ job[w].body \in Seq(Nat)
      BY <1>4, JobTypes DEF Write, FileInv
    <2>2. /\ data[file[w]] \in Seq(Nat)
          /\ Len(data[file[w]]) + 1 \in 1..Len(job[w].body)
      BY <1>4, <2>1 DEF Write
    <2>3. Append(data[file[w]], job[w].body[Len(data[file[w]]) + 1]) \in Seq(Nat)
      BY <2>1, <2>2
    <2> QED
      BY <1>4, <2>1, <2>3 DEF Write
  <1>5. ASSUME NEW w \in Writers, Link(w) PROVE T
    BY <1>5 DEF Link, Ending, Steps
  <1>6. ASSUME NEW w \in Writers, RemoveTmp(w) \/ CreateFails(w) PROVE T
    BY <1>6 DEF RemoveTmp, CreateFails, Goto, Ending, Steps
  <1>7. ASSUME NEW w \in Writers, CreateReturns(w) \/ Die(w) PROVE T
    <2>1. NoJob \in [name : Names \cup {None}, body : Bodies \cup {<<>>}, size : Nat]
      BY DEF NoJob
    <2> QED
      BY <1>7, <2>1 DEF CreateReturns, Die, Gone, Steps
  <1>8. CASE ListBegin \/ ListEnd \/ ListReturns
    <2>1. <<>> \in Seq(Names)
      OBVIOUS
    <2> QED
      BY <1>8, <2>1, FsAssumption DEF ListBegin, ListEnd, ListReturns
  <1>9. CASE Visit
    <2>1. Head(left) \in Names /\ Tail(left) \in Seq(Names)
      BY <1>9 DEF Visit
    <2>2. \A F \in Passed(Head(left)) : Yielded(F) \subseteq Names
      BY <2>1, YieldedAreEntries
    <2> QED
      BY <1>9, <2>1, <2>2 DEF Visit
  <1>10. CASE UNCHANGED fsVars
    BY <1>10 DEF fsVars
  <1> QED
    BY <1>1, <1>2, <1>3, <1>4, <1>5, <1>6, <1>7, <1>8, <1>9, <1>10 DEF FsNext, Create

-----------------------------------------------------------------------------
(* The files.                                                               *)

LEMMA FilesKept ==
  ASSUME FilesInv, file' = file, entry' = entry,
         \A v \in Writers :
           /\ pc'[v] \in {"write", "link", "remove"} <=> pc[v] \in {"write", "link", "remove"}
           /\ pc'[v] \in {"write", "link"} => pc[v] \in {"write", "link"}
  PROVE  FilesInv'
  BY DEF FilesInv, FileInv, PrivateInv, UnlinkedInv

LEMMA FilesNext ==
  ASSUME FsTypeOK, JobInv, FilesInv, [FsNext]_fsVars
  PROVE  FilesInv'
  <1> DEFINE T == FilesInv'
  <1> USE DEF FilesInv, FileInv, PrivateInv, UnlinkedInv, FsTypeOK, tree, list
  <1>1. ASSUME NEW w \in Writers, CreateBegin(w) \/ Lstat(w) PROVE T
    <2>1. file' = file /\ entry' = entry /\ file[w] = None
      BY <1>1 DEF CreateBegin, Lstat, Goto
    <2>2. /\ pc[w] \in {"idle", "lstat"}
          /\ \E s \in {"lstat", "open", "done"} : pc' = [pc EXCEPT ![w] = s]
      BY <1>1, <2>1 DEF CreateBegin, Lstat, Goto, Ending
    <2> QED
      BY <2>1, <2>2, FilesKept
  <1>2. ASSUME NEW w \in Writers, OpenTmp(w) PROVE T
    <2>1. PICK i \in Inodes : Free(i) /\ file' = [file EXCEPT ![w] = i]
      BY <1>2 DEF OpenTmp
    <2>2. /\ pc[w] = "open" /\ pc' = [pc EXCEPT ![w] = "write"]
          /\ entry' = entry /\ i # None
      BY <1>2, FsAssumption DEF OpenTmp, Goto
    <2>3. FileInv'
      BY <2>1, <2>2
    <2>4. PrivateInv'
      BY <2>1, <2>2 DEF Free
    <2>5. UnlinkedInv'
      BY <2>1, <2>2 DEF Free
    <2> QED
      BY <2>3, <2>4, <2>5
  <1>3. ASSUME NEW w \in Writers, Write(w) \/ WriteVerified(w) \/ CreateFails(w) PROVE T
    <2>1. file' = file /\ entry' = entry
      BY <1>3 DEF Write, WriteVerified, CreateFails
    <2>2. CASE Write(w)
      BY <2>1, <2>2, FilesKept DEF Write
    <2>3. CASE WriteVerified(w)
      <3>1. pc[w] = "write" /\ file[w] # None
        BY <2>3 DEF WriteVerified
      <3>2. \E s \in {"link", "remove"} : pc' = [pc EXCEPT ![w] = s]
        BY <2>3, <3>1 DEF WriteVerified, Goto, Ending
      <3> QED
        BY <2>1, <3>1, <3>2, FilesKept
    <2>4. CASE CreateFails(w)
      <3>1. /\ pc[w] \in {"open", "write", "link"}
            /\ pc' = [pc EXCEPT ![w] = IF file[w] = None THEN "done" ELSE "remove"]
        BY <2>4 DEF CreateFails, Ending
      <3>2. \A v \in Writers \ {w} : pc'[v] = pc[v]
        BY <3>1
      <3> QED
        BY <2>1, <3>1, <3>2, FilesKept
    <2> QED
      BY <1>3, <2>2, <2>3, <2>4
  <1>4. ASSUME NEW w \in Writers, Link(w) PROVE T
    <2>1. /\ pc[w] = "link" /\ file[w] # None /\ file' = file
          /\ pc' = [pc EXCEPT ![w] = "remove"]
          /\ entry' = entry \/ entry' = [entry EXCEPT ![Name(w)] = file[w]]
      BY <1>4 DEF Link, Ending
    <2> QED
      BY <2>1
  <1>5. ASSUME NEW w \in Writers, RemoveTmp(w) PROVE T
    BY <1>5 DEF RemoveTmp, Goto
  <1>6. ASSUME NEW w \in Writers, CreateReturns(w) \/ Die(w) PROVE T
    BY <1>6 DEF CreateReturns, Die, Gone
  <1>7. CASE ListBegin \/ Visit \/ ListEnd \/ ListReturns \/ UNCHANGED fsVars
    BY <1>7 DEF ListBegin, Visit, ListEnd, ListReturns, fsVars
  <1> QED
    BY <1>1, <1>2, <1>3, <1>4, <1>5, <1>6, <1>7 DEF FsNext, Create

-----------------------------------------------------------------------------
(* What is in them.                                                         *)

\* What nobody writes is as it was.
LEMMA OthersWritten ==
  ASSUME FsTypeOK, WrittenInv, NEW w \in Writers, Others(w),
         \A v \in Writers \ {w} :
           pc[v] \in {"write", "link"} => data'[file[v]] = data[file[v]]
  PROVE  \A v \in Writers \ {w} :
           /\ pc'[v] \in {"write", "link"} => Begins(data'[file'[v]], job'[v].body)
           /\ pc'[v] = "link" => data'[file'[v]] = job'[v].body /\ Fits(job'[v].name, job'[v].body)
  BY DEF Others, WrittenInv, Name

LEMMA WrittenOf ==
  ASSUME NEW w \in Writers,
         \A v \in Writers \ {w} :
           /\ pc'[v] \in {"write", "link"} => Begins(data'[file'[v]], job'[v].body)
           /\ pc'[v] = "link" => data'[file'[v]] = job'[v].body /\ Fits(job'[v].name, job'[v].body),
         pc'[w] \in {"write", "link"} => Begins(data'[file'[w]], job'[w].body),
         pc'[w] = "link" => data'[file'[w]] = job'[w].body /\ Fits(job'[w].name, job'[w].body)
  PROVE  WrittenInv'
  BY DEF WrittenInv, Name, Fits, Begins

\* A longer beginning.
LEMMA BeginsMore ==
  ASSUME NEW d \in Seq(Nat), NEW b \in Seq(Nat), Begins(d, b), Len(d) < Len(b)
  PROVE  Begins(Append(d, b[Len(d) + 1]), b)
  <1> DEFINE e == Append(d, b[Len(d) + 1])
  <1>1. /\ Len(e) = Len(d) + 1
        /\ \A x \in 1..Len(d) : e[x] = d[x]
        /\ e[Len(d) + 1] = b[Len(d) + 1]
        /\ Len(d) \in Nat /\ Len(b) \in Nat
    OBVIOUS
  <1> HIDE DEF e
  <1>2. \A x \in 1..Len(e) : x = Len(d) + 1 \/ x \in 1..Len(d)
    BY <1>1
  <1>3. Len(e) <= Len(b) /\ \A x \in 1..Len(d) : d[x] = b[x]
    BY <1>1 DEF Begins
  <1>4. Begins(e, b)
    BY <1>1, <1>2, <1>3 DEF Begins
  <1> QED
    BY <1>4 DEF e

LEMMA WholeBeginning ==
  ASSUME NEW d \in Seq(Nat), NEW b \in Seq(Nat), Begins(d, b), Len(d) = Len(b)
  PROVE  d = b
  BY DEF Begins

LEMMA WrittenNext ==
  ASSUME FsTypeOK, JobInv, FilesInv, WrittenInv, [FsNext]_fsVars
  PROVE  WrittenInv'
  <1> DEFINE T == WrittenInv'
  <1> USE DEF tree, list
  <1>0. ASSUME NEW w \in Writers, Create(w) \/ CreateFails(w) \/ Die(w), data' = data
        PROVE  \A v \in Writers \ {w} :
           /\ pc'[v] \in {"write", "link"} => Begins(data'[file'[v]], job'[v].body)
           /\ pc'[v] = "link" => data'[file'[v]] = job'[v].body /\ Fits(job'[v].name, job'[v].body)
    BY <1>0, CreateOthers, OthersWritten
  <1>1. ASSUME NEW w \in Writers, Create(w) \/ CreateFails(w) \/ Die(w), data' = data,
               pc'[w] \notin {"write", "link"}
        PROVE  T
    BY <1>0, <1>1, WrittenOf
  <1>2. ASSUME NEW w \in Writers,
               \/ CreateBegin(w) \/ Lstat(w) \/ Link(w) \/ RemoveTmp(w) \/ CreateReturns(w)
               \/ CreateFails(w) \/ Die(w)
        PROVE  T
    <2>1. data' = data /\ pc'[w] \notin {"write", "link"}
      BY <1>2 DEF CreateBegin, Lstat, Link, RemoveTmp, CreateReturns, CreateFails, Die, Gone, Goto,
         Ending, FsTypeOK
    <2> QED
      BY <1>1, <1>2, <2>1 DEF Create
  <1>3. ASSUME NEW w \in Writers, OpenTmp(w) PROVE T
    <2>1. PICK i \in Inodes : /\ Free(i) /\ file' = [file EXCEPT ![w] = i]
                             /\ data' = [data EXCEPT ![i] = <<>>]
      BY <1>3 DEF OpenTmp
    <2>2. pc'[w] = "write" /\ job' = job /\ pc[w] = "open"
      BY <1>3 DEF OpenTmp, Goto, FsTypeOK
    <2>3. \A v \in Writers \ {w} : file[v] # i
      BY <2>1 DEF Free
    <2>4. job[w].body \in Seq(Nat)
      BY <2>2, JobTypes DEF JobInv
    <2>5. data'[file'[w]] = <<>>
      BY <2>1 DEF FsTypeOK
    <2>6. Begins(data'[file'[w]], job'[w].body)
      BY <2>2, <2>4, <2>5 DEF Begins
    <2>7. \A v \in Writers \ {w} : data'[file[v]] = data[file[v]]
      BY <2>1, <2>3 DEF FsTypeOK
    <2> QED
      BY <1>3, <2>2, <2>6, <2>7, CreateOthers, OthersWritten, WrittenOf DEF Create
  <1>4. ASSUME NEW w \in Writers, Write(w) PROVE T
    <2>1. /\ file[w] \in Inodes /\ data[file[w]] \in Seq(Nat) /\ job[w].body \in Seq(Nat)
          /\ Len(data[file[w]]) < Len(job[w].body) /\ Begins(data[file[w]], job[w].body)
          /\ pc' = pc /\ file' = file /\ job' = job /\ pc[w] = "write"
      BY <1>4, JobTypes DEF Write, FilesInv, FileInv, FsTypeOK, JobInv, WrittenInv
    <2>2. data' = [data EXCEPT ![file[w]] =
                     Append(data[file[w]], job[w].body[Len(data[file[w]]) + 1])]
      BY <1>4 DEF Write
    <2>3. data'[file[w]] = Append(data[file[w]], job[w].body[Len(data[file[w]]) + 1])
      BY <2>1, <2>2 DEF FsTypeOK
    <2>4. Begins(data'[file'[w]], job'[w].body)
      BY <2>1, <2>3, BeginsMore
    <2>5. \A v \in Writers \ {w} : file[v] # file[w]
      BY <2>1, FsAssumption DEF FilesInv, PrivateInv
    <2>6. \A v \in Writers \ {w} : data'[file[v]] = data[file[v]]
      BY <2>2, <2>5 DEF FsTypeOK
    <2> QED
      BY <1>4, <2>1, <2>4, <2>6, CreateOthers, OthersWritten, WrittenOf DEF Create
  <1>5. ASSUME NEW w \in Writers, WriteVerified(w) PROVE T
    <2>1. /\ data' = data /\ file' = file /\ job' = job /\ pc[w] = "write"
          /\ Len(data[file[w]]) = Len(job[w].body)
      BY <1>5 DEF WriteVerified
    <2>2. /\ file[w] \in Inodes /\ data[file[w]] \in Seq(Nat) /\ job[w].body \in Seq(Nat)
          /\ Begins(data[file[w]], job[w].body)
      BY <2>1, JobTypes DEF FilesInv, FileInv, FsTypeOK, JobInv, WrittenInv
    <2>3. data[file[w]] = job[w].body
      BY <2>1, <2>2, WholeBeginning
    <2>4. CASE Checked(w)
      <3>1. pc'[w] = "link" /\ Fits(job[w].name, job[w].body)
        BY <1>5, <2>3, <2>4 DEF WriteVerified, Goto, Checked, Fits, Name, FsTypeOK
      <3> QED
        BY <1>0, <1>5, <2>1, <2>2, <2>3, <3>1, WrittenOf DEF Create
    <2>5. CASE ~Checked(w)
      <3>1. pc'[w] \notin {"write", "link"}
        BY <1>5, <2>5 DEF WriteVerified, Ending, FsTypeOK
      <3> QED
        BY <1>1, <1>5, <2>1, <3>1 DEF Create
    <2> QED
      BY <2>4, <2>5
  <1>6. CASE ListBegin \/ Visit \/ ListEnd \/ ListReturns \/ UNCHANGED fsVars
    <2>1. data' = data /\ pc' = pc /\ file' = file /\ job' = job
      BY <1>6 DEF ListBegin, Visit, ListEnd, ListReturns, fsVars
    <2> QED
      BY <2>1 DEF WrittenInv, Name
  <1> QED
    BY <1>2, <1>3, <1>4, <1>5, <1>6 DEF FsNext, Create

\* A writer's own file is no entry's.
LEMMA BytesKept ==
  ASSUME FsInv, NEW w \in Writers, OpenTmp(w) \/ Write(w)
  PROVE  \A n \in Names : /\ entry'[n] = entry[n]
                          /\ entry[n] # None => data'[entry[n]] = data[entry[n]]
  <1> USE DEF FsInv
  <1>1. CASE OpenTmp(w)
    BY <1>1 DEF OpenTmp, Free, FsTypeOK
  <1>2. CASE Write(w)
    <2>1. /\ \A n \in Names : entry[n] # file[w]
          /\ entry' = entry
          /\ \E d : data' = [data EXCEPT ![file[w]] = d]
      BY <1>2 DEF Write, FilesInv, UnlinkedInv
    <2> QED
      BY <2>1 DEF FsTypeOK
  <1> QED
    BY <1>1, <1>2

\* A step leaves an entry and its bytes alone, or it is the Link that makes it.
LEMMA EntryNext ==
  ASSUME FsInv, [FsNext]_fsVars
  PROVE  \/ \A n \in Names : /\ entry'[n] = entry[n]
                             /\ entry[n] # None => data'[entry[n]] = data[entry[n]]
         \/ /\ data' = data
            /\ \E w \in Writers : /\ pc[w] = "link" /\ entry[Name(w)] = None
                                  /\ entry' = [entry EXCEPT ![Name(w)] = file[w]]
  <1> DEFINE T == \A n \in Names : /\ entry'[n] = entry[n]
                                   /\ entry[n] # None => data'[entry[n]] = data[entry[n]]
  <1> USE DEF FsInv, tree, list
  <1>1. ASSUME NEW w \in Writers, OpenTmp(w) \/ Write(w) PROVE T
    BY <1>1, BytesKept
  <1>3. ASSUME entry' = entry, data' = data PROVE T
    BY <1>3
  <1>4. ASSUME NEW w \in Writers, Create(w) \/ CreateFails(w) \/ Die(w), ~OpenTmp(w), ~Write(w),
               ~Link(w)
        PROVE  entry' = entry /\ data' = data
    BY <1>4 DEF Create, CreateBegin, Lstat, WriteVerified, RemoveTmp, CreateReturns, CreateFails, Die
  <1>5. ASSUME NEW w \in Writers, Link(w)
        PROVE  /\ data' = data
               /\ entry' = entry \/ (/\ pc[w] = "link" /\ entry[Name(w)] = None
                                     /\ entry' = [entry EXCEPT ![Name(w)] = file[w]])
    BY <1>5 DEF Link
  <1>6. CASE ListBegin \/ Visit \/ ListEnd \/ ListReturns \/ UNCHANGED fsVars
    BY <1>6 DEF ListBegin, Visit, ListEnd, ListReturns, fsVars
  <1> QED
    BY <1>1, <1>3, <1>4, <1>5, <1>6 DEF FsNext, Create

LEMMA EntriesNext ==
  ASSUME FsInv, [FsNext]_fsVars
  PROVE  EntriesChecked'
  <1>1. ASSUME \A n \in Names : /\ entry'[n] = entry[n]
                                /\ entry[n] # None => data'[entry[n]] = data[entry[n]]
        PROVE  EntriesChecked'
    <2> SUFFICES ASSUME NEW n \in Names, entry'[n] # None
                 PROVE  data'[entry'[n]] \in Bodies /\ Fits(n, data'[entry'[n]])
      BY DEF EntriesChecked, Fits
    <2>1. entry'[n] = entry[n] /\ data'[entry[n]] = data[entry[n]]
      BY <1>1
    <2>2. data[entry[n]] \in Bodies /\ Fits(n, data[entry[n]])
      BY <2>1 DEF FsInv, EntriesChecked
    <2> QED
      BY <2>1, <2>2 DEF Fits
  <1>2. ASSUME data' = data, NEW w \in Writers, pc[w] = "link",
               entry' = [entry EXCEPT ![Name(w)] = file[w]]
        PROVE  EntriesChecked'
    <2>1. /\ data[file[w]] = job[w].body /\ Fits(Name(w), job[w].body)
          /\ job[w].body \in Bodies /\ Name(w) \in Names
      BY <1>2, JobTypes DEF FsInv, WrittenInv, JobInv, Name
    <2> QED
      BY <1>2, <2>1 DEF FsInv, EntriesChecked, Fits, FsTypeOK
  <1> QED
    BY <1>1, <1>2, EntryNext

\* The types of the filesystem backend's state, through every order of steps, failures and deaths.
THEOREM FsTypeCorrect == FsSpec => []FsTypeOK
  <1>1. FsInv /\ [FsNext]_fsVars => FsInv'
    BY FsTypeNext, FilesNext, WrittenNext, EntriesNext DEF FsInv, FilesInv
  <1>2. FsInv => FsTypeOK
    BY DEF FsInv
  <1> QED
    BY <1>1, <1>2, FsInitial, PTL DEF FsSpec

\* What stands at a name is complete and has the digest that the name gives, whatever the order in
\* which other Creates open, write, fail, link and remove, and whoever dies.
THEOREM EntriesAreChecked == FsSpec => []EntriesChecked
  <1>1. FsInv /\ [FsNext]_fsVars => FsInv'
    BY FsTypeNext, FilesNext, WrittenNext, EntriesNext DEF FsInv, FilesInv
  <1>2. FsInv => EntriesChecked
    BY DEF FsInv
  <1> QED
    BY <1>1, <1>2, FsInitial, PTL DEF FsSpec

-----------------------------------------------------------------------------
(* The filesystem backend implements Backend.                               *)

\* What is committed, and what the callers know, as the mapping gives them.
Entries == [n \in Names |-> IF entry[n] = None THEN None ELSE data[entry[n]]]
Answer(w) == IF Decided(w) THEN [name |-> Name(w), body |-> job[w].body, res |-> res[w]] ELSE None
Given == [w \in Writers |-> Answer(w)]

Stutters == Entries' = Entries /\ Given' = Given
Seen == Promised!BackendNext \/ Stutters

LEMMA PromisedInit == FsInit => Promised!BackendInit
  BY DEF FsInit, Promised!BackendInit, Decided

\* A step of w changes no answer but its own.
LEMMA GivenMoves ==
  ASSUME NEW w \in Writers, Others(w)
  PROVE  /\ Given' = [Given EXCEPT ![w] = Answer(w)']
         /\ Answer(w)' = Answer(w) => Given' = Given
  <1>1. \A v \in Writers \ {w} : Answer(v)' = Answer(v)
    BY DEF Others, Answer, Decided, Name
  <1> QED
    BY <1>1 DEF Given

LEMMA EntriesSame ==
  ASSUME \A n \in Names : /\ entry'[n] = entry[n]
                          /\ entry[n] # None => data'[entry[n]] = data[entry[n]]
  PROVE  Entries' = Entries
  BY DEF Entries

LEMMA JobOf ==
  ASSUME FsInv, NEW w \in Writers, pc[w] # "idle"
  PROVE  Name(w) \in Names /\ job[w].body \in Bodies
  BY JobTypes DEF FsInv, JobInv, Name

\* w decides: nil comes only with the entry, "exist" only where there is one.
LEMMA Answers ==
  ASSUME FsInv, NEW w \in Writers, Others(w), pc[w] \notin {"idle", "remove", "done"},
         pc'[w] \in {"remove", "done"}, job' = job, Entries' = Entries,
         \/ res'[w] = "error"
         \/ res'[w] = "exist" /\ entry[Name(w)] # None
  PROVE  Seen
  <1>1. Given[w] = None
    BY DEF Given, Answer, Decided
  <1>2. Given' = [Given EXCEPT ![w] = [name |-> Name(w), body |-> job[w].body, res |-> res'[w]]]
    BY GivenMoves DEF Answer, Decided, Name
  <1>3. Name(w) \in Names /\ job[w].body \in Bodies
    BY JobOf
  <1>4. entry[Name(w)] # None => Entries[Name(w)] # None
    BY <1>3, FsAssumption DEF FsInv, EntriesChecked, Entries
  <1>5. CASE res'[w] = "error"
    <2>1. Promised!Fail(w, Name(w), job[w].body)
      BY <1>1, <1>2, <1>5 DEF Promised!Fail, Promised!Decided, Given, Answer, Entries
    <2> QED
      BY <1>3, <2>1 DEF Promised!BackendNext, Seen
  <1>6. CASE res'[w] = "exist" /\ entry[Name(w)] # None
    <2>1. Promised!Refuse(w, Name(w), job[w].body)
      BY <1>1, <1>2, <1>3, <1>4, <1>6
         DEF Promised!Refuse, Promised!Decided, Given, Answer, Entries
    <2> QED
      BY <1>3, <2>1 DEF Promised!BackendNext, Seen
  <1> QED
    BY <1>5, <1>6

\* Every step of the backend is a step that Backend promises, or none.
LEMMA PromisedStep == FsInv /\ [FsNext]_fsVars => [Promised!BackendNext]_(Promised!backendVars)
  <1> SUFFICES ASSUME FsInv, [FsNext]_fsVars
               PROVE  [Promised!BackendNext]_(Promised!backendVars)
    OBVIOUS
  <1> FsTypeOK /\ FileInv /\ FilesInv
    BY DEF FsInv, FilesInv
  <1> USE DEF tree, list
  <1>1. ASSUME NEW w \in Writers, Create(w) \/ CreateFails(w) \/ Die(w), Entries' = Entries,
               Answer(w)' = Answer(w)
        PROVE  Seen
    BY <1>1, CreateOthers, GivenMoves DEF Seen, Stutters
  <1>2. ASSUME entry' = entry, data' = data PROVE Entries' = Entries
    BY <1>2 DEF Entries
  <1>3. ASSUME NEW w \in Writers, CreateBegin(w) \/ OpenTmp(w) \/ Write(w) \/ RemoveTmp(w)
        PROVE  Seen
    <2>1. Entries' = Entries
      BY <1>2, <1>3, BytesKept, EntriesSame DEF CreateBegin, RemoveTmp
    <2>2. /\ Decided(w)' = Decided(w)
          /\ Decided(w) => job' = job /\ res' = res
      BY <1>3 DEF CreateBegin, OpenTmp, Write, RemoveTmp, Goto, Decided, FsTypeOK
    <2> QED
      BY <1>1, <1>3, <2>1, <2>2 DEF Answer, Name, Create
  <1>4. ASSUME NEW w \in Writers, pc[w] \notin {"idle", "remove", "done"},
               Create(w) \/ CreateFails(w), NEW r, Ending(w, r), entry' = entry, data' = data,
               job' = job, r = "error" \/ (r = "exist" /\ entry[Name(w)] # None)
        PROVE  Seen
    BY <1>2, <1>4, CreateOthers, EndingStays, Answers
  <1>5. ASSUME NEW w \in Writers, Lstat(w) PROVE Seen
    <2>1. CASE entry[Name(w)] # None /\ Ending(w, "exist")
      BY <1>4, <1>5, <2>1 DEF Lstat, Create
    <2>2. CASE Goto(w, "lstat", "open") /\ UNCHANGED res
      <3>1. Answer(w)' = Answer(w)
        BY <1>5, <2>2 DEF Lstat, Goto, Answer, Decided, FsTypeOK
      <3> QED
        BY <1>1, <1>2, <1>5, <3>1 DEF Lstat, Create
    <2> QED
      BY <1>5, <2>1, <2>2 DEF Lstat
  <1>6. ASSUME NEW w \in Writers, WriteVerified(w) PROVE Seen
    <2>1. CASE Ending(w, "error")
      BY <1>4, <1>6, <2>1 DEF WriteVerified, Create
    <2>2. CASE Goto(w, "write", "link") /\ UNCHANGED res
      <3>1. Answer(w)' = Answer(w)
        BY <1>6, <2>2 DEF WriteVerified, Goto, Answer, Decided, FsTypeOK
      <3> QED
        BY <1>1, <1>2, <1>6, <3>1 DEF WriteVerified, Create
    <2> QED
      BY <1>6, <2>1, <2>2 DEF WriteVerified
  <1>7. ASSUME NEW w \in Writers, CreateFails(w) PROVE Seen
    BY <1>4, <1>7 DEF CreateFails
  <1>8. ASSUME NEW w \in Writers, Link(w) PROVE Seen
    <2>1. CASE entry[Name(w)] # None
      BY <1>4, <1>8, <2>1 DEF Link, Create
    <2>2. CASE entry[Name(w)] = None
      <3>1. /\ pc[w] = "link" /\ file[w] # None /\ file[w] \in Inodes
            /\ entry' = [entry EXCEPT ![Name(w)] = file[w]]
            /\ data' = data /\ job' = job /\ Ending(w, "ok")
        BY <1>8, <2>2 DEF Link, FileInv, FsTypeOK
      <3>2. Name(w) \in Names /\ job[w].body \in Bodies
        BY <3>1, JobOf
      <3>3. data[file[w]] = job[w].body /\ Fits(Name(w), job[w].body)
        BY <3>1 DEF FsInv, WrittenInv
      <3>4. Entries' = [Entries EXCEPT ![Name(w)] = job[w].body] /\ Entries[Name(w)] = None
        BY <2>2, <3>1, <3>2, <3>3 DEF Entries, FsTypeOK
      <3>5. Given[w] = None
        BY <3>1 DEF Given, Answer, Decided
      <3>6. res'[w] = "ok" /\ pc'[w] = "remove"
        BY <3>1, EndingStays
      <3>7. Given' = [Given EXCEPT ![w] = [name |-> Name(w), body |-> job[w].body, res |-> "ok"]]
        BY <1>8, <3>1, <3>6, CreateOthers, GivenMoves DEF Answer, Decided, Name, Create
      <3>8. Promised!Create(w, Name(w), job[w].body)
        BY <3>2, <3>3, <3>4, <3>5, <3>7
           DEF AllFitting, Promised!Create, Promised!Decided, Given, Answer, Entries
      <3> QED
        BY <3>2, <3>8 DEF Promised!BackendNext, Promised!Create, Seen
    <2> QED
      BY <2>1, <2>2
  <1>9. ASSUME NEW w \in Writers, CreateReturns(w) \/ Die(w) PROVE Seen
    <2>1. Entries' = Entries /\ Answer(w)' = None
      BY <1>2, <1>9 DEF CreateReturns, Die, Gone, Answer, Decided
    <2>2. Given' = [Given EXCEPT ![w] = None]
      BY <1>9, <2>1, CreateOthers, GivenMoves DEF Create
    <2>3. Promised!Return(w)
      BY <2>1, <2>2 DEF Promised!Return, Given, Answer, Entries
    <2> QED
      BY <2>3 DEF Promised!BackendNext, Seen
  <1>10. ASSUME ListBegin \/ Visit \/ ListEnd \/ ListReturns \/ UNCHANGED fsVars PROVE Seen
    <2>1. pc' = pc /\ job' = job /\ res' = res /\ entry' = entry /\ data' = data
      BY <1>10 DEF ListBegin, Visit, ListEnd, ListReturns, fsVars
    <2>2. Given' = Given
      BY <2>1 DEF Given, Answer, Decided, Name
    <2> QED
      BY <1>2, <2>1, <2>2 DEF Seen, Stutters
  <1>11. Seen
    BY <1>3, <1>5, <1>6, <1>7, <1>8, <1>9, <1>10 DEF FsNext, Create
  <1> QED
    BY <1>11 DEF Seen, Stutters, Promised!backendVars, Entries, Given, Answer

\* Create of the filesystem, with its temporary file, its check, its hard link, and the failure or
\* death of anybody in between, is the one-step Create that store.Backend promises.
THEOREM FsRefinesBackend == FsSpec => ImplementsBackend
  <1>1. FsInv /\ [FsNext]_fsVars => FsInv'
    BY FsTypeNext, FilesNext, WrittenNext, EntriesNext DEF FsInv, FilesInv
  <1> QED
    BY <1>1, FsInitial, PromisedInit, PromisedStep, PTL DEF FsSpec, ImplementsBackend

-----------------------------------------------------------------------------
(* What List sees, and what Walk and DiffIDBlobs read back from the paths. *)

LEMMA OneSegment ==
  ASSUME NEW S, NEW x \in S
  PROVE  <<x>> \in Seq(S) /\ Len(<<x>>) = 1 /\ <<x>>[1] = x
  OBVIOUS

LEMMA HeadIsFirst ==
  ASSUME NEW S, NEW s \in Seq(S), s # <<>>
  PROVE  Head(s) = s[1]
  OBVIOUS

\* Where the segments of a leaf are, after the first.
LEMMA LeafSegments ==
  ASSUME NEW S, NEW x \in S, NEW r \in Seq(S), NEW m \in Seq(S), NEW p \in Seq(S),
         NEW leaf, leaf = <<x>> \o r \o m \o p
  PROVE  /\ leaf \in Seq(S) /\ leaf # <<>> /\ Head(leaf) = x
         /\ Tail(leaf) \in Seq(S) /\ Len(Tail(leaf)) = Len(r) + Len(m) + Len(p)
         /\ \A i \in 1..Len(r) : Tail(leaf)[i] = r[i]
         /\ \A i \in 1..Len(m) : Tail(leaf)[Len(r) + i] = m[i]
         /\ \A i \in 1..Len(p) : Tail(leaf)[Len(r) + Len(m) + i] = p[i]
  <1> DEFINE o == <<x>>
             a == o \o r
             b == a \o m
  <1>0. /\ Len(r) \in Nat /\ Len(m) \in Nat /\ Len(p) \in Nat
        /\ o \in Seq(S) /\ Len(o) = 1 /\ o[1] = x
    <2>1. Len(r) \in Nat /\ Len(m) \in Nat /\ Len(p) \in Nat
      BY LenProperties
    <2>2. o \in Seq(S) /\ Len(o) = 1 /\ o[1] = x
      BY OneSegment
    <2> QED
      BY <2>1, <2>2
  <1> HIDE DEF o
  <1>1. /\ a \in Seq(S) /\ Len(a) = 1 + Len(r) /\ a[1] = x
        /\ \A i \in 1..Len(r) : a[1 + i] = r[i]
    <2>1. /\ a \in Seq(S) /\ Len(a) = Len(o) + Len(r)
          /\ \A i \in 1..(Len(o) + Len(r)) : a[i] = IF i <= Len(o) THEN o[i] ELSE r[i - Len(o)]
      BY <1>0, ConcatProperties
    <2> HIDE DEF a
    <2>2. Len(a) = 1 + Len(r) /\ a[1] = x
      <3>1. 1 \in 1..(Len(o) + Len(r)) /\ 1 <= Len(o)
        BY <1>0
      <3> QED
        BY <1>0, <2>1, <3>1
    <2>3. ASSUME NEW i \in 1..Len(r) PROVE a[1 + i] = r[i]
      <3>1. 1 + i \in 1..(1 + Len(r)) /\ ~(1 + i <= 1) /\ 1 + i - 1 = i
        BY <1>0
      <3> QED
        BY <1>0, <2>1, <3>1
    <2> QED
      BY <2>1, <2>2, <2>3
  <1> HIDE DEF a
  <1>2. /\ b \in Seq(S) /\ Len(b) = 1 + Len(r) + Len(m)
        /\ \A i \in 1..Len(a) : b[i] = a[i]
        /\ \A i \in 1..Len(m) : b[Len(a) + i] = m[i]
    <2>1. /\ b \in Seq(S) /\ Len(b) = Len(a) + Len(m)
          /\ \A i \in 1..(Len(a) + Len(m)) : b[i] = IF i <= Len(a) THEN a[i] ELSE m[i - Len(a)]
      BY <1>0, <1>1, ConcatProperties
    <2> HIDE DEF b
    <2>2. Len(b) = 1 + Len(r) + Len(m)
      BY <1>0, <1>1, <2>1
    <2>3. \A i \in 1..Len(a) : b[i] = a[i]
      BY <1>0, <1>1, <2>1
    <2>4. ASSUME NEW i \in 1..Len(m) PROVE b[Len(a) + i] = m[i]
      <3>1. Len(a) + i \in 1..(Len(a) + Len(m)) /\ ~(Len(a) + i <= Len(a)) /\ Len(a) + i - Len(a) = i
        BY <1>0, <1>1
      <3> QED
        BY <2>1, <3>1
    <2> QED
      BY <2>1, <2>2, <2>3, <2>4
  <1> HIDE DEF b
  <1>3. leaf = b \o p
    BY DEF o, a, b
  <1>4. /\ leaf \in Seq(S) /\ Len(leaf) = 1 + Len(r) + Len(m) + Len(p)
        /\ \A i \in 1..Len(b) : leaf[i] = b[i]
        /\ \A i \in 1..Len(p) : leaf[Len(b) + i] = p[i]
    <2>1. /\ leaf \in Seq(S) /\ Len(leaf) = Len(b) + Len(p) /\ Len(b) \in Nat /\ Len(p) \in Nat
          /\ \A i \in 1..(Len(b) + Len(p)) : leaf[i] = IF i <= Len(b) THEN b[i] ELSE p[i - Len(b)]
      <3>1. b \in Seq(S) /\ p \in Seq(S)
        BY <1>2
      <3> DEFINE c == b \o p
      <3>2. /\ c \in Seq(S) /\ Len(c) = Len(b) + Len(p)
            /\ \A i \in 1..(Len(b) + Len(p)) : c[i] = IF i <= Len(b) THEN b[i] ELSE p[i - Len(b)]
        BY <3>1, ConcatProperties
      <3>3. leaf = c /\ Len(b) \in Nat /\ Len(p) \in Nat
        BY <1>3, <3>1, LenProperties
      <3> HIDE DEF c
      <3> QED
        BY <3>2, <3>3
    <2> DEFINE n == Len(b)
               q == Len(p)
    <2>2. n \in Nat /\ q \in Nat
      BY <2>1
    <2>3. \A i \in 1..n : i \in 1..(n + q) /\ i <= n
      <3> HIDE DEF n, q
      <3> QED
        BY <2>2
    <2>4. \A i \in 1..q : n + i \in 1..(n + q) /\ ~(n + i <= n) /\ (n + i) - n = i
      <3> HIDE DEF n, q
      <3> QED
        BY <2>2
    <2>5. Len(leaf) = 1 + Len(r) + Len(m) + Len(p)
      BY <1>2, <2>1
    <2> HIDE DEF n, q
    <2>6. /\ \A i \in 1..n : leaf[i] = b[i]
          /\ \A i \in 1..q : leaf[n + i] = p[i]
      BY <2>1, <2>3, <2>4 DEF n, q
    <2> QED
      BY <2>1, <2>5, <2>6 DEF n, q
  <1>5. leaf # <<>>
    BY <1>0, <1>4
  <1>6. /\ Tail(leaf) \in Seq(S) /\ Len(Tail(leaf)) = Len(leaf) - 1
        /\ \A i \in 1..Len(Tail(leaf)) : Tail(leaf)[i] = leaf[i + 1]
    BY <1>4, <1>5, HeadTailProperties
  <1>7. Len(Tail(leaf)) = Len(r) + Len(m) + Len(p)
    BY <1>0, <1>4, <1>6
  <1> DEFINE t == Tail(leaf)
  <1> HIDE DEF t
  <1>8. /\ Len(t) = Len(r) + Len(m) + Len(p)
        /\ \A i \in 1..Len(t) : t[i] = leaf[i + 1]
    BY <1>6, <1>7 DEF t
  <1>9. \A i \in 1..Len(r) : t[i] = r[i]
    <2>1. ASSUME NEW i \in 1..Len(r) PROVE t[i] = r[i]
      <3>1. t[i] = leaf[i + 1] /\ i + 1 \in 1..Len(b) /\ i + 1 \in 1..Len(a)
        BY <1>0, <1>1, <1>2, <1>8
      <3>2. leaf[i + 1] = b[i + 1] /\ b[i + 1] = a[i + 1] /\ a[1 + i] = r[i]
        BY <1>1, <1>2, <1>4, <3>1
      <3> QED
        BY <3>1, <3>2
    <2> QED
      BY <2>1
  <1>10. \A i \in 1..Len(m) : t[Len(r) + i] = m[i]
    <2>1. ASSUME NEW i \in 1..Len(m) PROVE t[Len(r) + i] = m[i]
      <3>1. /\ t[Len(r) + i] = leaf[Len(r) + i + 1] /\ Len(r) + i + 1 \in 1..Len(b)
            /\ Len(r) + i + 1 = Len(a) + i
        BY <1>0, <1>1, <1>2, <1>8
      <3>2. leaf[Len(r) + i + 1] = b[Len(r) + i + 1] /\ b[Len(a) + i] = m[i]
        BY <1>2, <1>4, <3>1
      <3> QED
        BY <3>1, <3>2
    <2> QED
      BY <2>1
  <1>11. \A i \in 1..Len(p) : t[Len(r) + Len(m) + i] = p[i]
    <2>1. ASSUME NEW i \in 1..Len(p) PROVE t[Len(r) + Len(m) + i] = p[i]
      <3>1. /\ t[Len(r) + Len(m) + i] = leaf[Len(r) + Len(m) + i + 1]
            /\ Len(r) + Len(m) + i + 1 = Len(b) + i
        BY <1>0, <1>1, <1>2, <1>8
      <3> QED
        BY <1>4, <3>1
    <2> QED
      BY <2>1
  <1>12. Head(leaf) = x
    <2>1. 1 \in 1..Len(b) /\ 1 \in 1..Len(a)
      BY <1>0, <1>1, <1>2
    <2>2. leaf[1] = x
      BY <1>1, <1>2, <1>4, <2>1
    <2>3. Head(leaf) = leaf[1]
      BY <1>4, <1>5, HeadIsFirst
    <2> QED
      BY <2>2, <2>3
  <1> QED
    BY <1>4, <1>5, <1>6, <1>7, <1>9, <1>10, <1>11, <1>12 DEF t

\* A part of a sequence, by its elements.
LEMMA PartOf ==
  ASSUME NEW S, NEW s \in Seq(S), NEW u \in Seq(S), NEW k \in Nat, NEW n \in Nat,
         n = Len(u), k + n <= Len(s), \A i \in 1..n : s[k + i] = u[i]
  PROVE  SubSeq(s, k + 1, k + n) = u
  <1> DEFINE v == SubSeq(s, k + 1, k + n)
  <1>0. Len(s) \in Nat
    BY LenProperties
  <1>1. \A i \in (k + 1)..(k + n) : s[i] \in S
    BY <1>0, ElementOfSeq
  <1>2. /\ v \in Seq(S)
        /\ Len(v) = IF k + 1 <= k + n THEN k + n - (k + 1) + 1 ELSE 0
        /\ \A i \in 1..(k + n - (k + 1) + 1) : v[i] = s[k + 1 + i - 1]
    <2>1. k + 1 \in Int /\ k + n \in Int
      OBVIOUS
    <2> QED
      BY <1>1, <2>1, SubSeqProperties
  <1> HIDE DEF v
  <1>3. Len(v) = n
    BY <1>2
  <1>4. \A i \in 1..n : v[i] = u[i]
    <2>1. ASSUME NEW i \in 1..n PROVE v[i] = u[i]
      <3>1. i \in 1..(k + n - (k + 1) + 1) /\ k + 1 + i - 1 = k + i
        OBVIOUS
      <3> QED
        BY <1>2, <3>1
    <2> QED
      BY <2>1
  <1>5. v = u
    BY <1>2, <1>3, <1>4, SeqEqual
  <1> QED
    BY <1>5 DEF v

\* The first segment that is a marker is the one LeafPath put there.
LEMMA MarkerFound ==
  ASSUME NEW s \in Seq(Segments), NEW k \in 1..Len(s), s[k] \in Markers,
         \A i \in 1..(k - 1) : s[i] \notin Markers
  PROVE  MarkerAt(s) = k
  <1> DEFINE I == {i \in 1..Len(s) : s[i] \in Markers}
  <1>0. Len(s) \in Nat
    BY LenProperties
  <1>1. k \in I /\ \A i \in I : k <= i
    BY <1>0
  <1>2. \A j \in I : (\A i \in I : j <= i) => j = k
    BY <1>0, <1>1
  <1>3. Min(I) = k
    BY <1>1, <1>2 DEF Min
  <1> QED
    BY <1>1, <1>3 DEF MarkerAt, SelectInSeq

LEMMA TwoSegments ==
  ASSUME NEW S, NEW a \in S, NEW b \in S
  PROVE  <<a, b>> \in Seq(S) /\ Len(<<a, b>>) = 2 /\ <<a, b>>[1] = a /\ <<a, b>>[2] = b
  OBVIOUS

LEMMA Words ==
  /\ "_tag" \in Segments /\ "_digest" \in Segments /\ "image_refs" \in Segments
  /\ "oci-layout" \in Segments /\ "index.json" \in Segments /\ "diff_ids" \in Segments
  BY PathAssumption DEF Markers

\* A pair is a sequence of two.
LEMMA PairIsSeq ==
  ASSUME NEW S, NEW d \in S \X S, NEW x \in S
  PROVE  /\ d \in Seq(S) /\ Len(d) = 2 /\ d = <<d[1], d[2]>> /\ d[1] \in S /\ d[2] \in S
         /\ <<x>> \o d \in Seq(S) /\ Len(<<x>> \o d) = 3
         /\ (<<x>> \o d)[1] = x /\ (<<x>> \o d)[2] = d[1] /\ (<<x>> \o d)[3] = d[2]
  <1>1. d \in Seq(S) /\ Len(d) = 2 /\ d = <<d[1], d[2]>> /\ d[1] \in S /\ d[2] \in S
    <2>1. PICK a \in S, b \in S : d = <<a, b>>
      OBVIOUS
    <2> QED
      BY <2>1, TwoSegments
  <1> DEFINE o == <<x>>
             u == o \o d
  <1>2. o \in Seq(S) /\ Len(o) = 1 /\ o[1] = x
    BY OneSegment
  <1> HIDE DEF o
  <1>3. /\ u \in Seq(S) /\ Len(u) = Len(o) + Len(d)
        /\ \A i \in 1..(Len(o) + Len(d)) : u[i] = IF i <= Len(o) THEN o[i] ELSE d[i - Len(o)]
    BY <1>1, <1>2, ConcatProperties
  <1> HIDE DEF u
  <1>4. /\ 1 \in 1..(Len(o) + Len(d)) /\ 2 \in 1..(Len(o) + Len(d)) /\ 3 \in 1..(Len(o) + Len(d))
        /\ 1 <= Len(o) /\ ~(2 <= Len(o)) /\ ~(3 <= Len(o)) /\ 2 - Len(o) = 1 /\ 3 - Len(o) = 2
        /\ Len(o) + Len(d) = 3
    BY <1>1, <1>2
  <1>5. u[1] = x /\ u[2] = d[1] /\ u[3] = d[2] /\ u \in Seq(S) /\ Len(u) = 3
    BY <1>2, <1>3, <1>4
  <1> QED
    BY <1>1, <1>5 DEF o, u

\* The marker and the key of a leaf.
KeyPart(r) == IF r.digest = None THEN <<"_tag", r.tag>> ELSE <<"_digest">> \o r.digest

LEMMA ImageParts ==
  ASSUME NEW im \in Images
  PROVE  /\ im.ref.repo \in Seq(Segments) /\ Len(im.ref.repo) \in Nat \ {0}
         /\ \A i \in 1..Len(im.ref.repo) : im.ref.repo[i] \notin Markers
         /\ im.platform \in Seq(Segments) /\ Len(im.platform) \in {2, 3}
         /\ LeafPath(im) = <<"image_refs">> \o im.ref.repo \o KeyPart(im.ref) \o im.platform
         /\ im.ref.digest = None => im.ref.tag \in Segments
         /\ im.ref.digest # None => im.ref.digest \in Digests /\ im.ref.digest \in Segments \X Segments
         /\ im.ref.tag \in Segments \cup {None}
         /\ im.ref = [repo |-> im.ref.repo, tag |-> im.ref.tag, digest |-> im.ref.digest]
  <1> DEFINE r == im.ref
  <1>1. /\ r \in [repo : Seq(Segments \ Markers), tag : Segments \cup {None}, digest : Digests \cup {None}]
        /\ r.repo # <<>> /\ (r.digest = None => r.tag # None)
        /\ im.platform \in Seq(Segments) /\ Len(im.platform) \in {2, 3}
    BY PathAssumption
  <1> HIDE DEF r
  <1>2. /\ r.repo \in Seq(Segments \ Markers) /\ r.tag \in Segments \cup {None}
        /\ r.digest \in Digests \cup {None}
        /\ r = [repo |-> r.repo, tag |-> r.tag, digest |-> r.digest]
    BY <1>1
  <1>3. r.repo \in Seq(Segments) /\ Len(r.repo) \in Nat \ {0}
    <2>1. r.repo \in Seq(Segments)
      BY <1>2, SeqMonotonic, Segments \ Markers \subseteq Segments
    <2> QED
      BY <1>1, <2>1, EmptySeq
  <1>4. \A i \in 1..Len(r.repo) : r.repo[i] \notin Markers
    BY <1>2, ElementOfSeq
  <1>5. Digests \subseteq Segments \X Segments
    BY PathAssumption
  <1>6. LeafPath(im) = <<"image_refs">> \o r.repo \o KeyPart(r) \o im.platform
    BY DEF LeafPath, KeyPart, r
  <1> QED
    BY <1>1, <1>2, <1>3, <1>4, <1>5, <1>6 DEF r

LEMMA KeyPartIs ==
  ASSUME NEW im \in Images
  PROVE  /\ KeyPart(im.ref) \in Seq(Segments)
         /\ im.ref.digest = None =>
              Len(KeyPart(im.ref)) = 2 /\ KeyPart(im.ref)[1] = "_tag" /\ KeyPart(im.ref)[2] = im.ref.tag
         /\ im.ref.digest # None =>
              /\ Len(KeyPart(im.ref)) = 3 /\ KeyPart(im.ref)[1] = "_digest"
              /\ KeyPart(im.ref)[2] = im.ref.digest[1] /\ KeyPart(im.ref)[3] = im.ref.digest[2]
  <1> DEFINE g == im.ref.tag
             d == im.ref.digest
  <1>1. CASE d = None
    <2>1. g \in Segments
      BY <1>1, ImageParts
    <2> HIDE DEF g
    <2>2. <<"_tag", g>> \in Seq(Segments) /\ Len(<<"_tag", g>>) = 2
          /\ <<"_tag", g>>[1] = "_tag" /\ <<"_tag", g>>[2] = g
      <3>1. "_tag" \in Segments
        BY Words
      <3> QED
        BY <2>1, <3>1, TwoSegments
    <2>3. KeyPart(im.ref) = <<"_tag", g>>
      BY <1>1 DEF KeyPart, g
    <2> QED
      BY <1>1, <2>2, <2>3 DEF g
  <1>2. CASE d # None
    <2>1. d \in Segments \X Segments /\ "_digest" \in Segments
      <3>1. d \in Segments \X Segments
        BY <1>2, ImageParts
      <3> QED
        BY <3>1, Words
    <2>2. KeyPart(im.ref) = <<"_digest">> \o d
      BY <1>2 DEF KeyPart
    <2> HIDE DEF d
    <2>3. /\ <<"_digest">> \o d \in Seq(Segments) /\ Len(<<"_digest">> \o d) = 3
          /\ (<<"_digest">> \o d)[1] = "_digest" /\ (<<"_digest">> \o d)[2] = d[1]
          /\ (<<"_digest">> \o d)[3] = d[2]
      BY <2>1, PairIsSeq
    <2> QED
      BY <1>2, <2>2, <2>3 DEF d
  <1> QED
    BY <1>1, <1>2

\* parseLeaf inverts LeafPath, on any repository, tag, digest and platform: the tag or the digest
\* may be spelled like a marker.
LEMMA ParsesBack ==
  ASSUME NEW im \in Images
  PROVE  ParseLeaf(LeafPath(im)) = <<Key(im.ref), im.platform>>
  <1> DEFINE r == im.ref.repo
             m == KeyPart(im.ref)
             p == im.platform
             leaf == LeafPath(im)
             s == Tail(leaf)
             k == Len(r)
  <1>1. /\ r \in Seq(Segments) /\ k \in Nat \ {0} /\ p \in Seq(Segments) /\ Len(p) \in {2, 3}
        /\ leaf = <<"image_refs">> \o r \o m \o p /\ "image_refs" \in Segments
        /\ \A i \in 1..k : r[i] \notin Markers
    <2>1. "image_refs" \in Segments
      BY Words
    <2>2. leaf = <<"image_refs">> \o r \o m \o p
      BY ImageParts
    <2> HIDE DEF leaf, m
    <2> QED
      BY <2>1, <2>2, ImageParts
  <1>2. m \in Seq(Segments) /\ Len(m) \in {2, 3} /\ m[1] \in {"_tag", "_digest"}
    BY KeyPartIs
  <1> HIDE DEF r, m, p, leaf
  <1>3. /\ Head(leaf) = "image_refs" /\ s \in Seq(Segments) /\ Len(s) = k + Len(m) + Len(p)
        /\ \A i \in 1..k : s[i] = r[i]
        /\ \A i \in 1..Len(m) : s[k + i] = m[i]
        /\ \A i \in 1..Len(p) : s[k + Len(m) + i] = p[i]
    BY <1>1, <1>2, LeafSegments
  <1> HIDE DEF s, k
  <1>4. MarkerAt(s) = k + 1
    <2>1. k + 1 \in 1..Len(s) /\ 1 \in 1..Len(m)
      BY <1>1, <1>2, <1>3
    <2>2. s[k + 1] \in Markers
      BY <1>2, <1>3, <2>1 DEF Markers
    <2>3. \A i \in 1..((k + 1) - 1) : s[i] \notin Markers
      <3>1. (k + 1) - 1 = k
        BY <1>1
      <3>2. \A i \in 1..k : s[i] \notin Markers
        BY <1>1, <1>3 DEF k
      <3> QED
        BY <3>1, <3>2
    <2> QED
      BY <1>3, <2>1, <2>2, <2>3, MarkerFound
  <1>5. SubSeq(s, 1, (k + 1) - 1) = r
    <2>1. 0 + k <= Len(s) /\ k = Len(r) /\ \A i \in 1..k : s[0 + i] = r[i]
      BY <1>1, <1>2, <1>3 DEF k
    <2>2. SubSeq(s, 0 + 1, 0 + k) = r
      BY <1>1, <1>3, <2>1, PartOf
    <2> QED
      BY <1>1, <2>2
  <1>6. Tail2(s, k + Len(m) + 1) = p
    <2> DEFINE h == k + Len(m)
               n == Len(p)
    <2>1. h \in Nat /\ n \in Nat /\ h + n <= Len(s) /\ h + n = Len(s)
      BY <1>1, <1>2, <1>3
    <2>2. \A i \in 1..n : s[h + i] = p[i]
      BY <1>3
    <2> HIDE DEF h
    <2>3. SubSeq(s, h + 1, h + n) = p
      BY <1>1, <1>3, <2>1, <2>2, PartOf
    <2> QED
      BY <2>1, <2>3 DEF Tail2, h
  <1>7. CASE im.ref.digest = None
    <2>1. Len(m) = 2 /\ m[1] = "_tag" /\ m[2] = im.ref.tag
      BY <1>7, KeyPartIs DEF m
    <2>2. s[k + 1] = "_tag" /\ s[(k + 1) + 1] = im.ref.tag
      <3>1. 1 \in 1..Len(m) /\ 2 \in 1..Len(m) /\ (k + 1) + 1 = k + 2
        BY <1>1, <2>1
      <3> QED
        BY <1>3, <2>1, <3>1
    <2>3. Tail2(s, (k + 1) + 2) = p
      <3>1. (k + 1) + 2 = k + Len(m) + 1
        BY <1>1, <2>1
      <3> QED
        BY <1>6, <3>1
    <2>4. Parsed(s, k + 1) = <<[repo |-> r, tag |-> im.ref.tag, digest |-> None], p>>
      BY <1>5, <2>2, <2>3 DEF Parsed
    <2>5. [repo |-> r, tag |-> im.ref.tag, digest |-> None] = Key(im.ref)
      BY <1>7, ImageParts DEF Key, r
    <2>6. ~(k + 1 < 2) /\ ~(Len(s) < (k + 1) + 1)
      BY <1>1, <1>3, <2>1
    <2>7. Parsed(s, k + 1)[2] = p
      BY <2>4
    <2>8. ParseLeaf(leaf) = Parsed(s, k + 1)
      BY <1>1, <1>3, <1>4, <2>2, <2>6, <2>7 DEF ParseLeaf, s
    <2> QED
      BY <2>4, <2>5, <2>8 DEF p, leaf
  <1>8. CASE im.ref.digest # None
    <2> DEFINE d == im.ref.digest
    <2>1. Len(m) = 3 /\ m[1] = "_digest" /\ m[2] = d[1] /\ m[3] = d[2]
      BY <1>8, KeyPartIs DEF m
    <2>0. d \in Digests /\ d \in Seq(Segments) /\ Len(d) = 2
      BY <1>8, ImageParts, PairIsSeq
    <2>2. s[k + 1] = "_digest" /\ s[k + 2] = d[1] /\ s[k + 3] = d[2]
      <3>1. 1 \in 1..Len(m) /\ 2 \in 1..Len(m) /\ 3 \in 1..Len(m)
        BY <1>1, <2>1
      <3> QED
        BY <1>3, <2>1, <3>1
    <2>3. Tail2(s, (k + 1) + 3) = p
      <3>1. (k + 1) + 3 = k + Len(m) + 1
        BY <1>1, <2>1
      <3> QED
        BY <1>6, <3>1
    <2>4. SubSeq(s, (k + 1) + 1, (k + 1) + 2) = d
      <3> DEFINE h == k + 1
      <3>1. h \in Nat /\ 2 \in Nat /\ h + 2 <= Len(s)
        BY <1>1, <1>3, <2>1
      <3>2. \A i \in 1..2 : s[h + i] = d[i]
        <4>1. h + 1 = k + 2 /\ h + 2 = k + 3
          BY <1>1
        <4>2. \A i \in 1..2 : i = 1 \/ i = 2
          OBVIOUS
        <4> HIDE DEF h, d
        <4> QED
          BY <2>2, <4>1, <4>2
      <3> HIDE DEF h, d
      <3>3. SubSeq(s, h + 1, h + 2) = d
        BY <1>3, <2>0, <3>1, <3>2, PartOf
      <3> QED
        BY <3>3 DEF h
    <2>5. Parsed(s, k + 1) = <<[repo |-> r, tag |-> None, digest |-> d], p>>
      BY <1>5, <2>2, <2>3, <2>4 DEF Parsed
    <2>6. [repo |-> r, tag |-> None, digest |-> d] = Key(im.ref)
      <3> DEFINE f == im.ref
      <3>1. f = [repo |-> f.repo, tag |-> f.tag, digest |-> f.digest]
        BY ImageParts
      <3>2. Key(f) = [f EXCEPT !.tag = None]
        BY <1>8 DEF Key
      <3> HIDE DEF f
      <3>3. [f EXCEPT !.tag = None] = [repo |-> f.repo, tag |-> None, digest |-> f.digest]
        BY <3>1
      <3> QED
        BY <3>2, <3>3 DEF f, r
    <2>7. ~(k + 1 < 2) /\ ~(Len(s) < (k + 1) + 2)
      BY <1>1, <1>3, <2>1
    <2>8. Parsed(s, k + 1)[2] = p
      BY <2>5
    <2>9. ParseLeaf(leaf) = Parsed(s, k + 1)
      BY <1>1, <1>3, <1>4, <2>0, <2>2, <2>4, <2>7, <2>8 DEF ParseLeaf, s
    <2> QED
      BY <2>5, <2>6, <2>9 DEF p, leaf
  <1> QED
    BY <1>7, <1>8

\* A leaf with one more segment: the file of that name in it.
LEMMA LeafFile ==
  ASSUME NEW im \in Images, NEW f \in Segments, NEW n, n = LeafPath(im) \o <<f>>
  PROVE  /\ n[1] = "image_refs" /\ Last(n) = f /\ Front(n) = LeafPath(im)
  <1> DEFINE leaf == LeafPath(im)
             o == <<f>>
             k == Len(leaf)
  <1>1. leaf \in Seq(Segments) /\ leaf # <<>> /\ Head(leaf) = "image_refs"
    <2>1. /\ "image_refs" \in Segments /\ im.ref.repo \in Seq(Segments) /\ im.platform \in Seq(Segments)
          /\ KeyPart(im.ref) \in Seq(Segments)
      BY ImageParts, KeyPartIs, Words
    <2> DEFINE r == im.ref.repo
               m == KeyPart(im.ref)
               p == im.platform
    <2>2. leaf = <<"image_refs">> \o r \o m \o p
      BY ImageParts
    <2>3. /\ "image_refs" \in Segments /\ r \in Seq(Segments) /\ m \in Seq(Segments)
          /\ p \in Seq(Segments)
      BY <2>1
    <2> HIDE DEF leaf, r, m, p
    <2> QED
      BY <2>2, <2>3, LeafSegments
  <1>2. o \in Seq(Segments) /\ Len(o) = 1 /\ o[1] = f
    BY OneSegment
  <1> HIDE DEF leaf, o
  <1>3. k \in Nat \ {0} /\ leaf[1] = "image_refs"
    BY <1>1, EmptySeq, HeadIsFirst
  <1>4. /\ n \in Seq(Segments) /\ Len(n) = k + 1
        /\ \A i \in 1..(k + 1) : n[i] = IF i <= k THEN leaf[i] ELSE o[i - k]
    <2>1. n = leaf \o o
      BY DEF leaf, o
    <2> QED
      <3>1. /\ leaf \o o \in Seq(Segments) /\ Len(leaf \o o) = Len(leaf) + Len(o)
            /\ \A i \in 1..(Len(leaf) + Len(o)) :
                 (leaf \o o)[i] = IF i <= Len(leaf) THEN leaf[i] ELSE o[i - Len(leaf)]
        BY <1>1, <1>2, ConcatProperties
      <3> QED
        BY <1>2, <2>1, <3>1
  <1> HIDE DEF k
  <1>5. n[1] = "image_refs" /\ n[k + 1] = f
    <2>1. 1 \in 1..(k + 1) /\ 1 <= k /\ k + 1 \in 1..(k + 1) /\ ~(k + 1 <= k) /\ k + 1 - k = 1
      BY <1>3
    <2>2. n[1] = leaf[1]
      BY <1>4, <2>1
    <2>3. n[k + 1] = o[1]
      <3> DEFINE j == k + 1
      <3>1. j \in 1..(k + 1) /\ ~(j <= k) /\ j - k = 1
        BY <1>3
      <3> HIDE DEF j
      <3>2. n[j] = o[j - k]
        BY <1>4, <3>1
      <3> QED
        BY <3>1, <3>2 DEF j
    <2> QED
      BY <1>2, <1>3, <2>1, <2>2, <2>3
  <1>6. SubSeq(n, 1, k) = leaf
    <2>1. 0 + k <= Len(n) /\ k = Len(leaf) /\ \A i \in 1..k : n[0 + i] = leaf[i]
      BY <1>3, <1>4 DEF k
    <2>2. SubSeq(n, 0 + 1, 0 + k) = leaf
      BY <1>1, <1>3, <1>4, <2>1, PartOf
    <2>3. 0 + 1 = 1 /\ 0 + k = k
      BY <1>3
    <2> QED
      BY <2>2, <2>3
  <1>7. Len(n) - 1 = k
    BY <1>3, <1>4
  <1>8. Front(n) = leaf
    BY <1>6, <1>7 DEF Front
  <1>9. Last(n) = f
    BY <1>4, <1>5 DEF Last
  <1> QED
    BY <1>5, <1>8, <1>9 DEF leaf

\* The segments of a marker for a pair of digests.
LEMMA DiffIdSegments ==
  ASSUME NEW d \in DiffIds, NEW b \in Digests
  PROVE  /\ DiffIdPath(d, b) \in Seq(Segments) /\ Len(DiffIdPath(d, b)) = 5
         /\ DiffIdPath(d, b)[1] = "diff_ids"
         /\ DiffIdPath(d, b)[2] = d[1] /\ DiffIdPath(d, b)[3] = d[2]
         /\ DiffIdPath(d, b)[4] = b[1] /\ DiffIdPath(d, b)[5] = b[2]
         /\ d \in Seq(Segments) /\ Len(d) = 2 /\ d = <<d[1], d[2]>>
         /\ b \in Seq(Segments) /\ Len(b) = 2 /\ b = <<b[1], b[2]>>
  <1>1. d \in Segments \X Segments /\ b \in Segments \X Segments /\ "diff_ids" \in Segments
    <2>1. d \in Segments \X Segments /\ b \in Segments \X Segments
      BY PathAssumption
    <2> QED
      BY <2>1, Words
  <1> DEFINE a == <<"diff_ids">> \o d
             n == a \o b
  <1>2. /\ d \in Seq(Segments) /\ Len(d) = 2 /\ d = <<d[1], d[2]>>
        /\ b \in Seq(Segments) /\ Len(b) = 2 /\ b = <<b[1], b[2]>>
        /\ a \in Seq(Segments) /\ Len(a) = 3 /\ a[1] = "diff_ids" /\ a[2] = d[1] /\ a[3] = d[2]
    BY <1>1, PairIsSeq
  <1> HIDE DEF a
  <1>3. /\ n \in Seq(Segments) /\ Len(n) = Len(a) + Len(b)
        /\ \A i \in 1..(Len(a) + Len(b)) : n[i] = IF i <= Len(a) THEN a[i] ELSE b[i - Len(a)]
    BY <1>2, ConcatProperties
  <1> HIDE DEF n
  <1>4. Len(n) = 5 /\ \A i \in 1..5 : n[i] = IF i <= 3 THEN a[i] ELSE b[i - 3]
    BY <1>2, <1>3
  <1>5. n[1] = a[1] /\ n[2] = a[2] /\ n[3] = a[3] /\ n[4] = b[1] /\ n[5] = b[2]
    BY <1>4
  <1>6. DiffIdPath(d, b) = n
    BY DEF DiffIdPath, n, a
  <1> QED
    BY <1>2, <1>3, <1>4, <1>5, <1>6

\* What each name of the tree is.
LEMMA NameIs ==
  ASSUME NEW n \in Names
  PROVE  \/ \E im \in Images : n = IndexPath(im)
         \/ \E im \in Images : n = LayoutPath(im)
         \/ \E d \in DiffIds, b \in Digests : n = DiffIdPath(d, b)
         \/ n[1] \notin {"image_refs", "diff_ids"}
  BY FsAssumption

\* Walk reads the leaves back from their index.json, and nothing else from the other names.
LEMMA WalkedIs ==
  ASSUME NEW names \in SUBSET Names
  PROVE  Walked(names) =
           {<<Key(im.ref), im.platform>> : im \in {im \in Images : IndexPath(im) \in names}}
  <1> DEFINE leafOf(im) == <<Key(im.ref), im.platform>>
             L == {leafOf(im) : im \in {im \in Images : IndexPath(im) \in names}}
             I == {n \in names : n[1] = "image_refs" /\ Last(n) = "index.json"}
  <1>1. ASSUME NEW im \in Images
        PROVE  /\ IndexPath(im)[1] = "image_refs" /\ Last(IndexPath(im)) = "index.json"
               /\ Front(IndexPath(im)) = LeafPath(im) /\ ParseLeaf(LeafPath(im)) = leafOf(im)
               /\ leafOf(im) # None
    <2>1. IndexPath(im) = LeafPath(im) \o <<"index.json">> /\ "index.json" \in Segments
      BY Words DEF IndexPath
    <2>2. /\ IndexPath(im)[1] = "image_refs" /\ Last(IndexPath(im)) = "index.json"
          /\ Front(IndexPath(im)) = LeafPath(im)
      BY <2>1, LeafFile
    <2>3. leafOf(im) # None
      BY PathAssumption
    <2> QED
      BY <2>2, <2>3, ParsesBack
  <1>2. ASSUME NEW n \in I
        PROVE  \E im \in Images : n = IndexPath(im)
    <2>1. n \in Names /\ n[1] = "image_refs" /\ Last(n) = "index.json"
      OBVIOUS
    <2>2. ASSUME NEW im \in Images, n = LayoutPath(im) PROVE FALSE
      <3>1. n = LeafPath(im) \o <<"oci-layout">> /\ "oci-layout" \in Segments
        BY <2>2, Words DEF LayoutPath
      <3>2. Last(n) = "oci-layout"
        BY <3>1, LeafFile
      <3> QED
        BY <2>1, <3>2
    <2>3. ASSUME NEW d \in DiffIds, NEW b \in Digests, n = DiffIdPath(d, b) PROVE FALSE
      BY <2>1, <2>3, DiffIdSegments
    <2> QED
      BY <2>1, <2>2, <2>3, NameIs
  <1>3. ASSUME NEW x \in Walked(names) PROVE x \in L
    <2>1. PICK n \in I : x = ParseLeaf(Front(n))
      BY <1>3 DEF Walked
    <2>2. PICK im \in Images : n = IndexPath(im)
      BY <1>2
    <2>3. x = leafOf(im) /\ IndexPath(im) \in names
      BY <1>1, <2>1, <2>2
    <2> QED
      BY <2>3
  <1>4. ASSUME NEW x \in L PROVE x \in Walked(names)
    <2>1. PICK im \in Images : IndexPath(im) \in names /\ x = leafOf(im)
      BY <1>4
    <2>2. IndexPath(im) \in I /\ x = ParseLeaf(Front(IndexPath(im))) /\ x # None
      BY <1>1, <2>1
    <2> QED
      BY <2>2 DEF Walked
  <1> QED
    BY <1>3, <1>4

\* The paths under a diffID are the pairs that were written for it.
LEMMA UnderDiffId ==
  ASSUME NEW d \in DiffIds, NEW e \in DiffIds, NEW b \in Digests
  PROVE  /\ IsPrefix(<<"diff_ids">> \o d, DiffIdPath(e, b)) <=> d = e
         /\ Tail2(DiffIdPath(e, b), Len(d) + 2) = b
  <1> DEFINE n == DiffIdPath(e, b)
             a == <<"diff_ids">> \o d
  <1>1. /\ n \in Seq(Segments) /\ Len(n) = 5 /\ n[1] = "diff_ids" /\ n[2] = e[1] /\ n[3] = e[2]
        /\ n[4] = b[1] /\ n[5] = b[2] /\ e = <<e[1], e[2]>>
        /\ b \in Seq(Segments) /\ Len(b) = 2
    BY DiffIdSegments
  <1>2. /\ a \in Seq(Segments) /\ Len(a) = 3 /\ a[1] = "diff_ids" /\ a[2] = d[1] /\ a[3] = d[2]
        /\ d = <<d[1], d[2]>> /\ Len(d) = 2
    <2>1. d \in Segments \X Segments
      BY PathAssumption
    <2>2. "diff_ids" \in Segments
      BY Words
    <2> QED
      BY <2>1, <2>2, PairIsSeq
  <1> HIDE DEF n, a
  <1>3. SubSeq(a, 1, 3) = a
    BY <1>2, SubSeqFull
  <1>4. /\ Len(SubSeq(n, 1, 3)) = 3 /\ SubSeq(n, 1, 3) \in Seq(Segments)
        /\ \A i \in 1..3 : SubSeq(n, 1, 3)[i] = n[i]
    <2>1. \A i \in 1..3 : n[i] \in Segments
      <3>1. \A i \in 1..3 : i \in 1..Len(n)
        BY <1>1
      <3> QED
        BY <1>1, <3>1, ElementOfSeq
    <2>2. /\ SubSeq(n, 1, 3) \in Seq(Segments)
          /\ Len(SubSeq(n, 1, 3)) = IF 1 <= 3 THEN 3 - 1 + 1 ELSE 0
          /\ \A i \in 1..(3 - 1 + 1) : SubSeq(n, 1, 3)[i] = n[1 + i - 1]
      BY <2>1, SubSeqProperties, 1 \in Int, 3 \in Int
    <2>3. \A i \in 1..3 : i \in 1..(3 - 1 + 1) /\ 1 + i - 1 = i
      OBVIOUS
    <2> QED
      BY <2>2, <2>3
  <1>5. IsPrefix(a, n) <=> a = SubSeq(n, 1, 3)
    BY <1>1, <1>2, <1>3 DEF IsPrefix
  <1> DEFINE c == SubSeq(n, 1, 3)
  <1> HIDE DEF c
  <1>6. c \in Seq(Segments) /\ Len(c) = 3 /\ c[1] = n[1] /\ c[2] = n[2] /\ c[3] = n[3]
    BY <1>4 DEF c
  <1>7. a = c <=> d = e
    <2>1. ASSUME a = c PROVE d = e
      <3>1. d[1] = e[1] /\ d[2] = e[2]
        BY <1>1, <1>2, <1>6, <2>1
      <3> QED
        BY <1>1, <1>2, <3>1
    <2>2. ASSUME d = e PROVE a = c
      <3>1. \A i \in 1..3 : i = 1 \/ i = 2 \/ i = 3
        OBVIOUS
      <3>2. a[1] = c[1] /\ a[2] = c[2] /\ a[3] = c[3]
        BY <1>1, <1>2, <1>6, <2>2
      <3>3. \A i \in 1..Len(a) : a[i] = c[i]
        BY <1>2, <3>1, <3>2
      <3> QED
        BY <1>2, <1>6, <3>3, SeqEqual
    <2> QED
      BY <2>1, <2>2
  <1>8. SubSeq(n, 4, 5) = b
    <2>1. \A i \in 1..2 : n[3 + i] = b[i]
      <3>1. \A i \in 1..2 : i = 1 \/ i = 2
        OBVIOUS
      <3>2. 3 + 1 = 4 /\ 3 + 2 = 5 /\ b[1] = n[4] /\ b[2] = n[5]
        BY <1>1
      <3> QED
        BY <3>1, <3>2
    <2>2. SubSeq(n, 3 + 1, 3 + 2) = b
      BY <1>1, <2>1, PartOf, 3 \in Nat, 2 \in Nat, 3 + 2 <= 5
    <2> QED
      BY <2>2
  <1>9. Tail2(n, Len(d) + 2) = b
    BY <1>1, <1>2, <1>8 DEF Tail2
  <1> QED
    BY <1>5, <1>7, <1>9 DEF n, a, c

LEMMA DiffIdBlobsAre ==
  ASSUME NEW names \in SUBSET Names, NEW d \in DiffIds
  PROVE  DiffIdBlobs(d, names) = {b \in Digests : DiffIdPath(d, b) \in names}
  <1> DEFINE under == {n \in names : IsPrefix(<<"diff_ids">> \o d, n)}
  <1>1. ASSUME NEW n \in names, IsPrefix(<<"diff_ids">> \o d, n)
        PROVE  \E b \in Digests : n = DiffIdPath(d, b)
    <2>1. n[1] = "diff_ids"
      <3> DEFINE a == <<"diff_ids">> \o d
      <3>1. a \in Seq(Segments) /\ Len(a) = 3 /\ a[1] = "diff_ids"
        <4>1. d \in Segments \X Segments
          BY PathAssumption
        <4>2. "diff_ids" \in Segments
          BY Words
        <4> QED
          BY <4>1, <4>2, PairIsSeq
      <3>2. IsPrefix(a, n)
        BY <1>1
      <3> HIDE DEF a
      <3>3. SubSeq(a, 1, 3) = SubSeq(n, 1, 3)
        BY <3>1, <3>2 DEF IsPrefix
      <3>4. SubSeq(a, 1, 3)[1] = a[1]
        BY <3>1, SubSeqFull
      <3>5. SubSeq(n, 1, 3)[1] = n[1]
        OBVIOUS
      <3> QED
        BY <3>1, <3>3, <3>4, <3>5
    <2>2. ASSUME NEW im \in Images, n = IndexPath(im) \/ n = LayoutPath(im) PROVE FALSE
      <3>1. PICK f \in Segments : n = LeafPath(im) \o <<f>>
        BY <2>2, Words DEF IndexPath, LayoutPath
      <3>2. n[1] = "image_refs"
        BY <3>1, LeafFile
      <3> QED
        BY <2>1, <3>2
    <2>3. PICK e \in DiffIds, b \in Digests : n = DiffIdPath(e, b)
      BY <2>1, <2>2, NameIs
    <2>4. d = e
      BY <1>1, <2>3, UnderDiffId
    <2> QED
      BY <2>3, <2>4
  <1>2. ASSUME NEW b \in Digests
        PROVE  /\ IsPrefix(<<"diff_ids">> \o d, DiffIdPath(d, b))
               /\ Tail2(DiffIdPath(d, b), Len(d) + 2) = b
    BY UnderDiffId
  <1>3. DiffIdBlobs(d, names) = {Tail2(n, Len(d) + 2) : n \in under} \cap Digests
    BY DEF DiffIdBlobs
  <1>4. ASSUME NEW x \in DiffIdBlobs(d, names) PROVE x \in Digests /\ DiffIdPath(d, x) \in names
    <2>1. PICK n \in under : x = Tail2(n, Len(d) + 2)
      BY <1>3, <1>4
    <2>2. PICK b \in Digests : n = DiffIdPath(d, b)
      BY <1>1, <2>1
    <2> QED
      BY <1>2, <2>1, <2>2
  <1>5. ASSUME NEW x \in Digests, DiffIdPath(d, x) \in names PROVE x \in DiffIdBlobs(d, names)
    <2>1. DiffIdPath(d, x) \in under /\ x = Tail2(DiffIdPath(d, x), Len(d) + 2)
      BY <1>2, <1>5
    <2> QED
      BY <1>3, <2>1
  <1> QED
    BY <1>4, <1>5

-----------------------------------------------------------------------------
(* No entry goes away, so what List has yielded is still there.             *)

GotInv == got \subseteq Names /\ \A x \in got : entry[x] # None

LEMMA EntriesStay ==
  ASSUME FsInv, [FsNext]_fsVars, NEW n \in Names, entry[n] # None
  PROVE  entry'[n] = entry[n]
  <1>1. CASE \A m \in Names : entry'[m] = entry[m]
    BY <1>1
  <1>2. ASSUME NEW w \in Writers, entry[Name(w)] = None, entry' = [entry EXCEPT ![Name(w)] = file[w]]
        PROVE  entry'[n] = entry[n]
    BY <1>2 DEF FsInv, FsTypeOK
  <1> QED
    BY <1>1, <1>2, EntryNext

LEMMA GotNext ==
  ASSUME FsInv, GotInv, [FsNext]_fsVars
  PROVE  GotInv'
  <1>1. ASSUME NEW x \in got PROVE x \in Names /\ entry'[x] # None
    BY <1>1, EntriesStay DEF GotInv
  <1>2. CASE Visit
    <2>1. left # <<>> /\ left \in Seq(Names) /\ entry' = entry
      BY <1>2 DEF Visit, FsInv, FsTypeOK, tree
    <2>2. PICK F \in Passed(Head(left)) : got' = got \cup Yielded(F)
      BY <1>2 DEF Visit
    <2>3. \A x \in Yielded(F) : x \in Names /\ entry'[x] # None
      BY <2>1, <2>2, YieldedAreEntries
    <2> QED
      BY <1>1, <2>1, <2>2, <2>3 DEF GotInv
  <1>3. CASE ListBegin \/ ListReturns
    BY <1>3 DEF ListBegin, ListReturns, GotInv
  <1>4. CASE got' = got
    BY <1>1, <1>4 DEF GotInv
  <1>5. ASSUME NEW w \in Writers, Create(w) \/ CreateFails(w) \/ Die(w) PROVE got' = got
    BY <1>5 DEF Create, CreateBegin, Lstat, OpenTmp, Write, WriteVerified, Link, RemoveTmp,
       CreateReturns, CreateFails, Die, list
  <1>6. CASE ListEnd \/ UNCHANGED fsVars
    BY <1>4, <1>6 DEF ListEnd, fsVars
  <1> QED
    BY <1>2, <1>3, <1>4, <1>5, <1>6 DEF FsNext

\* Whatever is created, fails or dies meanwhile and whatever temporary files List passes, what it
\* yields is an entry that was committed, and Walk and
\* DiffIDBlobs read each path back as the image, or the pair, that it was written for: all of
\* those among the paths and nothing else.
THEOREM ListIsTrue == FsSpec => []ListedIsWritten
  <1>1. FsInv /\ [FsNext]_fsVars => FsInv'
    BY FsTypeNext, FilesNext, WrittenNext, EntriesNext DEF FsInv, FilesInv
  <1>2. FsInv /\ GotInv /\ [FsNext]_fsVars => GotInv'
    BY GotNext
  <1>3. GotInv => ListedIsWritten
    <2> SUFFICES ASSUME GotInv PROVE ListedIsWritten
      OBVIOUS
    <2>1. got \in SUBSET Names
      BY DEF GotInv
    <2>2. Walked(got) = {<<Key(im.ref), im.platform>> : im \in {im \in Images : IndexPath(im) \in got}}
      BY <2>1, WalkedIs
    <2>3. \A d \in DiffIds : DiffIdBlobs(d, got) = {b \in Digests : DiffIdPath(d, b) \in got}
      BY <2>1, DiffIdBlobsAre
    <2>4. \A x \in got : x \in Names /\ entry[x] # None
      BY DEF GotInv
    <2> QED
      BY <2>2, <2>3, <2>4 DEF ListedIsWritten
  <1>4. FsInit => GotInv
    BY DEF FsInit, GotInv
  <1> QED
    BY <1>1, <1>2, <1>3, <1>4, FsInitial, PTL DEF FsSpec
=============================================================================
