--------------------------------- MODULE Copy ---------------------------------
(***************************************************************************)
(* One run of the copy command: ociimagecopy.Copy with the locations it    *)
(* opens (service.go), the planning and the transfer of its entries, the   *)
(* errors sorted back to the entries (newResult, record), and what the     *)
(* command shows and exits with (cli/copy.go, cli/exit.go), also when its  *)
(* output cannot be written.                                               *)
(*                                                                         *)
(* How an entry is planned and transferred is the business of Push.tla and *)
(* Pull.tla; here each of them succeeds or yields transfer.EntryErrors.    *)
(***************************************************************************)
EXTENDS Naturals, Sequences, FiniteSets, SequencesExt

CONSTANTS
  Refs,         \* references, each in its normal form
  Bad,          \* an image that does not parse
  Platforms,
  Requests      \* [src, dst, images, platforms, dryRun, output, valid, cached], images and platforms
                \* sequences; valid: flags, config, locations and files parse; cached: a cache
                \* directory is known

ASSUME CopyAssumption ==
  /\ Bad \notin Refs
  /\ \A r \in Requests :
       /\ r.images \in Seq(Refs \cup {Bad}) /\ r.platforms \in Seq(Platforms)
       /\ r.dryRun \in BOOLEAN /\ r.output \in {"text", "quiet", "json"}

\* Location.validate and Kind.
Kind(l) == CASE l = "containers-storage" -> "containers-storage"
             [] l \in {"file", "s3", "http"} -> "store"
             [] OTHER -> "invalid"
Writable(l) == l \in {"containers-storage", "file", "s3"}

Running == 255

VARIABLES
  req,          \* the request
  phase,        \* where Copy is
  dir,          \* the directory of the filesystem store exists
  opened,       \* what is open: "cs" (blob cache and containers-storage), "store"
  touched,      \* what has been opened at any time
  memory,       \* the store is an empty one in memory
  todo,         \* the pairs <<ref, platform>> still to plan, or the entries still to transfer
  plan,         \* the pairs planned, in order
  errs,         \* the pairs of the EntryErrors collected, in order
  entries,      \* Result.Entries: [ref, platform, planned, fails], fails a number of errors
  rest,         \* the pairs of errors that record could attribute to no entry
  writes,       \* the pairs that the destination has got
  fate,         \* how each pair ended in turn, as [pair, ok]; ok: no call for it failed
  outputLost,   \* errWriter keeps an error: stdout did not take the output
  code          \* the exit status, Running before the end

outcome == <<writes, fate, outputLost>>
copyVars == <<req, phase, dir, opened, touched, memory, todo, plan, errs, entries, rest, outcome, code>>

IsPush(r) == Kind(r.src) = "containers-storage" /\ Kind(r.dst) = "store"
IsPull(r) == Kind(r.src) = "store" /\ Kind(r.dst) = "containers-storage"

\* parseSet: the references of a set, each once.
ParseSet(images) ==
  LET Seen[n \in 0..Len(images)] ==
        IF n = 0 THEN <<>>
        ELSE IF Contains(Seen[n - 1], images[n]) THEN Seen[n - 1] ELSE Append(Seen[n - 1], images[n])
  IN  Seen[Len(images)]

\* runCopy and checkCopy: the usage errors.
Usage(r) ==
  \/ ~r.valid
  \/ ~(IsPush(r) \/ IsPull(r))
  \/ ~Writable(r.dst)
  \/ r.images = <<>>
  \/ Contains(r.images, Bad)

\* All pairs, image by image, or platform by platform.
ByImage(refs, ps) ==
  FlattenSeq([i \in DOMAIN refs |-> [j \in DOMAIN ps |-> <<refs[i], ps[j]>>]])
ByPlatform(refs, ps) ==
  FlattenSeq([j \in DOMAIN ps |-> [i \in DOMAIN refs |-> <<refs[i], ps[j]>>]])

Asked == ByImage(ParseSet(req.images), req.platforms)

CopyInit ==
  /\ req \in Requests
  /\ phase = "check"
  /\ dir \in BOOLEAN
  /\ opened = {} /\ touched = {} /\ memory = FALSE
  /\ todo = <<>> /\ plan = <<>> /\ errs = <<>> /\ entries = <<>> /\ rest = {}
  /\ writes = {} /\ fate = <<>> /\ outputLost = FALSE
  /\ code = Running

\* ExitCode: of no error, a usage error, any other.
ExitCode(err) == CASE err = "nil" -> 0 [] err = "usage" -> 1 [] OTHER -> 2

\* svc.Close and closeStore are deferred; main exits with the code of the error returned.
Exits(err) ==
  /\ phase' = "exit"
  /\ code' = ExitCode(err)
  /\ opened' = {}

-----------------------------------------------------------------------------
(* Opening.                                                                 *)

\* ValidateCopy, and checkCopy again.
CheckUsage ==
  /\ phase = "check"
  /\ IF Usage(req) THEN Exits("usage") ELSE phase' = "open" /\ UNCHANGED <<code, opened>>
  /\ UNCHANGED <<req, dir, touched, memory, todo, plan, errs, entries, rest, outcome>>

\* containersStorage: the cache, whose directory is known or not, then containers-storage.
OpenStorage ==
  /\ phase = "open"
  /\ \/ /\ req.cached
        /\ phase' = "locate"
        /\ opened' = {"cs"} /\ touched' = {"cs"}
        /\ UNCHANGED code
     \/ req.cached /\ Exits("failure") /\ touched' \in {{}, {"cs"}}
     \/ ~req.cached /\ Exits("usage") /\ UNCHANGED touched
  /\ UNCHANGED <<req, dir, memory, todo, plan, errs, entries, rest, outcome>>

StoreLocation == IF IsPush(req) THEN req.dst ELSE req.src

\* Mutant: every push makes the directory.
ModeOfEvery == IF IsPush(req) THEN "create" ELSE "mustExist"

Mode == IF ~IsPush(req) THEN "mustExist" ELSE IF req.dryRun THEN "emptyIfMissing" ELSE "create"

\* openStore; any of its system calls may fail.
OpenStore ==
  LET onDisk == StoreLocation = "file"
      order == IF IsPush(req) THEN Asked ELSE ByPlatform(ParseSet(req.images), req.platforms)
  IN  /\ phase = "locate"
      /\ \/ /\ dir' = (dir \/ (onDisk /\ Mode = "create"))
            /\ memory' = (onDisk /\ ~dir /\ Mode = "emptyIfMissing")
            /\ onDisk => dir' \/ memory'
            /\ phase' = "plan"
            /\ opened' = opened \cup {"store"} /\ touched' = touched \cup {"store"}
            /\ todo' = order
            /\ UNCHANGED code
         \/ /\ Exits("failure")
            /\ dir' \in {dir, dir \/ (onDisk /\ Mode = "create")}
            /\ UNCHANGED <<touched, memory, todo>>
      /\ UNCHANGED <<req, plan, errs, entries, rest, outcome>>

-----------------------------------------------------------------------------
(* Planning.                                                                *)

\* PlanPush, or PlanPull for each platform: the next pair is planned, or has an EntryError.
PlanEntry ==
  /\ phase = "plan"
  /\ todo # <<>>
  /\ todo' = Tail(todo)
  /\ \/ /\ plan' = Append(plan, Head(todo))
        /\ UNCHANGED <<errs, fate>>
     \/ /\ errs' = Append(errs, Head(todo))
        /\ fate' = Append(fate, [pair |-> Head(todo), ok |-> FALSE])
        /\ UNCHANGED plan
  /\ UNCHANGED <<req, phase, dir, opened, touched, memory, entries, rest, writes, outputLost, code>>

Count(s, x) == Cardinality({i \in DOMAIN s : s[i] = x})

\* newResult: the n-th entry of a pair takes the n-th planned for it.
NewResult(asked, p) ==
  [j \in DOMAIN asked |->
    [ref |-> asked[j][1], platform |-> asked[j][2], fails |-> 0,
     planned |-> Count(p, asked[j]) >= Count(SubSeq(asked, 1, j), asked[j])]]

\* Mutant: the platform is not compared.
RefOnly(es, pair) == SelectInSeq(es, LAMBDA e : e.ref = pair[1])

\* record: an error goes to the first entry of its pair.
EntryOf(es, pair) == SelectInSeq(es, LAMBDA e : e.ref = pair[1] /\ e.platform = pair[2])
RecordAll(es, pairs) ==
  [j \in DOMAIN es |->
    [es[j] EXCEPT !.fails = @ + Cardinality({i \in DOMAIN pairs : EntryOf(es, pairs[i]) = j})]]
Unmatched(es, pairs) == {pair \in ToSet(pairs) : EntryOf(es, pair) = 0}

\* The plan is recorded, and rendered when the output is text; a failure of no entry ends the copy
\* here, with only that.
Planned ==
  LET es == NewResult(Asked, plan)
  IN  /\ phase = "plan"
      /\ todo = <<>>
      /\ entries' = RecordAll(es, errs)
      /\ rest' = Unmatched(es, errs)
      /\ errs' = <<>>
      /\ phase' = IF rest' # {} \/ req.dryRun THEN "show" ELSE "transfer"
      /\ todo' = IF phase' = "show" THEN <<>> ELSE plan
      /\ fate' = IF phase' = "show"
                 THEN fate \o [i \in DOMAIN plan |-> [pair |-> plan[i], ok |-> req.dryRun]] ELSE fate
      /\ outputLost' \in {FALSE, req.output = "text" /\ rest' = {}}
      /\ UNCHANGED <<req, dir, opened, touched, memory, plan, writes, code>>

-----------------------------------------------------------------------------
(* Transfer: transfer.Push, or cs.Pull.                                     *)

\* In a push the uploads come first; those that fail are reported against entries in any order.
UploadsFail ==
  /\ phase = "transfer"
  /\ IsPush(req)
  /\ todo = plan /\ plan # <<>>
  /\ errs = <<>>
  /\ \E F \in SUBSET (DOMAIN plan) \ {{}} : \E s \in SetToSeqs(F) :
       errs' = [i \in DOMAIN s |-> plan[s[i]]]
  /\ UNCHANGED <<req, phase, dir, opened, touched, memory, todo, plan, entries, rest, outcome, code>>

\* The next entry is committed, or imported, or fails.  Push commits it also after one of its uploads
\* failed, which stands as its error, and a commit that failed may have been made.
TransferEntry ==
  /\ phase = "transfer"
  /\ todo # <<>>
  /\ todo' = Tail(todo)
  /\ \/ /\ writes' = writes \cup {Head(todo)}
        /\ fate' = Append(fate, [pair |-> Head(todo), ok |-> ~Contains(errs, Head(todo))])
        /\ UNCHANGED errs
     \/ /\ errs' = Append(errs, Head(todo))
        /\ fate' = Append(fate, [pair |-> Head(todo), ok |-> FALSE])
        /\ writes' \in {writes, writes \cup {Head(todo)}}
  /\ UNCHANGED <<req, phase, dir, opened, touched, memory, plan, entries, rest, outputLost, code>>

Transferred ==
  /\ phase = "transfer"
  /\ todo = <<>>
  /\ phase' = "show"
  /\ entries' = RecordAll(entries, errs)
  /\ rest' = Unmatched(entries, errs)
  /\ UNCHANGED <<req, dir, opened, touched, memory, todo, plan, errs, outcome, code>>

\* cli.Copy counts the entries with an error.
Failed == Cardinality({j \in DOMAIN entries : entries[j].fails > 0})

\* renderResults, or renderReport: what there is to write at the end.
Renders == req.output = "json" \/ (req.output = "text" /\ ~req.dryRun /\ entries # <<>>)

\* Mutant: what errWriter keeps is not returned.
WriteErrorDropped ==
  /\ phase = "show"
  /\ outputLost' \in {outputLost, outputLost \/ Renders}
  /\ Exits(IF Failed = 0 /\ rest = {} THEN "nil" ELSE "failure")
  /\ UNCHANGED <<req, dir, touched, memory, todo, plan, errs, entries, rest, writes, fate>>

\* An error is returned for failed entries, a failure of no entry, or output that was not written.
Show ==
  /\ phase = "show"
  /\ outputLost' \in {outputLost, outputLost \/ Renders}
  /\ Exits(IF Failed = 0 /\ rest = {} /\ ~outputLost' THEN "nil" ELSE "failure")
  /\ UNCHANGED <<req, dir, touched, memory, todo, plan, errs, entries, rest, writes, fate>>

CopyNext ==
  \/ CheckUsage \/ OpenStorage \/ OpenStore \/ PlanEntry \/ Planned
  \/ UploadsFail \/ TransferEntry \/ Transferred \/ Show

CopySpec == CopyInit /\ [][CopyNext]_copyVars

-----------------------------------------------------------------------------
(* Properties.                                                              *)

Pairs == Refs \X Platforms

CopyTypeOK ==
  /\ req \in Requests
  /\ phase \in {"check", "open", "locate", "plan", "transfer", "show", "exit"}
  /\ {dir, memory, outputLost} \subseteq BOOLEAN
  /\ opened \subseteq touched /\ touched \subseteq {"cs", "store"}
  /\ writes \subseteq Pairs
  /\ {todo, plan, errs} \subseteq Seq(Pairs)
  /\ rest \subseteq Pairs
  /\ entries \in Seq([ref : Refs, platform : Platforms, planned : BOOLEAN, fails : Nat])
  /\ fate \in Seq([pair : Pairs, ok : BOOLEAN])
  /\ code \in {Running, 0, 1, 2}

\* The number of failed pairs among those that became entry j.
Failures(pair) == {i \in DOMAIN fate : fate[i].pair = pair /\ ~fate[i].ok}

\* "Entries holds one result per image and platform, in request order" (copy.go:74): whatever the
\* order in which uploads and entries fail, before or after the plan, an entry shows a failure when
\* and only when its own image and platform failed.  A request that names a platform twice is
\* outside of this: see FailuresCounted.
EntryShows ==
  phase = "exit" /\ entries # <<>> /\ IsInjective(req.platforms) =>
    /\ rest = {}
    /\ [j \in DOMAIN entries |-> <<entries[j].ref, entries[j].platform>>] = Asked
    /\ \A j \in DOMAIN entries :
         /\ entries[j].planned <=> Contains(plan, Asked[j])
         /\ entries[j].fails > 0 <=> Failures(Asked[j]) # {}

\* ExitCode (exit.go:37): 0 when every image and platform asked for is at the destination, or
\* planned in a dry run, nothing failed on the way, and the output was written, and only then; 1 for
\* what the command line itself gets wrong, and then nothing was opened (copy.go:80).
ExitTells ==
  phase = "exit" =>
    /\ code = 0 =>
         /\ \A pair \in ToSet(Asked) : pair \in writes \/ (req.dryRun /\ Contains(plan, pair))
         /\ \A i \in DOMAIN fate : fate[i].ok
         /\ ~outputLost
    /\ entries # <<>> /\ ~outputLost /\ (\A i \in DOMAIN fate : fate[i].ok) => code = 0
    /\ code = 1 => touched = {} /\ (Usage(req) \/ ~req.cached)
    /\ Usage(req) => code = 1

\* "emptyIfMissing serves a missing filesystem store as an empty one, without creating it"
\* (service.go:169), "a usage error returns before anything is opened" (copy.go:80), and a dry run
\* transfers nothing: only a push that is none makes a directory, only a copy that is none writes,
\* and it never writes into the store in memory.
TouchesOnlyAsked ==
  [][ /\ touched' # touched => ~Usage(req)
      /\ dir' # dir => IsPush(req) /\ req.dst = "file" /\ ~req.dryRun
      /\ writes' # writes => ~req.dryRun /\ ~memory' ]_copyVars

\* "text and JSON output, which already show each entry's failure, the returned error only counts
\* the failed entries" (cli/copy.go:49): as many as there are failed entries.
FailuresCounted ==
  phase = "exit" /\ entries # <<>> => Failed = Cardinality({i \in DOMAIN fate : ~fate[i].ok})

-----------------------------------------------------------------------------
(* The inductive invariant: what has become of each pair so far, and where  *)
(* each failure is waiting to be shown.                                     *)

Fated(pair) == \E i \in DOMAIN fate : fate[i].pair = pair
Marked(pair) ==
  \E j \in DOMAIN entries : <<entries[j].ref, entries[j].platform>> = pair /\ entries[j].fails > 0

Opening ==
  /\ phase \notin {"check", "exit"} => ~Usage(req)
  /\ phase \in {"check", "open", "locate"} =>
       /\ todo = <<>> /\ plan = <<>> /\ errs = <<>> /\ fate = <<>> /\ ~outputLost
  /\ phase \in {"check", "open"} => touched = {}
  /\ phase \in {"check", "open", "locate", "plan"} => entries = <<>>
  /\ phase \notin {"transfer", "show", "exit"} => writes = {}
  /\ memory => req.dryRun
  /\ phase = "transfer" => ~req.dryRun

\* No pair is lost on the way from the request to its fate.
PairsKept ==
  /\ ToSet(todo) \cup ToSet(plan) \cup ToSet(errs) \subseteq ToSet(Asked)
  /\ \A pair \in ToSet(Asked) :
       /\ phase = "plan" => Contains(todo, pair) \/ Contains(plan, pair) \/ Fated(pair)
       /\ phase = "transfer" => Contains(todo, pair) \/ Fated(pair)
       /\ phase = "show" \/ code = 0 => Fated(pair)

\* Every error collected is of a pair that failed, or will: its upload did; every failure is
\* collected or recorded, and nothing else is recorded.
FailuresKept ==
  /\ rest = {}
  /\ phase = "plan" => \A pair \in ToSet(errs) : Failures(pair) # {}
  /\ phase = "transfer" => \A pair \in ToSet(errs) : Contains(todo, pair) \/ Failures(pair) # {}
  /\ \A i \in DOMAIN fate : ~fate[i].ok =>
       \/ Marked(fate[i].pair)
       \/ phase \in {"plan", "transfer"} /\ Contains(errs, fate[i].pair)
  /\ \A j \in DOMAIN entries :
       entries[j].fails > 0 => Failures(<<entries[j].ref, entries[j].platform>>) # {}

EntriesOfPlan ==
  phase \in {"transfer", "show"} \/ entries # <<>> =>
    /\ DOMAIN entries = DOMAIN Asked
    /\ \A j \in DOMAIN Asked :
         /\ <<entries[j].ref, entries[j].platform>> = Asked[j]
         /\ entries[j].planned <=> Count(plan, Asked[j]) >= Count(SubSeq(Asked, 1, j), Asked[j])

Exited ==
  /\ phase = "exit" <=> code # Running
  /\ phase = "exit" => opened = {}
  /\ code = 0 => ~outputLost /\ \A j \in DOMAIN entries : entries[j].fails = 0
  /\ code = 1 => touched = {} /\ (Usage(req) \/ ~req.cached)
  /\ code \in {1, 2} /\ entries # <<>> /\ ~outputLost => \E j \in DOMAIN entries : entries[j].fails > 0
  /\ phase = "exit" /\ Usage(req) => code = 1

CopyInv == CopyTypeOK /\ Opening /\ PairsKept /\ FailuresKept /\ EntriesOfPlan /\ Exited

\* What did not fail is where it was to go.
Delivered ==
  \A i \in DOMAIN fate : fate[i].ok =>
    fate[i].pair \in writes \/ (req.dryRun /\ Contains(plan, fate[i].pair))

\* When no platform is asked for twice, a pair waits in one place or has its fate, once.
PairsIn(f) == [i \in DOMAIN f |-> f[i].pair]

OnceInv ==
  IsInjective(req.platforms) =>
    /\ IsInjective(todo) /\ IsInjective(plan) /\ IsInjective(PairsIn(fate))
    /\ ToSet(PairsIn(fate)) \subseteq ToSet(Asked) \ ToSet(todo)
    /\ phase = "plan" => ToSet(plan) \cap (ToSet(todo) \cup ToSet(PairsIn(fate))) = {}
=============================================================================
