# TLA+ specifications of git-fixed

`git-fixed` checks a git repository the way `git fsck` does and then repairs what it found. This directory holds TLA+
modules that model it, the configurations TLC checks them with, and proofs that TLAPS checks. `PROJECT.json` is the
index: the components, the runs, the line of code each definition stands for, the mutants that show a property can
fail, the disagreements found, the hazards, and the theorems.

## The system

One process, one repository, no lock. The command (`src/cmd/git-fixed/main.go`) runs a full fsck, hands its verdict to
`repair.Run`, and reports. The parts, what each keeps, and what makes it correct:

| part | state | operations | what must hold |
|---|---|---|---|
| scanner walk, `internal/repair/walk.go` | `seen`, a bag of queued objects, `pending`, the map of bad objects, `found`, `stop` | `want`, `walkWorker`, `note`, `recordNeed`, `descend` | the walk ends; it reports exactly what will not read; no object is read twice |
| repair run, `internal/repair/repair.go` and the files beside it | the damage of the last scan, what was put back, what is stuck, the scratch repository of the remote | scan, displace caches, empty and displace packs, rewrite `packed-refs`, passes over objects, references, index, verify | nothing readable becomes unreadable; the report is what is left; the run ends; Ok means whole |
| quarantine, `internal/repair/quarantine.go` | a directory and a manifest for each run | `Take`, `Undo`, `move` | nothing is lost; a manifest lists what was taken; an undo puts it back |
| remote source, `internal/repair/sources.go`, `remote.go` | `asked`, `everything`, a scratch repository and the database that reads it | `Prime`, `want`, `fetchByName`, `reopen` | each name is asked once and every ref fetched at most once; one refusal does not lose the rest |
| connectivity, `internal/fsckcmd/connectivity.go` | flags on objects, a shared stack, `active`, a stack per worker | `traverseReachable`, `markLinkInto`, `markUnreachableReferents`, the report | every wake-up arrives; exactly the reachable is marked; each broken link is blamed once |
| fsck run, `internal/fsckcmd/run.go`, `objects.go`, `heads.go` | the error word, the list of damaged objects | the phases, `noteDamaged`, the verdict | the list is whole or says it is not |
| object table, `internal/fsckcmd/objtable.go`, `edgearena.go` | shards of slots, slabs of entries, slabs of edges, flags and types | `Get`, `Lookup`, `SetType`, `SetEdges`, growth | an entry is made once and stays where it is; a type settles; edges lead to what the object names |
| reading an object, `internal/odb/db.go`, `cache.go` | packs, object directories, a cache of delta bases in shards with a limit | `Find`, `Read`, `readBase`, `TypeInPack`, `get`, `put` | an answer is the object's content, whoever else reads and whatever is cached |
| verifying a pack, `internal/odb/verify.go`, `deltawalk.go` | a layout of the deltas, a counter roots are claimed with, a memory budget | `Verify`, `checkCRCs`, the delta walk | every entry is delivered or reported once; the budget is neither exceeded nor waited for by all |
| meter, `internal/progress` | counters advanced by every worker, a flag raised by a timer, a lock to draw under | `Step`, `Advance`, `raise`, `draw`, `Finish` | it does not run backwards, and its last line is right |
| grammar and formats: `internal/fsck`, `internal/gitrepo`, `internal/gitconfig`, `internal/gitpath`, `internal/zlibmsg`, `internal/parseopt` | none | parsers | out of scope here: one input at a time, compared with git by the repository's differential tests |

They interact by calls: `Run` calls the scanner, the quarantine, the sources and the fsck; the sources call the object
database and the remote. Goroutines share memory inside one walk, one object
pass, one traversal or one pack verification, and through the object database and the meter that all of these use.
The repository on disk is shared with everything else on the machine and survives the process, so the hard behaviours
are of two kinds: workers that must agree when they are done, and a process that is killed between two files.

## The modules

| module | models | steps |
|---|---|---|
| `RepairWalk` | one call of `scanner.walk`, first scan or descent, search or hunt | one atomic operation of one goroutine |
| `Connectivity` | `checkConnectivity` from the roots on | one critical section, or one `SetFlag`, of one goroutine |
| `Quarantine` | `Take` and `Undo` over a file system of contents | one rename, one stage of a copy, one stage of writing the manifest |
| `Diagnosis` | the fsck before a repair, with default options, and the first scan that trusts its verdict | one copy of an object taken, one link looked up, or one phase |
| `RepairRun` | `Run` over the state of the disk, several runs one after the other | one file moved or written, or one scan |
| `PackStore` | what a database holds and what each of its objects is | none: operators |
| `ObjectReads` | what `DB.Read` promises its callers | one question, one answer |
| `PackRead` | `Read`, `readPacked` and `readBase` by several workers through the cache | what is done between two uses of a shard's lock |
| `DeltaWalk` | `Verify` of one pack, with the walk down the delta forest | what a worker does up to the next use of a shared counter |
| `ObjTable` | the object table and the edge arena under the object pass | one use of something shared |
| `RemoteRung` | what the last rung of the recovery ladder promises a run | one question, one answer |
| `RemoteSource` | `Prime` and the scratch repository it fetches into | one git command |
| `Meter` | the progress meter of one phase | one use of an atomic or of the lock |
| `RepairWalkProofs`, `ConnectivityProofs`, `QuarantineProofs`, `PackReadProofs`, `DeltaWalkProofs`, `RemoteSourceProofs`, `RepairRunProofs`, `FsckProofs` | proofs; `FsckProofs` is about `Diagnosis`, `Meter` and `ObjTable` | |
| `MC...` | instances of these for TLC | |

Three of them meet: `PackRead` implements `ObjectReads`, `RemoteSource` implements `RemoteRung`, and `RepairRun` takes
its step `Prime` from `RemoteRung`. The others are joined by what they show of each other: `RepairRun` takes a scan to
find exactly what does not read, as `RepairWalk` shows; `Diagnosis` takes a traversal to mark exactly what is reachable,
as `Connectivity` shows, and a lookup to find one entry for each object, as `ObjTable` shows; a read in all of them is
`ObjectReads`.

**RepairWalk.** `seen`, `pending`, `anyBad`, `found` and `stop` are the scanner's own. The bag is a set because `TryAdd`
on `seen` lets an object in once; which element `TryTake` gives is left open, as it is in the code. A worker's `pc`
names the operation it does next: `CheckStop`, `TryTake`, `CheckPending`, `ReadObject`, then for each link `WantNext`
(the `TryAdd`), `CountLink` (`pending.Add(1)`) and `QueueLink`, or for an object that does not read `Note`,
`CountFound`, `StopWalk`, `RaiseFlag`, and `Finish` (`pending.Add(-1)`). The repository is chosen in `Init` and never
changes. Links the code skips as invalid names, and gitlinks, are not links of the model.

**Connectivity.** `RunDry`, `FindDry` and `TakeBatch` are the three outcomes of the critical section of a worker whose
own stack is empty; `Leave` is the broadcast after the unlock; `Pop`, `MarkLink`, `HandBack` are the rest of the loop.
`cond.Wait` is the `pc` value "wait", which a broadcast turns into "lock". The stacks are sets. `checkConnectivity` is
the sequential report after `wg.Wait`, with `markUnreachableReferents` before it.

**Quarantine.** A content is a path and the number of the write that made it, so that losing one can be seen. `Foreign`
paths are on another file system: `os.Rename` fails for them and `move` copies with `O_EXCL` and removes. The manifest
is written by `os.WriteFile`, which truncates first, so a manifest may be "cut short". Runs are named by the second, and
each run of the model has a second of its own.

**Diagnosis.** The repository is chosen in `Init`: for each object its type, its links with the type each expects, its
copies (loose, in an alternate, in the pack), and beside them references, reflogs, an index and the faults the other
checks find. In the object pass up to `Workers` copies of one place are checked at a time: `TakeCopy` is the read, the
`Lookup` of the object under its own type and the setting of `flagHasObj`; `ResolveLink` is the `Lookup` of one link;
`EndCopy` is the rest of `checkObject`. A pack entry that is not good is one that `Verify` reports (`EntryReported`), or
one on or above a cycle of deltas ("ring"), which the walk from the entries without a parent never reaches; and two
kinds are judged differently by `Verify` and by `DB.Read`: an entry whose base is in another pack ("thin"), which only a
read resolves, and one on a chain longer than `maxDeltaChain` ("deep"), which only `Verify` decodes. The links of an
object are resolved in any order, where the code takes them in the order of the content. The other phases are one step
each, since only the main goroutine runs, except connectivity, whose traversal is the subject of `Connectivity` and is a
closure here. The parsers are predicates on the repository: a file reads or not, an object parses or not, a check
complains or not. `Scan` is the first scan: whether it walks, and how much of the damage it must find, by `WalkExact` of
`RepairWalk`. `RunAgain` diagnoses the same repository once more, which is how a property can speak of the order of the
workers.

**RepairRun.** The disk is a record: for each object its loose file, its file in an alternate and its entry in each
pack (`none`, `good` or `bad`), for each pack whether it opens and verifies, what `objects/info/packs` lists, which
caches are broken, each reference and its value, `packed-refs` with the lines of it that do not read, and each worktree's
index. A line that does not read is what it stood for and what it still names: nothing, one reference, or several when
two lines have become one. `RestoredRefs` is what `repairPackedRefs` gets back by those names, from the file of the
reference or from its reflog, and `droppedRefs` is the code's own count, lines less references. `Reads` is `DB.Find` and
`DB.Read`: the first pack that lists the object answers, even with a bad entry, and only then a file. A scan is one step,
because it writes nothing; that its concurrent walk finds exactly what does not read is what `RepairWalk` shows, and
`Walked` is the same closure as `Reach` there. What the caller's fsck hands over is taken to be true of the disk, so a
first scan with a verdict and one without find the same; `SkipIsSafe` of `Diagnosis` says where that is so, and names
four exceptions, in which what the first scan of a run finds can be less than `ScanOf`. What a remote may answer is
`Outcomes` of `RemoteRung`. An error that ends the run is, for the disk, a kill.

Left out of `RepairRun`: `--dry-run`, the content of an index (an index reads or does not), symbolic references, and the
lines of `packed-refs` beyond which references they hold or name, and an unreadable line that names a reference whose own
file is malformed. Pack entries that the check of a pack and a read by name judge differently (`PackCopy` of `Diagnosis`)
are left out too: an entry here is good or bad for both. Everything `Take` does besides moving the file is in
`Quarantine`; `kept` and `over` only note which paths a run took.

**PackStore, ObjectReads, PackRead.** The content of an object is the sequence of entries it was made from, its own
first (`IsContent`): two contents are the same bytes when they are the same sequence. `ObjectReads` says what an answer
may be: a content, or a refusal when no chain within the limit yields one (`InReach`). In `PackRead` a worker has a
stack of calls, a `Read` for a name and a `readBase` for a base in the same pack; `ReadWhole`, `BaseCached`,
`BaseMissed` and `BaseElsewhere` are the ways a call goes on, and `Return` is the end of one, with the put into the
cache. `DB.bad` is left out: `markBad` and `MarkBadPacked` write it, and nothing in the package reads it. `Put` and
`Touch` are `deltaCache.put` and `get` on the map, the list and the size of a shard. `Info` is left out.

**DeltaWalk.** A pack is the header of each entry, the size and state of each object, and its hashes and checksums. While
`HashPack` runs, the layout is made (`ReportBad` reports what has no place in it and all that stands on it), `CheckBatch`
compares checksums, and `Claim`, the steps of `spread` and `Rebuild` walk down from each root. What is put off goes to
`deferred` and is decoded again. An entry may go bad while the pack is walked (`fragile`), which is a file changing under
the mapping. A size is a number of units of the budget.

**ObjTable.** A slot has a key and an index; several objects may share a key. `slabs` is the list that is replaced when
it grows, and `heap` what each slab holds, so that a worker with the old list can be told from one with the new. A
lookup holds the lock of its shard for all its steps but runs beside the others. The room for the edges of an object is
cut from a chunk, which a worker takes from the pool or makes, and the pool may lose it. The rejection of objects that
do not parse, the other flags and `markForConnectivity` are left out.

**RemoteRung, RemoteSource.** The rung is asked for names and answers with objects, or fails for good. `RemoteSource`
has a step for opening the scratch repository, each batch fetched by name, the reopening of its database, and the fetch
of every ref; each may fail. git may keep what it fetched as a pack, which the open database does not see, or loose.

**Meter.** `Call` is the entry of `Step` and `Advance` with the first atomic; the steps up to `Draw` are the atomics of
`report`, `raise` and `draw`, in order; `DelayOver`, `Tick` and `TickerStops` are the goroutine of the timer. A line is a
count, a total, a percentage and whether it is the last one.

## What TLC checks

A property named `Bookkeeping`, `ReportRight`, `Manifested`, `CostOfDisplacing`, `VerdictHolds`, `ScreenRight` or
`PhaseEnds` is the conjunction of the named parts above it in its module, among them the module's types.

Passing runs:

- **walk** - two workers, every acyclic graph of three objects, with roots {1} or {1, 2}, every set of readable objects,
  at most one proven blob, every carried table, and hunts for as many objects as there are or one more. Two workers are
  the fewest that race, and three objects the fewest in which one worker is between two objects of another; all
  interleavings of both are covered. `WalkExact` is the result; `PendingExact` and `ExitMeansOver` are why it holds.
- **connectivity** - three workers, so that two can sleep while one works; a batch of one, so that a fan of four objects
  makes a surplus and `HandBack` happens; every choice of which objects are there, with and without
  `--connectivity-only`.
- **quarantine** - two runs, two paths of which one needs a copy, at most four contents (`MaxWritten`), kills and failed
  copies anywhere, undos of either run in any order, a path written to in between. Bounding the contents bounds the
  history: without it undos and rewrites go on for ever.
- **repair_objects** - every way three objects can be held loose and in one pack, which is sound, has a bad header or
  does not open, beside a pack that may shadow the tree (then with the old commit good in both places): 3159 first
  disks, one run, and a remote that has the commits.
- **repair_whole** - 976 disks with damage of every kind at once (caches, packs, `packed-refs`, references, indexes of
  two worktrees, a file in an alternate), a run killed anywhere or not at all, and a second run after it (`MaxRuns` =
  2). The lines of `packed-refs` that do not read name their reference, are two parts of one line, name the reference of
  a file that has replaced them, or have run into such a line, of which the name is all that is left.
- **diagnosis** - two workers, 7692 repositories of three objects: every way to hold them loose with most ways to hold
  them in a pack, a copy of the blob in an alternate, references and reflogs to different ones, links that expect the
  wrong type, objects that do not parse, pack entries of every kind in `PackCopy`, references straight to a blob that a
  tree names as `.gitmodules`, and every fault of the other checks; each diagnosed twice (`MaxRuns`).
- **packread** - two workers read any of four objects, again and again, from thirteen databases of two packs: a chain
  one longer than the limit (`MaxDeltaChain` = 2), a cycle, a fan, bases in the other pack, loose or missing, a pack
  that does not open. The cache has two shards with room for two units: an entry evicts two, one is larger than a shard,
  and two workers race to put the same base.
- **deltawalk** - two workers, packs of nine entries in two trees of deltas of every shape on five entries beside two on
  four, and a budget of two units (`Budget`): both workers run out, at two levels, and put off a base under a base they
  put off. Entries that do not decode, hash or match, that go bad during the walk, headers that do not read, a cycle.
  Checksums are claimed four at a time (`Batch`), so that one batch is short.
- **objtable** - two workers, five objects in two shards that start with two slots, slabs of two entries and of three
  edges, keys that collide, and a limit on indexes (`MaxIndex` = 3) that one repository runs into: shards double, the
  list of slabs is replaced and chunks run out in the middle of a lookup by the other worker.
- **remote** - three passes (`MaxPasses`), each with one of four lists of damaged objects, two names to a batch
  (`WantBatch`), and a remote that has all but one of five objects, refuses names or fails at any command; under a run
  and under a plan.
- **meter** - two workers that step, or that advance out of order, before a last advance by the owner; totals that are
  absent, too low, right and too high; with and without a delay.

Fairness is weak fairness of each worker (`RepairWalk`, `Connectivity`, `PackRead`, `DeltaWalk`, `ObjTable`, `Meter`):
Go's scheduler preempts, and a worker that finds nothing yields or sleeps on a condition variable, which is modelled; a
lock is held for a bounded number of steps, and none of these properties needs that a particular waiter gets it. It is
also weak fairness of the goroutines beside them: the one that hashes a pack, the one that joins the workers, the one
that takes the next place, `Finish`. Of the meter's timer only the first tick and the end are fair, since a phase may be
over before the second. In `RepairRun` it is weak fairness of the one process: nothing in `Run` waits for anything but a
fetch, which ends or fails, and a kill ends it too. In `RemoteSource` it is that of `want`, for the same reason; a run
may stop between two passes. `Quarantine` and `Diagnosis` have no liveness property: the first does what it is told, and
the second is a straight line of phases around loops over finite lists.

Two runs check a refinement, its liveness included: `ReadsAsIfAlone` (**packread**) and `ImplementsRung` (**remote**).

`CHECK_DEADLOCK` is never turned off: a module that may rest has an action that says when.

Every property of a passing run has a mutant, a plausible mistake in one definition, under which TLC finds it violated.

## Where the code and its documentation disagree

One disagreement has a run that TLC must find violated; `findings` in `PROJECT.json` quotes the sentence:
**repair_malformed** (`MalformedRefsRestored`), a run that put an object back skips references and index
(`repair.go:258`), where `docs/repair.md:165` lists both as later steps. The others were met while modelling; where it
matters, the property that does hold names the exception.

Repair:

- A run killed between a move and its manifest entry cannot be undone for that file (`quarantine.go:96`), where
  `docs/repair.md:170` has an interrupted run still undoable. `KillCostsOne` is what is left of it.
- The good copy of an object in an alternate is displaced along with the bad loose file (`walk.go:260`, against
  `walk.go:67`). `StaysReadable` names it.
- The good copy of a blob in an alternate is not used (`sources.go:201`, against `docs/repair.md:107`);
  `CopiesUnusedOnlyOfBlobs` says that this happens to blobs alone.
- A search that reaches a damaged object between another worker's `TryAdd` and its `note` drops its route (`walk.go:104`;
  `docs/repair.md:193` says a search reports every route). `RoutesReal` is what holds: the routes reported are real.
- An undo that was killed and is run again overwrites what it had set aside (`quarantine.go:188`);
  `OverwritesOnlyReplaced` says that nothing else is overwritten.
- Two runs in one second share a directory, and the second writes its manifest over the first one's
  (`cmd/git-fixed/quarantine.go:17`).
- A path taken twice in one run is overwritten in the quarantine; `TwiceOnlyShadowed` says when.
- Two lines of `packed-refs` become one, of which only one name is still a word. The reference of that name comes back,
  the count of dropped lines is 1 - 1 = 0 (`repair.go:115`), and the run is Ok with the other reference gone, where
  `docs/repair.md:303` has anything unaccounted for keep a run from claiming success. `SingleLinesKept` is what holds: an
  Ok first run has every reference in place when each line that did not read was one line. The condition is on all lines,
  because one line that gives two references back makes up for another that gives none.
- A run killed while rewriting `packed-refs` loses the references, and the next run is Ok (`packedrefs.go:95`), against
  the same sentence and `packedrefs.go:61`. That is why `SingleLinesKept` is about a first run.
- A malformed reference is restored to the newest reflog entry that reads at that moment, which may be older than a
  commit that is only missing (`refs.go:33`).
- A run that displaced a pack leaves `objects/info/packs` stale; `StaleOnlyByDisplacing` says that nothing else does.
- A fetch of every ref tells the remote what was fetched by name, and is not sent what lies below that, but "Every ref
  came back already, so there is no name left to ask about" (`remote.go`): an object the remote has can be given up with
  no error. `HadOrExplained` and `SourcesExhausted` name the exception.

Fsck:

- A pack whose entry is on a cycle of deltas, above one, or on a chain longer than `maxDeltaChain` passes its check; the
  object is then not asked about again, since a pack lists it (`connectivity.go:199`, `connectivity.go:260`). The status
  is 0 and the list is whole and empty, so the scan skips its walk, and what the references lead to does not read, where
  `repair.go:59` says it was "there and readable". `PassedOver` is the exception for these entries in `ListAccounts`,
  `CleanMeansThere` and `SkipIsSafe`.
- A corrupt loose object that only a reference names is on no list, and the walk that would find it is skipped
  (`heads.go:94`, against `docs/repair.md:189`): the object pass has noted it as damage that counts only when something
  reachable leads to it, and a reference is not looked at for that. The same happens to a blob that is missing when a
  reference leads straight to it and an unreachable tree names it as `.gitmodules` or `.gitattributes`, since
  `finishDeferredBlobs` notes it first (`objects.go:192`). `UnreadTips` is the exception in `ListAccounts` and
  `SkipIsSafe`; that it has these two kinds was found in the proof of `ListAccounts`.
- A link that expects the wrong type, or a `.gitmodules` that is good in a file and bad in a pack, makes the verdict
  depend on which worker came first, where `docs/output-ordering.md` has one output for a given repository;
  `OrderIsHidden` says that nothing else does.
- The fsck starts from the references of the common directory and the scan from those of every worktree as well, so what
  only a linked worktree's own reference (`refs/bisect`, `refs/worktree`) leads to is on no list.
- Bit 256 of the status word does not survive `os.Exit` (`main.go:38`): with an unreadable index and nothing else wrong,
  `--dry-run` exits with 0, which `docs/exit-status.md:17` reserves for a sound repository.

Object database and meter:

- A cycle of deltas by name that goes through two packs never ends, since a base in another pack is read from depth 0
  again (`db.go:330`, against "maxDeltaChain bounds delta recursion", `db.go:295`). No database of **packread** has one;
  `AnswersAsAlone` holds of those too, because it says nothing of reads that do not end.
- Whether an object whose chain is longer than `maxDeltaChain` reads depends on what is cached (`db.go:300`).
  `ObjectReads` lets it be read or refused.
- Entries on a cycle of deltas in one pack, and above one, are neither delivered nor reported, and `Verify` returns true
  (`docs/pack-verification.md` speaks of a forest). `NothingPassedOver` is about the entries of the forest;
  what becomes of the others in a run is the first entry under "Fsck" above.
- The percentage falls back when the total turns out too low and is raised; `docs/progress.md` has "a meter only ever
  goes forwards", which is so of the count and the total (`OnlyForwards`).

`StaysReadable` allows besides for an object another pack lists with a bad entry, because displacing the first pack lets
the second answer.

## What is proved

`RepairWalkProofs`, for every set of objects, graph, number of workers, and every carried table and hunt that satisfies
`RepoAssumption`: objects and workers are finite, there is a worker, a proven blob reads and names nothing, and an fsck
that named damage named at least the damage the roots lead to.

- `TypeCorrect`: `Spec => []TypeOK`.
- `PendingIsExact`: `Spec => []Bookkeeping`, that is `TypeOK`, `PendingExact` and `ExitMeansOver`.
- `ReadsOnce`: `Spec => []ReadOnce`.
- `ReportIsExact`: `Spec => []WalkExact`.
- `RoutesAreReal`: `Spec => []RoutesReal`.

None of these is inductive alone. The invariant `IInv` says in addition that an object is in at most one of bag, hands
and on its way in (`Distinct`), that everything in one of these went through `seen` (`ThroughSeen`), how far a worker is
with its object (`Progress`), that every seen object is carried, in one of these places, or settled - noted, or with all
its links seen - (`Accounted`), that the walk stays inside what the roots lead to (`Sound`), and that `found` does not
run ahead of the map and `stop` means enough (`FoundBound`, `StopMeansEnough`). `PendingExact` follows from
`OutstandingStep`: the set that `pending` counts gains one object when `pending` goes up, loses one when it goes down,
and otherwise keeps its members; this needs `Distinct`. When every worker has left without a stop, `PendingExact` and
`ExitMeansOver` say nothing is outstanding, so by `Accounted` what was seen and not carried is closed under links, hence
contains `Reach`. When the walk was stopped, `bad` is inside `BadReach` and at least as large. For the routes, `Routed`
says that every object queued or held, and not only what is noted, was queued by an object that reads and names it, or
by a reference; it needs `Distinct`, because `via` of an object must not change while somebody has it.

`ConnectivityProofs`, for every graph, roots and objects that are there, any finite set of workers that is not empty and
any batch: `WorkersAgree` (`Spec => []Bookkeeping`: types, `NobodySleepsThrough`, `LeftMeansOver`, `TraversedOnce`),
`TraversesExactly` (`Spec => []TraverseExact`) and `ReportIsRight` (`Spec => []ReportRight`). `IInv` adds that `active`
is the number of workers that are counted (`CountRight`), what each worker has goes with where it is (`InPlace`), who
leaves has seen an empty stack and nobody counted (`LeftDry`), whatever is to be traversed is flagged and there
(`Flagged`), the flags lie between the roots and what they reach with no link of a traversed object forgotten
(`Traced`), and what is blamed and marked so far (`BlamedSoFar`, `MarkedSoFar`). When all have left, `LeftMeansOver`
leaves nothing to do, so by `Traced` the flagged objects are closed under links, hence contain `Reach`.

`QuarantineProofs`, for any paths, file systems, runs, kills and failures: `ManifestAccounts` (`Spec => []Manifested`:
types, `ListedWhenDone`, `KillCostsOne`), `UndoExact` (`Spec => UndoPutsBack`) and `NothingLost` (`Spec =>
OverwritesOnlyReplaced`). `IInv` says where a process is in a move and that its copy is torn until it is whole
(`Process`, `Moving`), that the quarantine of a run under way holds what the run has taken and its lists name just that,
up to the file being moved (`Taking`), that what a list names and the quarantine still holds is what the run took
(`ListedTrue`), that lists fall short by one file at most and by none when a run returned (`OneOff`, `DoneListed`), that
nothing is in the way of what is about to be put back (`Clear`), and that a file is both set aside and waiting to be put
back only between two moves of one entry, unless an undo of the run was interrupted (`AsideClean`). The last is why an
undo that was never interrupted overwrites nothing: the one rename that could is the one into "replaced", and what is
there has been put back already. A content keeps to its path (`OwnPath`), which makes the exception of `NothingLost`
speak of the right file.

`PackReadProofs`, for all databases, packs, readers, chain limits, shards, lengths and limits of the cache:
`Invariance`; `AnswersAsAlone` (`Spec => Reads!Spec`, the refinement without its liveness), `TypesAlwaysAgree` (`Spec =>
[]TypesAgree`) and `CacheKept` (`Spec => []Bookkeeping`: types and `CacheAgrees`). `IInv` says that each call on a stack
reads the base of the call before it, from depth 0 or one deeper (`Chained`), that the first is a `Read` of what was
asked (`Begins`), that a result is a content of what its call reads, or, when it is a failure, that every content of it
is too long for a call at its depth (`Yields`, `OutOfReach`), and that what the cache holds for a place is a content of
that place (`CacheTrue`). The failure is the hard part: a base that came from the cache has no depth, and a base read by
name begins again at 0. `ChainContent` joins this with the specification: a chain within the limit, all of which
decodes, is a content (by a smallest counterexample, since the chain is a recursive function). `TypesAgree` uses the
refinement: an answer is a content of what was asked (`AnswersRight`), and a content has the kind that the headers down
its chain give it. `CacheKept` needs `CacheRight` beside it: the list of each shard has every place of that shard in the
map, each once, and the size is the bytes of the list and no more than the limit (`Shelf`). The sum is a recursive
function of the list; that moving a place to the front, pushing one and cutting the tail off change it as `size` changes
is `BytesOfBoth`, `MovedShelf`, `KeepInside` and `CutShelf`.

`DeltaWalkProofs`, for every pack of every layout, any workers, budget and batch: `BudgetKept` (`Spec =>
[]Bookkeeping`), `NonePassedOver` (`Spec => []NothingPassedOver`) and `WalkIsExact` (`Spec => []ResultExact`).

- `BudgetKept` has the inductive invariant `Books`: types, what a worker has goes with where it is (`Placed`) and with
  the phase (`Phased`), and `BudgetExact`. Each step of a worker changes what it holds by what it takes or gives
  (`Balances`), and the sum over the workers changes by just that.
- The walk has `Walk`: `Books`; `Tree`; what is settled of the entries that stand on none (`RootsSeen`); nothing
  delivered twice (`Once`); and, while the file did not change, that what is delivered, reported and left to do is so
  rightly (`Right`). `Tree` is the heart. A mark is a base somebody still has children of to visit, and the first of
  these: a frame of a stack, an entry put off, or the one in hand while its place in the budget is handed over
  (`Marks`). `Fits` says that no base has two marks, and that an entry that stands on another is settled exactly if the
  other is and no mark of it leaves the entry to come. Every step moves, adds or removes one mark and settles one entry,
  or a failed base takes all below it (`Goes`). When all have left there are no marks, so what is settled is closed
  under standing on what is settled, and every root is in it; `ForestReached` takes the entries of the forest from that.
- `Verdict` says what `good`, `sums` and `mismatch` are at every phase, for the last part of `NothingPassedOver`.

Chains, children and sums are recursive functions here. What is used of them was proved with least counterexamples over
their domain, `0..N` or the length of a sequence: `ChainLeast` (a chain is the least set closed under bases),
`ChildrenOf` lists each child once and in order, and a sum changes by what one of its terms changes.

`RemoteSourceProofs`, for any names, links, remote, passes and size of a batch, and any number of passes:
`NothingAskedAgain` (`Spec => []Bookkeeping`: types, `AskedOnce`, `CopiedOnce`), `NeedIsMetOrExplained` (`Spec =>
[]HadOrExplained`) and `PrimeIsOneStep` (`Spec => Rung!Spec`, the refinement without its liveness). `IInv` says where
`Prime` may be for the flags (`Places`), that before a round all that is here is seen and each name of it was asked for
(`Settled`), that a round brings what lies below names it was for (`Came`), that what is still to send was not sent
(`ToSend`), and that a name once sent is kept, or there is no further round (`Sent`). A `Prime` of many batches maps to
one step of the rung at its end; until then the rung sees what was here before the round.

`RepairRunProofs`, for every repository that `RunAssumption` allows, every damage that `DamageAssumption` allows, any
remote, any number of runs and kills anywhere: `DisplacingCosts` (`Spec => []CostOfDisplacing`: types,
`StaleOnlyByDisplacing`, `TwiceOnlyShadowed`), `NothingLost` (`Spec => StaysReadable`), `ReportsExactly` (`Spec =>
[]ReportExact`), `GivenUpForCause` (`Spec => []SourcesExhausted`), `OnlyBlobsUnused` (`Spec =>
[]CopiesUnusedOnlyOfBlobs`) and `HealthyKeepsRefs` (`Spec => []SingleLinesKept`). The parts of `IInv`:

- what the loop is over at each place (`Kinds`); a pack that is being emptied has each of its objects still inside or
  loose (`Emptying`), which is why displacing it costs nothing; a damaged pack is still to be looked at, or refused, or
  gone (`Packwise`); what the run took is no longer where it was, or will not be taken again (`KeptTrue`); and what the
  list of packs names and is gone was taken by the run (`ListTrue`).
- `Fresh`, `Pass` and `Ending` carry `ReportExact` from scan to scan. `Exactly(S, B)` says that `S` is what the roots
  lead to and `B` what does not read of it. During a pass it holds of what did not read when the pass began (`Before`),
  and each descent, which walks only below what came back, adds to it just what a walk from the roots would (`Spans` says
  that as a least set, since a walk is a recursive function). That no object is given up too soon is the part of
  `Pass` about `Lost`: what one pass gives up no later one could put back, because no local source has it or will, and
  the remote that did not send it has sent every ref or failed.
- `Sent` is about the remote alone: what came without being asked for, or did not come with every ref, lies below a name
  that was sent and put back. It gives the exception in `SourcesExhausted`.
- `RefsTrue` accounts for each reference of a first run that is not in its place: its line did not read and it has not
  come back (`LostLine`), or it is in hand; and what has come back was named by such a line (`NamedBack`). When every
  line is single, the line of a lost reference gives nothing back, and the references that came back go one to one into
  the other lines, so that the count is not 0 (`LostCounts`).

A `Prime` is one step here, by `PrimeIsOneStep` of `RemoteSourceProofs`.

`FsckProofs` about `Diagnosis`, for every repository that `RepoAssumption` of `Diagnosis` allows, any number of workers
and diagnoses: `DiagnosisCorrect` (`Spec => []DiagnosisInv`), `VerdictIsSo` (`Spec => []VerdictHolds`: types,
`ListAccounts`, `CleanMeansThere`), `SkippingIsSafe` (`Spec => []SkipIsSafe`) and `OrderDoesNotShow` (`Spec =>
[]OrderIsHidden`). The invariant has two halves.

- What the run has noticed. An object that was taken is what its name says, with its links recorded, refused or still in
  hand (`Recorded`); whatever lies behind the run has left its mark in the status or on the list (`Noticed`, over
  `Handled`: this copy of this place is done); damage that nothing may lead to is a file that is there or a blob a tree
  named (`Listed`); what references, index and traversal have left behind (`Started`, `Indexed`, `Followed`); and what
  the verdict and the scan made of it (`Concluded`). These parts are carried by `Growth`: the table, the list, the
  marks and the status only grow in a run. `ListAccounts` then follows from the set of what is marked or on the list as
  rooted: it has the references, and as the list is whole it is closed under the links of what was walked, so it
  contains the search, and what of it does not read is wanted on the list.
- What each phase comes to (`Determined`), where `Settled` holds: `TheVerdict` is a definition over the repository alone,
  phase by phase (`PassStatus`, `HeadDamage`, `FullReach` and the others). `Exact` says that at the start of each phase
  the state is what it says. During the object pass the state is between two of them: no entry has the wrong type
  (`Resolved`), every good copy that is done was taken or complained of (`Treated`), the special blobs are among those
  the trees name (`Called`), and nothing has been said that will not be so at the end (`Tallied`). When no copy is left
  the two bounds meet, in whatever order the copies went.

About `ObjTable`, for every repository, any workers and shards, every assignment of keys, any slab sizes and limit:
`TableInOrder` (`TableSpec => []TableInv`), `TableFindsItsObjects` (`TableSpec => []Bookkeeping`: types, `TableFinds`,
`ProbesEnd`), `EdgesLeadRight` (`TableSpec => []EdgesLead`) and `EntriesStayPut` (`TableSpec => EntriesStay`). The
invariant has two halves here as well; TLC found it to hold on the instance of **objtable**.

- The table: a probe for what is in a slot meets no empty slot before it (`NoGaps`), each slot has the key of its entry
  (`SlotsFit`) and each object one slot (`OneSlotEach`), so `Get` finds what is there (`GetThat`) and the slot of what is
  not there is empty (`HitEmpty`). That there is an empty slot at all is `ProbesEnd`, which `MustGrow` keeps. An object
  that was not found is still not there when it is entered, because the lock is held (`NewToShard`); a claimed index is
  in one slot or one worker's hands (`Numbered`), and an entry that nobody has filled in is blank (`Untouched`). A rehash
  is a recursive function; that it leaves the same slots with no gaps (`RehashRegrows`) is shown with the smallest number
  of slots put back for which it would not.
- The edges: a chunk has its slab to itself (`Chunks`), the room a worker cuts is apart from that of the others, from
  what is recorded and from what is still to be cut (`Rooms`), and each edge written so far leads where its link asks
  (`WrittenLead`, `RecordedLead`). What a link leads to is unique (`LeadsUnique`), a type once settled staying as it is;
  therefore a second walk of an object, which writes its edges to new room, leaves `Edges` as it was. An edge is
  unresolved only because of a type that has settled, which cannot be undone (`LeadsStay`).

About `Meter`, for every phase, any workers and any calls: `ScreenIsRight` (`MeterSpec => []ScreenRight`) and
`LinesGoForwards` (`MeterSpec => OnlyForwards`). `MeterInv` says that what a caller has in hand is what its place in the
code has tested (`Fits`) and is not ahead of the counters (`Behind`), that who draws has the lock (`Locked`), and that
the line on the screen is behind the counters and behind whoever draws next (`LineBehind`). That a larger count of the
same total is no smaller percentage (`PercentGrows`) is the arithmetic under it.

Only the assumptions of the modules are used: `RepoAssumption`, `ConnectivityAssumption`, `QuarantineAssumption`,
`PackStoreAssumption`, `PackReadAssumption`, `DeltaWalkAssumption`, `RemoteAssumption`, `RunAssumption`,
`DamageAssumption`, `MeterAssumption` and `ObjTableAssumption`, each of which TLC evaluates on its instance.
`DamageAssumption` says of the disk a first run finds only what makes it one: no reference has been taken away, the
`packed-refs` that holds a reference is there, a reference it holds that does not read is in a line that does not, which
makes it a file that git refuses, and no such line names a reference whose own file is malformed.
`ObjTableAssumption` has two slots or more in a new shard (`objShardMin` is larger) and a key and a shard for each name.
That a run has at least one pass is part of `RemoteAssumption`.

Only model-checked: everything under fairness (that walks, traversals, reads, verifications, object passes and phases
end, and the liveness half of both refinements), which the provers cannot do; `CountExact` and `LastLineStands` are of
these, being part of `PhaseEnds`, and so is `EveryObjectWalked`. Every invariant and action property of a passing run is
proved. The properties of a run that follows another are proved too, except that `SingleLinesKept` is about the first by
its own statement. Nothing is proved by induction over data: a recursive function is reasoned about by the smallest
argument at which a claim about it would fail.

## Plan

1. Proofs: that `ListAccounts` of `Diagnosis` gives the part of `RepairWalk`'s `RepoAssumption` about the hunt, and that
   one step of `RepairRun`'s scan is a behaviour of `RepairWalk`.
2. `PackedRefs` and `BuildTrees` as pure algorithms against a reference definition (`BuildTrees` over the entries of
   several worktrees at once), and the entry-by-entry salvage of an index as a third.
3. A pack that changes while a run is on (`scan.go:247`), as a fault of `RepairRun`.
4. `--dry-run` and `--connectivity-only` as variants of `RepairRun` and `Diagnosis`.

## Not modelled

Parsers and formats (objects, trees, commit-graph, multi-pack-index, index, configuration, zlib streams), the rendering
of reports, option handling and profiling: sequential functions of one input with no state between steps, whose
interesting inputs are far larger than a model's; the repository compares them with git by differential tests. The
mapping of files and the inflating of streams are system calls and bit streams; that a mapped file may change is in
`DeltaWalk`. The memory watch prints what the operating system says. The packages that build repositories for tests are
not part of the program.
