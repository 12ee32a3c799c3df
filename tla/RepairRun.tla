------------------------------ MODULE RepairRun ------------------------------
(***************************************************************************)
(* A repair run (internal/repair/repair.go, Run): it scans the repository, *)
(* displaces broken caches, empties out and displaces packs that will not  *)
(* verify, rewrites packed-refs, puts objects back pass after pass, then   *)
(* restores references and an index, and verifies the whole.               *)
(*                                                                         *)
(* What the run does to the disk is one step for each file moved and each  *)
(* file written, and the process may be killed between any two.  A scan    *)
(* writes nothing and is one step: RepairWalk shows that its walk finds    *)
(* exactly the objects that will not read.  The content of an object is    *)
(* left out, because every copy that passes the hash check is the object;  *)
(* a copy is good or it is bad.                                            *)
(*                                                                         *)
(* Two things are taken from elsewhere.  The first scan passes over what   *)
(* the fsck before it has answered for: here it looks at everything, and   *)
(* Diagnosis says when that is the same (SkipIsSafe).  And the check of a  *)
(* pack reports every entry that is bad: entries in and above a cycle of   *)
(* deltas, which it passes over, are in Diagnosis and not in this module.  *)
(***************************************************************************)
EXTENDS Integers, Sequences, FiniteSets

CONSTANTS
  Objects,   \* object names
  Links,     \* what each object names
  Blobs,     \* the objects that are blobs
  Packs,     \* packfiles, as numbers: the database asks them in this order
  Refs,      \* references
  Packed,    \* those of them that are lines of packed-refs
  RefLog,    \* every value each reference has held, newest last
  Worktrees, \* worktrees, as numbers, in the order they are listed
  Named,     \* the objects each worktree's index names
  Rebuilt,   \* what the files and the indexes of some worktrees reproduce
  Remote,    \* what the branches and tags of the remote lead to
  Caches,    \* the rebuildable caches, all but one
  PacksList, \* that one, objects/info/packs
  Damages,   \* the states of the disk a first run may find
  NoItem,    \* what the run works on between two items
  MaxRuns,   \* bound on the runs of a behaviour
  Kills      \* whether a run may be killed

Copy == {"none", "good", "bad"}

(***************************************************************************)
(* A pack is sound when it opens and its header and checksums are right,   *)
(* whatever its entries are.  It still opens when its checksum is wrong or *)
(* its header is refused, and does not when its index cannot be mapped or  *)
(* its .pack has been displaced and its .idx has not.                      *)
(***************************************************************************)
PackState == {"sound", "sumwrong", "headless", "unopened", "halfgone", "gone"}

\* A line of packed-refs that does not read: the references it stood for, none
\* when it was a comment, a peel line or a value that a file has replaced, and
\* several when what ended a line has become part of it; and the references
\* whose names are still words of it (namesInDroppedLines).
Line == [of : SUBSET Refs, names : SUBSET Refs]

\* A state of the disk.  list is what objects/info/packs lists, if anything;
\* lines are the lines of packed-refs that do not read.  The reader of a whole
\* repository goes on after a line it refuses, so it sees all the others.
Disk == [loose : [Objects -> Copy], alt : [Objects -> Copy],
         entry : [Packs -> [Objects -> Copy]], pack : [Packs -> PackState],
         list : SUBSET Packs, broken : SUBSET Caches,
         ref : [Refs -> {"ok", "malformed", "garbled", "gone"}],
         val : [Refs -> Objects], prefs : {"ok", "bad", "absent"}, lines : Seq(Line),
         idx : [Worktrees -> {"ok", "bad", "absent"}]]

ASSUME RunAssumption ==
  /\ Packs \subseteq Nat /\ Worktrees \subseteq Nat
  /\ IsFiniteSet(Objects) /\ IsFiniteSet(Packs) /\ IsFiniteSet(Worktrees)
  /\ Links \in [Objects -> SUBSET Objects]
  /\ Blobs \subseteq Objects /\ Remote \subseteq Objects
  /\ Packed \subseteq Refs /\ RefLog \in [Refs -> Seq(Objects)]
  /\ Named \in [Worktrees -> SUBSET Objects]
  /\ Rebuilt \in [SUBSET Worktrees -> SUBSET Objects]
  /\ PacksList \notin Caches /\ Damages \subseteq Disk
  /\ MaxRuns \in Nat /\ Kills \in BOOLEAN

\* What a first run finds no run has touched: every reference is in its place,
\* whether or not it reads, and one that does not read in packed-refs is in a
\* line that does not, of a packed-refs that git refuses.  A line named for a
\* reference whose own file is malformed is left out.
ASSUME DamageAssumption ==
  \A d \in Damages, f \in Refs :
    /\ d.ref[f] = "malformed" => \A i \in DOMAIN d.lines : f \notin d.lines[i].names
    /\ d.ref[f] # "gone" /\ (f \in Packed => d.prefs # "absent")
    /\ d.ref[f] = "garbled" =>
         d.prefs = "bad" /\ \E i \in DOMAIN d.lines : f \in d.lines[i].of

VARIABLES
  disk,      \* the repository
  pc,        \* where the run is
  dmg,       \* damage, as the last scan or descent left it
  todo,      \* what the loop it is in has still to do
  cur,       \* the pack, object or reference it works on
  inside,    \* the objects still to come out of the pack
  seen,      \* the objects the walks of the run have reached
  done,      \* the objects the run has put back
  stuck,     \* what no source had, in this pass
  back,      \* what this pass has put back
  remote,    \* the scratch repository: got, whether all, whether it failed
  result,    \* Result: Unrecovered, Refused, PackedRefs, RemoteError, Clean
  finished,  \* whether the last run came to its end
  roots,     \* what the references named when they were last scanned
  kept,      \* the files the run has taken
  over,      \* those it took a second time
  runs       \* how many runs have started

recovery == <<seen, done, stuck, back, remote>>
notes == <<finished, roots, runs>>
process == <<pc, dmg, todo, cur, inside, seen, done, stuck, back, remote, result>>
history == <<finished, roots, kept, over, runs>>
vars == <<disk, process, history>>

-----------------------------------------------------------------------------
(***************************************************************************)
(* The object database (internal/odb/db.go).                               *)
(***************************************************************************)
Opens(p) == disk.pack[p] \in {"sound", "sumwrong", "headless"}
Holders(o) == {p \in Packs : Opens(p) /\ disk.entry[p][o] # "none"}
First(S) == CHOOSE x \in S : \A y \in S : x <= y

\* Find and Read: the first pack that lists the object answers, or else the
\* first object directory that has a file for it; what answers may be bad.
Reads(o) ==
  CASE Holders(o) # {}          -> disk.entry[First(Holders(o))][o] = "good"
    [] Holders(o) = {} /\ disk.loose[o] # "none" -> disk.loose[o] = "good"
    [] OTHER                    -> disk.alt[o] = "good"

(***************************************************************************)
(* A scan (internal/repair/scan.go).                                       *)
(***************************************************************************)
\* packed-refs is absent between being taken and being rewritten.
Visible(f) == disk.ref[f] = "ok" /\ (f \in Packed => disk.prefs # "absent")
Roots == {disk.val[f] : f \in {g \in Refs : Visible(g)}}

\* What a walk from starts reads, when it does not follow into known.
Walked(starts, known) ==
  LET Closed(S) == /\ starts \subseteq S
                   /\ \A o \in S : Reads(o) => (Links[o] \ known) \subseteq S
  IN  {o \in Objects : \A S \in SUBSET Objects : Closed(S) => o \in S}

Unreadable(S) == {o \in S : ~Reads(o)}

\* verifyPack
PackBad(p) ==
  \/ disk.pack[p] \in {"sumwrong", "headless", "unopened", "halfgone"}
  \/ disk.pack[p] = "sound" /\ \E o \in Objects : disk.entry[p][o] = "bad"

\* packsListStale
Stale == \E p \in disk.list : disk.pack[p] \in {"halfgone", "gone"}

\* scanIndexes stops at the first index that will not parse.
BadIndex ==
  LET bad == {w \in Worktrees : disk.idx[w] = "bad"}
  IN  IF bad = {} THEN {} ELSE {First(bad)}

NoDamage == [derived |-> {}, packs |-> {}, objs |-> {}, refs |-> {},
             index |-> {}, prefs |-> FALSE]

\* Mutated form: the list of packs is not among the caches looked at.
ScanOf_NoList ==
  [derived |-> disk.broken,
   packs |-> {p \in Packs : PackBad(p)},
   objs |-> Unreadable(Walked(Roots, {})),
   refs |-> {f \in Refs : disk.ref[f] = "malformed"},
   index |-> BadIndex,
   prefs |-> disk.prefs = "bad"]

ScanOf ==
  [derived |-> disk.broken \cup (IF Stale THEN {PacksList} ELSE {}),
   packs |-> {p \in Packs : PackBad(p)},
   objs |-> Unreadable(Walked(Roots, {})),
   refs |-> {f \in Refs : disk.ref[f] = "malformed"},
   index |-> BadIndex,
   prefs |-> disk.prefs = "bad"]

(***************************************************************************)
(* The sources of one object (internal/repair/sources.go).                 *)
(***************************************************************************)
HasFile(o) == disk.loose[o] # "none" \/ disk.alt[o] # "none"

\* Mutated form: only a packed copy counts as a duplicate.
FromDuplicate_Packed(o) == HasFile(o) /\ Holders(o) # {} /\ Reads(o)

\* fromDuplicate reads the loose files with a threshold of zero, under which
\* ReadLoose streams a blob and gives back no content.
FromDuplicate(o) ==
  /\ HasFile(o)
  /\ \/ o \notin Blobs /\ "good" \in {disk.loose[o], disk.alt[o]}
     \/ Holders(o) # {} /\ Reads(o)

\* fromWorktree and fromIndexTree, which work from the entries of all the
\* indexes that parse, thrown together.
FromIndex(o) == o \in Rebuilt[{w \in Worktrees : disk.idx[w] = "ok"}]

\* The remote, which RemoteSource models and RemoteRung sums up.
Rung == INSTANCE RemoteRung WITH
          Names <- Objects, busy <- pc = "prime", need <- todo, rung <- remote

Local(o) == FromDuplicate(o) \/ FromIndex(o)
Found(o) == Local(o) \/ o \in remote.got

\* repairRef and lastGoodValue: the values in the reflog that still read.
Usable(f) == {i \in DOMAIN RefLog[f] : Reads(RefLog[f][i])}
Newest(f) == RefLog[f][CHOOSE i \in Usable(f) : \A j \in Usable(f) : j <= i]

(***************************************************************************)
(* verify: the whole fsck, to which reflogs and index entries are roots.   *)
(***************************************************************************)
FsckRoots ==
  Roots \cup UNION {{RefLog[f][i] : i \in DOMAIN RefLog[f]} : f \in Refs}
        \cup UNION {Named[w] : w \in {x \in Worktrees : disk.idx[x] = "ok"}}

FsckClean ==
  /\ \A o \in Objects : disk.loose[o] # "bad" /\ disk.alt[o] # "bad"
  /\ \A p \in Packs : ~PackBad(p)
  /\ \A f \in Refs : disk.ref[f] # "malformed"
  /\ \A w \in Worktrees : disk.idx[w] # "bad"
  /\ disk.prefs # "bad" /\ disk.broken = {}
  /\ Unreadable(Walked(FsckRoots, {})) = {}

\* dropped is the lines of packed-refs that did not read, restored the
\* references that came back for them.
NoResult == [unrec |-> {}, refused |-> {}, dropped |-> <<>>, restored |-> {},
             remoteErr |-> FALSE, clean |-> FALSE]

\* Mutated form: only a line that names nothing counts.
droppedRefs_Nameless == Cardinality({i \in DOMAIN result.dropped : result.dropped[i].names = {}})

\* It takes references from lines: one line that gives two back makes up for
\* another that gives none.
droppedRefs == Len(result.dropped) - Cardinality(result.restored)

\* Result.Ok
Ok == /\ finished /\ result.clean
      /\ result.unrec = {} /\ result.refused = {} /\ droppedRefs = 0

TypeOK ==
  /\ disk \in Disk
  /\ pc \in {"idle", "scan", "derived", "packs", "rescue", "displace", "rescan",
             "prefs", "prefsTaken", "prime", "ladder", "take", "descend", "refs",
             "refTaken", "refCreated", "index", "indexTaken", "verify"}
  /\ dmg.objs \subseteq Objects /\ dmg.packs \subseteq Packs
  /\ dmg.refs \subseteq Refs /\ dmg.index \subseteq Worktrees
  /\ dmg.derived \subseteq Caches \cup {PacksList} /\ dmg.prefs \in BOOLEAN
  /\ todo \subseteq Caches \cup {PacksList} \cup Packs \cup Objects \cup Refs
  /\ cur \in Packs \cup Objects \cup Refs \cup {NoItem}
  /\ inside \subseteq Objects /\ seen \subseteq Objects /\ done \subseteq Objects
  /\ stuck \subseteq Objects /\ back \subseteq Objects /\ roots \subseteq Objects
  /\ remote \in [got : SUBSET Remote, all : BOOLEAN, failed : BOOLEAN]
  /\ result \in [unrec : SUBSET Objects, refused : SUBSET Packs,
                 dropped : Seq(Line), restored : SUBSET Refs,
                 remoteErr : BOOLEAN, clean : BOOLEAN]
  /\ finished \in BOOLEAN /\ runs \in 0 .. MaxRuns

Init ==
  /\ disk \in Damages
  /\ pc = "idle" /\ dmg = NoDamage /\ todo = {} /\ cur = NoItem
  /\ inside = {} /\ seen = {} /\ done = {} /\ stuck = {} /\ back = {}
  /\ remote = Rung!NoRung /\ result = NoResult
  /\ finished = FALSE /\ roots = {} /\ kept = {} /\ over = {} /\ runs = 0

-----------------------------------------------------------------------------
\* Quarantine.Take of a file, as far as this module follows it: Quarantine is
\* about the move itself and its manifest.
Take(path) ==
  /\ kept' = kept \cup {path}
  /\ over' = over \cup (kept \cap {path})

NotTaking == UNCHANGED <<kept, over>>

\* The run goes on with the items of S.
GoOn(where, S) == pc' = where /\ todo' = S /\ cur' = NoItem

\* The process ends, and what it kept in memory goes with it.
Exit ==
  /\ GoOn("idle", {}) /\ dmg' = NoDamage
  /\ inside' = {} /\ seen' = {} /\ done' = {} /\ stuck' = {} /\ back' = {}
  /\ remote' = Rung!NoRung

StartRun ==
  /\ pc = "idle" /\ runs < MaxRuns
  /\ runs' = runs + 1 /\ pc' = "scan" /\ finished' = FALSE
  /\ result' = NoResult /\ kept' = {} /\ over' = {}
  /\ UNCHANGED <<disk, dmg, todo, cur, inside, recovery, roots>>

\* firstScan; a repository with nothing wrong goes straight to the fsck.
FirstScan ==
  /\ pc = "scan"
  /\ dmg' = ScanOf /\ seen' = Walked(Roots, {}) /\ roots' = Roots
  /\ IF ScanOf = NoDamage THEN GoOn("verify", {}) ELSE GoOn("derived", ScanOf.derived)
  /\ NotTaking
  /\ UNCHANGED <<disk, inside, done, stuck, back, remote, result, finished, runs>>

TakeDerived ==
  /\ pc = "derived"
  /\ \E c \in todo :
       /\ disk' = IF c = PacksList THEN [disk EXCEPT !.list = {}]
                                 ELSE [disk EXCEPT !.broken = @ \ {c}]
       /\ Take(<<"cache", c>>)
       /\ todo' = todo \ {c}
  /\ UNCHANGED <<pc, dmg, cur, inside, recovery, result, notes>>

EndDerived ==
  /\ pc = "derived" /\ todo = {}
  /\ GoOn("packs", dmg.packs)
  /\ NotTaking
  /\ UNCHANGED <<disk, dmg, inside, recovery, result, notes>>

(***************************************************************************)
(* rescuePack, for each damaged pack.                                      *)
(***************************************************************************)
\* Verify hands over the objects that decode and hash to their names, and
\* none of a pack whose header it refuses.
Yield(p) ==
  IF disk.pack[p] \in {"sound", "sumwrong"}
  THEN {o \in Objects : disk.entry[p][o] = "good"} ELSE {}

\* Mutated form: a pack that stays is not counted.
Refuse_Quiet(p) ==
  /\ result' = result
  /\ GoOn("packs", todo \ {p}) /\ inside' = {}

Refuse(p) ==
  /\ result' = [result EXCEPT !.refused = @ \cup {p}]
  /\ GoOn("packs", todo \ {p}) /\ inside' = {}

\* A pack that does not open, or that has objects and yields none of them.
Useless(p) ==
  \/ ~Opens(p)
  \/ Yield(p) = {} /\ \E o \in Objects : disk.entry[p][o] # "none"

\* Such a pack stays where it is.
RefusePack ==
  /\ pc = "packs" /\ todo # {}
  /\ Useless(First(todo))
  /\ Refuse(First(todo))
  /\ NotTaking
  /\ UNCHANGED <<disk, dmg, recovery, notes>>

OpenPack ==
  /\ pc = "packs" /\ todo # {}
  /\ ~Useless(First(todo))
  /\ pc' = "rescue" /\ cur' = First(todo) /\ inside' = Yield(First(todo))
  /\ NotTaking
  /\ UNCHANGED <<disk, dmg, todo, recovery, result, notes>>

\* Mutated form: a loose file is taken for a copy because it is there.
Present_Stat(o) == disk.loose[o] # "none"

Present(o) == disk.loose[o] = "good"

\* keepLoose: a loose copy that reads is left alone, one that does not is
\* taken, and where there is none the object is written.
KeepLoose ==
  /\ pc = "rescue"
  /\ \E o \in inside :
       \/ /\ Present(o)
          /\ inside' = inside \ {o}
          /\ NotTaking /\ UNCHANGED disk
       \/ /\ ~Present(o) /\ disk.loose[o] # "none"
          /\ disk' = [disk EXCEPT !.loose[o] = "none"]
          /\ Take(<<"loose", o>>) /\ UNCHANGED inside
       \/ /\ disk.loose[o] = "none"
          /\ disk' = [disk EXCEPT !.loose[o] = "good"]
          /\ inside' = inside \ {o}
          /\ NotTaking
  /\ UNCHANGED <<pc, dmg, todo, cur, recovery, result, notes>>

\* A write, or the taking of the .pack, fails: the pack is refused.
KeepFails ==
  /\ pc = "rescue"
  /\ Refuse(cur)
  /\ NotTaking
  /\ UNCHANGED <<disk, dmg, recovery, notes>>

\* Mutated form: the pack does not wait for its objects.
AllOut_NoWait == TRUE

AllOut == inside = {}

\* Every object is out, so the .pack is taken, and its companions after it.
TakePack ==
  /\ pc = "rescue" /\ AllOut
  /\ disk' = [disk EXCEPT !.pack[cur] = "halfgone"]
  /\ Take(<<"pack", cur>>)
  /\ pc' = "displace" /\ inside' = {}
  /\ UNCHANGED <<dmg, todo, cur, recovery, result, notes>>

TakeCompanions ==
  /\ pc = "displace"
  /\ disk' = [disk EXCEPT !.pack[cur] = "gone"]
  /\ Take(<<"idx", cur>>)
  /\ GoOn("packs", todo \ {cur})
  /\ UNCHANGED <<dmg, inside, recovery, result, notes>>

CompanionsFail ==
  /\ pc = "displace"
  /\ Refuse(cur)
  /\ NotTaking
  /\ UNCHANGED <<disk, dmg, recovery, notes>>

EndPacks ==
  /\ pc = "packs" /\ todo = {}
  /\ GoOn(IF dmg.packs = {} THEN "prefs" ELSE "rescan", {})
  /\ NotTaking
  /\ UNCHANGED <<disk, dmg, inside, recovery, result, notes>>

\* reopen and rescan, after the packs and after packed-refs.
Rescan ==
  /\ pc = "rescan"
  /\ dmg' = ScanOf /\ seen' = Walked(Roots, {}) /\ roots' = Roots
  /\ GoOn("prefs", {})
  /\ NotTaking
  /\ UNCHANGED <<disk, inside, done, stuck, back, remote, result, finished, runs>>
(***************************************************************************)
(* repairPackedRefs.                                                       *)
(***************************************************************************)
\* What is to be written is decided before the old file is taken.
TakePackedRefs ==
  /\ pc = "prefs" /\ dmg.prefs
  /\ disk' = [disk EXCEPT !.prefs = "absent"]
  /\ Take(<<"packed-refs">>)
  /\ pc' = "prefsTaken"
  /\ UNCHANGED <<dmg, todo, cur, inside, recovery, result, notes>>

namesInDroppedLines == UNION {disk.lines[i].names : i \in DOMAIN disk.lines}

\* lastGoodValue looks at the file of the reference, of which it asks no more
\* than that the object is there, and then in its reflog.
HasGoodValue(f) ==
  \/ f \notin Packed /\ disk.ref[f] = "ok" /\ (Holders(disk.val[f]) # {} \/ HasFile(disk.val[f]))
  \/ Usable(f) # {}

\* What comes back for the lines that do not read, unless a line that reads
\* has the reference already.
RestoredRefs ==
  {f \in namesInDroppedLines : ~(f \in Packed /\ disk.ref[f] = "ok") /\ HasGoodValue(f)}

Garbled == {f \in Refs : disk.ref[f] = "garbled"}

\* A reference whose line does not read comes back with the newest value of its
\* reflog that reads, or is gone.
WritePackedRefs ==
  /\ pc = "prefsTaken"
  /\ disk' = [disk EXCEPT !.prefs = "ok", !.lines = <<>>,
                !.ref = [f \in Refs |-> IF f \notin Garbled THEN @[f]
                                        ELSE IF f \in RestoredRefs THEN "ok" ELSE "gone"],
                !.val = [f \in Refs |-> IF f \in Garbled \cap RestoredRefs
                                        THEN Newest(f) ELSE @[f]]]
  /\ result' = [result EXCEPT !.dropped = disk.lines, !.restored = RestoredRefs]
  /\ NotTaking
  /\ pc' = "rescan"
  /\ UNCHANGED <<dmg, todo, cur, inside, recovery, notes>>

\* Mutated form: what no source had is not carried into the next pass.
stillBad_Drop(found, carried) == found

stillBad(found, carried) == found \cup carried

\* NewSources, and the first pass over what the last scan found.
OpenSources ==
  /\ pc = "prefs" /\ ~dmg.prefs
  /\ GoOn("prime", stillBad(dmg.objs, {}))
  /\ NotTaking
  /\ UNCHANGED <<disk, dmg, inside, recovery, result, notes>>

(***************************************************************************)
(* The passes.                                                             *)
(***************************************************************************)
\* Mutated form: the test for a local source is the wrong way round.
Wanted_Local == {o \in todo : Local(o)}

\* What no local source answers, and Prime goes to the remote for.
Wanted == {o \in todo : ~Local(o)}

\* Prime: the rung at the bottom of the ladder answers in one step, with what
\* RemoteRung allows.  A remote that failed once is not asked again.
Prime ==
  /\ pc = "prime" /\ todo # {}
  /\ pc' = "ladder" /\ stuck' = {} /\ back' = {}
  /\ remote' \in Rung!Outcomes(remote, Wanted)
  /\ NotTaking
  /\ UNCHANGED <<disk, dmg, todo, cur, inside, seen, done, result, notes>>

\* Mutated form: what has been put back may be put back again.
PutBackBefore_Forgets(o) == FALSE

PutBackBefore(o) == o \in done

\* An object no source has, or one that was put back and still does not read.
LeaveStuck ==
  /\ pc = "ladder"
  /\ \E o \in todo :
       /\ PutBackBefore(o) \/ ~Found(o)
       /\ stuck' = stuck \cup {o} /\ todo' = todo \ {o}
  /\ NotTaking
  /\ UNCHANGED <<disk, pc, dmg, cur, inside, seen, done, back, remote, result, notes>>

\* Sources.Find: the replacement is in memory before anything is touched.
FindObject ==
  /\ pc = "ladder"
  /\ \E o \in todo : ~PutBackBefore(o) /\ Found(o) /\ cur' = o
  /\ pc' = "take"
  /\ NotTaking
  /\ UNCHANGED <<disk, dmg, todo, inside, recovery, result, notes>>

\* Every file of BadObject.Files is taken; copiesOf lists each one there is.
TakeCopies ==
  /\ pc = "take"
  /\ \/ /\ disk.loose[cur] # "none"
        /\ disk' = [disk EXCEPT !.loose[cur] = "none"]
        /\ Take(<<"loose", cur>>)
     \/ /\ disk.loose[cur] = "none" /\ disk.alt[cur] # "none"
        /\ disk' = [disk EXCEPT !.alt[cur] = "none"]
        /\ Take(<<"alt", cur>>)
  /\ UNCHANGED <<pc, dmg, todo, cur, inside, recovery, result, notes>>

\* Sources.Write
WriteObject ==
  /\ pc = "take" /\ ~HasFile(cur)
  /\ disk' = [disk EXCEPT !.loose[cur] = "good"]
  /\ done' = done \cup {cur} /\ back' = back \cup {cur}
  /\ GoOn("ladder", todo \ {cur})
  /\ NotTaking
  /\ UNCHANGED <<dmg, inside, seen, stuck, remote, result, notes>>

\* The loop ends with a pass that put nothing back, or that had nothing to do.
EndPass ==
  /\ pc = "ladder" /\ todo = {}
  /\ result' = [result EXCEPT !.unrec = stuck, !.remoteErr = remote.failed]
  /\ IF back = {} THEN GoOn("refs", dmg.refs) ELSE GoOn("descend", {})
  /\ NotTaking
  /\ UNCHANGED <<disk, dmg, inside, recovery, notes>>

NothingToDo ==
  /\ pc = "prime" /\ todo = {}
  /\ GoOn("refs", dmg.refs)
  /\ NotTaking
  /\ UNCHANGED <<disk, dmg, inside, recovery, result, notes>>

\* descend, Retarget and stillBad: the walk starts under what the pass put
\* back, and what no source had is carried along.
Descend ==
  /\ pc = "descend"
  /\ LET known == seen \ back
         reached == Walked(back, known)
     IN  /\ dmg' = [NoDamage EXCEPT !.objs = Unreadable(reached)]
         /\ seen' = known \cup reached
         /\ GoOn("prime", stillBad(Unreadable(reached), stuck))
  /\ NotTaking
  /\ UNCHANGED <<disk, inside, done, stuck, back, remote, result, notes>>

(***************************************************************************)
(* repairRef, for each malformed reference.                                *)
(***************************************************************************)
LeaveRef ==
  /\ pc = "refs"
  /\ \E f \in todo : Usable(f) = {} /\ todo' = todo \ {f}
  /\ NotTaking
  /\ UNCHANGED <<disk, pc, dmg, cur, inside, recovery, result, notes>>

TakeRef ==
  /\ pc = "refs"
  /\ \E f \in todo : /\ Usable(f) # {}
                     /\ disk' = [disk EXCEPT !.ref[f] = "gone"]
                     /\ cur' = f
                     /\ Take(<<"ref", f>>)
  /\ pc' = "refTaken"
  /\ UNCHANGED <<dmg, todo, inside, recovery, result, notes>>

\* os.WriteFile makes an empty file and then fills it.
CreateRef ==
  /\ pc = "refTaken"
  /\ disk' = [disk EXCEPT !.ref[cur] = "malformed"]
  /\ pc' = "refCreated"
  /\ NotTaking
  /\ UNCHANGED <<dmg, todo, cur, inside, recovery, result, notes>>

FillRef ==
  /\ pc = "refCreated"
  /\ disk' = [disk EXCEPT !.ref[cur] = "ok", !.val[cur] = Newest(cur)]
  /\ GoOn("refs", todo \ {cur})
  /\ NotTaking
  /\ UNCHANGED <<dmg, inside, recovery, result, notes>>

EndRefs ==
  /\ pc = "refs" /\ todo = {}
  /\ GoOn(IF dmg.index = {} THEN "verify" ELSE "index", {})
  /\ NotTaking
  /\ UNCHANGED <<disk, dmg, inside, recovery, result, notes>>

(***************************************************************************)
(* repairIndex and verify.                                                 *)
(***************************************************************************)
TakeIndex ==
  /\ pc = "index"
  /\ \E w \in dmg.index : /\ disk' = [disk EXCEPT !.idx[w] = "absent"]
                          /\ Take(<<"index", w>>)
  /\ pc' = "indexTaken"
  /\ UNCHANGED <<dmg, todo, cur, inside, recovery, result, notes>>

WriteIndex ==
  /\ pc = "indexTaken"
  /\ \E w \in dmg.index : disk' = [disk EXCEPT !.idx[w] = "ok"]
  /\ pc' = "verify"
  /\ NotTaking
  /\ UNCHANGED <<dmg, todo, cur, inside, recovery, result, notes>>

Verify ==
  /\ pc = "verify"
  /\ result' = [result EXCEPT !.clean = FsckClean]
  /\ finished' = TRUE
  /\ Exit
  /\ UNCHANGED <<disk, roots, kept, over, runs>>

\* The process is killed, or an error ends the run: no report is made.
Kill ==
  /\ Kills /\ pc # "idle"
  /\ Exit /\ result' = NoResult
  /\ UNCHANGED <<disk, finished, roots, kept, over, runs>>

Rest == pc = "idle" /\ runs = MaxRuns /\ UNCHANGED vars

Step ==
  \/ FirstScan \/ TakeDerived \/ EndDerived
  \/ RefusePack \/ OpenPack \/ KeepLoose \/ KeepFails \/ TakePack
  \/ TakeCompanions \/ CompanionsFail \/ EndPacks \/ Rescan
  \/ TakePackedRefs \/ WritePackedRefs \/ OpenSources
  \/ Prime \/ LeaveStuck \/ FindObject \/ TakeCopies \/ WriteObject
  \/ EndPass \/ NothingToDo \/ Descend
  \/ LeaveRef \/ TakeRef \/ CreateRef \/ FillRef \/ EndRefs
  \/ TakeIndex \/ WriteIndex \/ Verify

Next == StartRun \/ Step \/ Kill \/ Rest

Spec == Init /\ [][Next]_vars

\* A run that is not killed goes on.
FairSpec == Spec /\ WF_vars(Step)

-----------------------------------------------------------------------------
\* No step of a run, wherever it is killed, makes an object that could be read
\* unreadable, unless another pack lists the object and its entry there is bad,
\* or the object did not read and is the one whose files are being replaced,
\* the good one of an alternate too (rescuePack, keepLoose, Quarantine.Take).
StaysReadable ==
  [][\A o \in Objects : Reads(o) =>
       \/ Reads(o)'
       \/ \E p \in Packs : Opens(p)' /\ disk.entry[p][o] = "bad"
       \/ pc = "take" /\ o = cur /\ o \in dmg.objs]_vars

\* docs/repair.md: a pass carries what no source had, "Dropping it would leave
\* a failed run calling itself Ok".  What a run reports as unrecovered is what
\* the references it scanned lead to and still cannot read, no more, no less,
\* however many passes it took (Run, descend, stillBad).
ReportExact == finished => result.unrec = Unreadable(Walked(roots, {}))

\* A run gives an object up only when a pack it could not displace still
\* answers for it, or when no source had it: no copy of it, no index that could
\* be read before the last one was rebuilt, and no remote, unless the remote
\* failed or was told of an object above it, which it had sent by name and
\* which was put back (Run, Sources.Find, Prime).
SourcesExhausted ==
  finished => \A o \in result.unrec :
    \/ Holders(o) # {}
    \/ /\ ~FromDuplicate(o)
       /\ FromIndex(o) => \E w \in Worktrees : <<"index", w>> \in kept
       /\ o \in Remote =>
            \/ result.remoteErr
            \/ \E x \in Remote \ {o} : disk.loose[x] = "good" /\ o \in Rung!Below({x})

\* A run gives up an object that the repository or an alternate has a good
\* loose file of only when it is a blob (fromDuplicate, ReadLoose).
CopiesUnusedOnlyOfBlobs ==
  finished => \A o \in result.unrec \ Blobs :
    Holders(o) = {} => "good" \notin {disk.loose[o], disk.alt[o]}

\* Every run that is not killed ends, whatever a pack shadows (Run).
Termination == (pc # "idle") ~> (pc = "idle")

\* A line that stood for one reference at the most, and names no other.
Single(line) == \A f, g \in line.of \cup line.names : f = g

\* A run that calls the repository healthy, and found it as no run had left it,
\* has left every reference in place, unless some line of packed-refs that did
\* not read was more than one (repairPackedRefs, droppedRefs, repairRef, Ok).
SingleLinesKept ==
  Ok /\ runs = 1 /\ (\A i \in DOMAIN result.dropped : Single(result.dropped[i])) =>
    \A f \in Refs : Visible(f)

\* A rename replaces what is at its destination, so a path taken twice in a run
\* loses the file taken first.  It happens to a loose file alone, and only when
\* a pack the run could not displace answers for its object (keepLoose, Run,
\* Quarantine.Take).
TwiceOnlyShadowed ==
  pc # "idle" \/ finished => \A path \in over :
    \E o \in Objects, p \in result.refused :
      path = <<"loose", o>> /\ disk.entry[p][o] # "none"

\* A run that is Ok leaves objects/info/packs stale only by displacing a pack
\* itself, after the step that looks at it (Run, packsListStale).
StaleOnlyByDisplacing == Ok /\ Stale => \E p \in disk.list : <<"pack", p>> \in kept

\* What displacing a pack costs, and nothing else does: a stale list, and the
\* first of two files taken from one path (packsListStale, keepLoose, Take).
CostOfDisplacing == TypeOK /\ TwiceOnlyShadowed /\ StaleOnlyByDisplacing

-----------------------------------------------------------------------------
(***************************************************************************)
(* What the comments and docs/repair.md say and the code does not do.      *)
(***************************************************************************)

\* docs/repair.md: step 7 of a run is "Restore malformed ref files from their
\* reflogs", whatever the passes before it recovered (Run, descend).
MalformedRefsRestored ==
  finished => \A f \in Refs : disk.ref[f] = "malformed" => Usable(f) = {}

=============================================================================
