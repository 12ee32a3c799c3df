------------------------------ MODULE Quarantine ------------------------------
(***************************************************************************)
(* The quarantine (internal/repair/quarantine.go): a run moves files out   *)
(* of the repository into a directory of its own and lists them in a       *)
(* manifest; an undo moves them back.                                      *)
(*                                                                         *)
(* The file system is a content for each path of each directory.  A rename *)
(* is one step.  A copy, which a file on another file system needs, and    *)
(* the rewriting of the manifest are several, and the process may be       *)
(* killed between any two steps.                                           *)
(***************************************************************************)
EXTENDS Naturals, Sequences, FiniteSets, Functions

CONSTANTS
  Paths,      \* the paths a run takes files from
  Foreign,    \* those on another file system than the quarantine
  Runs,       \* run names: the second each run starts in, a second of its own
  NoRun,      \* the run of the repository's own directory
  NoFile,     \* a path that holds nothing
  Refilled    \* the paths something writes to while they are empty: git, its
              \* user, or a run that puts back an object that was missing

(***************************************************************************)
(* Every content written is told apart by the path and the count of the    *)
(* writes to it; what was there at first is write 0.  Torn is a copy that  *)
(* was not finished.                                                       *)
(***************************************************************************)
Content == [path : Paths, nth : Nat]
Torn == [path |-> NoFile, nth |-> 0]

ASSUME QuarantineAssumption ==
  /\ Foreign \subseteq Paths /\ Refilled \subseteq Paths
  /\ NoRun \notin Runs
  /\ NoFile \notin Paths \cup Content \cup {Torn}
  /\ {"none", "cut short"} \cap Paths = {}

Repo == [dir |-> "repo", run |-> NoRun]

\* Mutated form: one quarantine for all runs.
Kept_Shared(r) == [dir |-> "kept", run |-> CHOOSE x \in Runs : TRUE]

\* Quarantine.Dir, and the "replaced" directory in it.
Kept(r) == [dir |-> "kept", run |-> r]
Aside(r) == [dir |-> "replaced", run |-> r]
Places == {Repo} \cup {Kept(r) : r \in Runs} \cup {Aside(r) : r \in Runs}

\* A manifest on disk: none, one that was cut short, or the files in order.
NoManifest == <<"none">>
CutShort == <<"cut short">>

VARIABLES
  at,        \* what each path of each directory holds
  manifest,  \* the manifest of each run, on disk
  man,       \* Quarantine.man.Files of the process that is running
  run,       \* the run that process belongs to
  pc,        \* where that process is
  arg,       \* the path it is working on
  moving,    \* the move it is in the middle of
  left,      \* Undo: how many entries are still to do
  taken,     \* the paths the run has taken
  started,   \* the runs that have started
  before,    \* what each path held when a run first took it
  written,   \* every content that was ever written
  cut,       \* the runs that were killed, or that gave up on an error
  halted     \* the runs an undo of which was killed, or gave up

process == <<man, run, pc, arg, moving, left, taken>>
history == <<started, before, written, cut, halted>>
vars == <<at, manifest, process, history>>

NoMove == [from |-> Repo, to |-> Repo, stage |-> "none"]

TypeOK ==
  /\ at \in [Places -> [Paths -> Content \cup {NoFile, Torn}]]
  /\ manifest \in [Runs -> Seq(Paths \cup {"none", "cut short"})]
  /\ man \in Seq(Paths)
  /\ run \in Runs \cup {NoRun}
  /\ pc \in {"idle", "ready", "taken", "truncated", "undo", "cleared"}
  /\ arg \in Paths \cup {NoFile}
  /\ moving.from \in Places /\ moving.to \in Places
  /\ moving.stage \in {"none", "copying", "copied"}
  /\ left \in Nat
  /\ taken \in SUBSET Paths
  /\ started \in SUBSET Runs
  /\ before \in [Runs -> [Paths -> Content \cup {NoFile, Torn}]]
  /\ written \in SUBSET Content
  /\ cut \in SUBSET Runs /\ halted \in SUBSET Runs

Init ==
  /\ at = [pl \in Places |-> [p \in Paths |->
             IF pl = Repo THEN [path |-> p, nth |-> 0] ELSE NoFile]]
  /\ manifest = [r \in Runs |-> NoManifest]
  /\ man = <<>> /\ run = NoRun /\ pc = "idle" /\ arg = NoFile
  /\ moving = NoMove /\ left = 0
  /\ taken = {}
  /\ started = {}
  /\ before = [r \in Runs |-> [p \in Paths |-> NoFile]]
  /\ written = [path : Paths, nth : {0}]
  /\ cut = {} /\ halted = {}

-----------------------------------------------------------------------------
\* The process ends, and what it kept in memory goes with it.
Exit ==
  /\ pc' = "idle" /\ run' = NoRun /\ man' = <<>>
  /\ arg' = NoFile /\ moving' = NoMove /\ left' = 0
  /\ taken' = {}

Interrupted ==
  LET repairing == pc \in {"ready", "taken", "truncated"} IN
  /\ cut' = IF repairing THEN cut \cup {run} ELSE cut
  /\ halted' = IF repairing THEN halted ELSE halted \cup {run}

\* Contents in directories, or notes of runs, with one of them replaced.
With(fs, place, p, c) == [fs EXCEPT ![place] = [@ EXCEPT ![p] = c]]

(***************************************************************************)
(* move: a rename replaces what is at the destination; a copy refuses a    *)
(* destination that exists, and removes the source when it is complete.    *)
(***************************************************************************)
Rename(p, from, to) ==
  /\ p \notin Foreign
  /\ at' = With(With(at, to, p, at[from][p]), from, p, NoFile)

CopyStart(p, from, to) ==
  /\ p \in Foreign
  /\ moving = NoMove
  /\ at[to][p] = NoFile
  /\ at' = With(at, to, p, Torn)
  /\ moving' = [from |-> from, to |-> to, stage |-> "copying"]

CopyEnd ==
  /\ moving.stage = "copying"
  /\ at' = With(at, moving.to, arg, at[moving.from][arg])
  /\ moving' = [moving EXCEPT !.stage = "copied"]
  /\ UNCHANGED <<manifest, man, run, pc, arg, left, taken, history>>

\* The copy runs out of room: what there is of it is removed, and the command
\* reports the error and ends.
CopyFails ==
  /\ moving.stage = "copying"
  /\ at' = With(at, moving.to, arg, NoFile)
  /\ Exit /\ Interrupted
  /\ UNCHANGED <<manifest, started, before, written>>

\* The source of a finished copy cannot be removed: both stay, and the command
\* reports the error and ends.
RemoveFails ==
  /\ moving.stage = "copied"
  /\ Exit /\ Interrupted
  /\ UNCHANGED <<at, manifest, started, before, written>>

\* The last step of a copied move, together with what follows the move.
RemoveSource ==
  /\ moving.stage = "copied"
  /\ at' = With(at, moving.from, arg, NoFile)
  /\ moving' = NoMove

(***************************************************************************)
(* A repair run.                                                           *)
(***************************************************************************)
\* runName, and NewQuarantine with an empty manifest in memory.
StartRun(r) ==
  /\ pc = "idle"
  /\ r \notin started
  /\ started' = started \cup {r}
  /\ run' = r /\ pc' = "ready" /\ man' = <<>>
  /\ taken' = {}
  /\ UNCHANGED <<at, manifest, arg, moving, left, before, written, cut, halted>>

\* What the run remembers of a path is this module's own note.
Remember(p) == before' = With(before, run, p, at[Repo][p])

\* A run takes a path once: a path taken twice is TwiceOnlyShadowed of RepairRun.
MayTake(p) ==
  /\ pc = "ready" /\ moving = NoMove
  /\ at[Repo][p] # NoFile
  /\ p \notin taken

\* Mutated form: the manifest is written only when the run ends.
TakeRename_Unlisted(p) ==
  /\ MayTake(p)
  /\ Rename(p, Repo, Kept(run))
  /\ taken' = taken \cup {p}
  /\ Remember(p)
  /\ UNCHANGED <<manifest, man, run, pc, arg, moving, left, started, written, cut, halted>>

\* Take: the move, when a rename does it.
TakeRename(p) ==
  /\ MayTake(p)
  /\ Rename(p, Repo, Kept(run))
  /\ arg' = p /\ pc' = "taken"
  /\ man' = Append(man, p)
  /\ taken' = taken \cup {p}
  /\ Remember(p)
  /\ UNCHANGED <<manifest, run, moving, left, started, written, cut, halted>>

TakeCopy(p) ==
  /\ MayTake(p)
  /\ CopyStart(p, Repo, Kept(run))
  /\ arg' = p
  /\ UNCHANGED <<manifest, man, run, pc, left, taken, history>>

TakeRemove ==
  /\ pc = "ready"
  /\ RemoveSource
  /\ Remember(arg)
  /\ man' = Append(man, arg)
  /\ taken' = taken \cup {arg}
  /\ pc' = "taken"
  /\ UNCHANGED <<manifest, run, arg, left, started, written, cut, halted>>

\* writeManifest is os.WriteFile, which empties the file and then fills it.
TruncateManifest ==
  /\ pc = "taken"
  /\ manifest' = [manifest EXCEPT ![run] = CutShort]
  /\ pc' = "truncated"
  /\ UNCHANGED <<at, man, run, arg, moving, left, taken, history>>

FillManifest ==
  /\ pc = "truncated"
  /\ manifest' = [manifest EXCEPT ![run] = man]
  /\ pc' = "ready"
  /\ UNCHANGED <<at, man, run, arg, moving, left, taken, history>>

\* A new content at a path that holds nothing.
Fresh(p) ==
  LET c == [path |-> p, nth |-> Cardinality({x \in written : x.path = p})]
  IN  /\ at[Repo][p] = NoFile
      /\ at' = With(at, Repo, p, c)
      /\ written' = written \cup {c}

\* A repair writes to a path whose file it has taken.
Write(p) ==
  /\ pc = "ready" /\ moving = NoMove /\ p \in taken
  /\ Fresh(p)
  /\ UNCHANGED <<manifest, process, started, before, cut, halted>>

\* The run returns, having moved all of its files or failed on one of them:
\* a copy onto a file that is there is an error, and the run gives up.
EndRun ==
  /\ pc = "ready" /\ moving = NoMove
  /\ Exit
  /\ UNCHANGED <<at, manifest, history>>

(***************************************************************************)
(* An undo.                                                                *)
(***************************************************************************)
\* An absent or unreadable manifest is an error and changes nothing.
StartUndo(r) ==
  /\ pc = "idle"
  /\ manifest[r] \notin {NoManifest, CutShort}
  /\ run' = r /\ pc' = "undo"
  /\ left' = Len(manifest[r])
  /\ UNCHANGED <<at, manifest, man, arg, moving, taken, history>>

Entry == manifest[run][left]

\* Nothing to put back: an earlier undo of the run has.
SkipEntry ==
  /\ pc = "undo" /\ moving = NoMove /\ left > 0
  /\ at[Kept(run)][Entry] = NoFile
  /\ left' = left - 1
  /\ UNCHANGED <<at, manifest, man, run, pc, arg, moving, taken, history>>

\* Mutated form: what is in the way is overwritten.
ClearTheWay_Overwrite ==
  /\ pc = "undo" /\ moving = NoMove /\ left > 0
  /\ at[Kept(run)][Entry] # NoFile
  /\ arg' = Entry /\ pc' = "cleared"
  /\ UNCHANGED <<at, manifest, man, run, moving, left, taken, history>>

\* What is in the way moves into "replaced"; nothing may be.
ClearTheWay ==
  /\ pc = "undo" /\ moving = NoMove /\ left > 0
  /\ at[Kept(run)][Entry] # NoFile
  /\ arg' = Entry
  /\ \/ /\ at[Repo][Entry] = NoFile
        /\ pc' = "cleared"
        /\ UNCHANGED <<at, moving>>
     \/ /\ at[Repo][Entry] # NoFile
        /\ Rename(Entry, Repo, Aside(run))
        /\ pc' = "cleared"
        /\ UNCHANGED moving
     \/ /\ at[Repo][Entry] # NoFile
        /\ CopyStart(Entry, Repo, Aside(run))
        /\ UNCHANGED pc
  /\ UNCHANGED <<manifest, man, run, left, taken, history>>

ClearedByCopy ==
  /\ pc = "undo"
  /\ RemoveSource
  /\ pc' = "cleared"
  /\ UNCHANGED <<manifest, man, run, arg, left, taken, history>>

PutBack ==
  /\ pc = "cleared"
  /\ \/ /\ Rename(arg, Kept(run), Repo)
        /\ pc' = "undo" /\ left' = left - 1
        /\ UNCHANGED moving
     \/ /\ CopyStart(arg, Kept(run), Repo)
        /\ UNCHANGED <<pc, left>>
  /\ UNCHANGED <<manifest, man, run, arg, taken, history>>

PutBackByCopy ==
  /\ pc = "cleared"
  /\ RemoveSource
  /\ pc' = "undo" /\ left' = left - 1
  /\ UNCHANGED <<manifest, man, run, arg, taken, history>>

\* All entries are done, or one of them could not be moved.
EndUndo ==
  /\ pc = "undo" /\ moving = NoMove
  /\ \/ left = 0
     \/ /\ left > 0 /\ Entry \in Foreign
        /\ at[Kept(run)][Entry] # NoFile
        /\ at[Repo][Entry] # NoFile
        /\ at[Aside(run)][Entry] # NoFile
  /\ Exit
  /\ UNCHANGED <<at, manifest, history>>

(***************************************************************************)
(* What happens to a process and around it.                                *)
(***************************************************************************)
\* The process is killed.
Kill ==
  /\ pc # "idle"
  /\ Exit /\ Interrupted
  /\ UNCHANGED <<at, manifest, started, before, written>>

\* Something else writes a file where there is none.
Refill(p) ==
  /\ p \in Refilled /\ pc = "idle"
  /\ Fresh(p)
  /\ UNCHANGED <<manifest, process, started, before, cut, halted>>

\* Nobody has to run anything.
Rest == pc = "idle" /\ UNCHANGED vars

Next ==
  \/ \E r \in Runs : StartRun(r) \/ StartUndo(r)
  \/ \E p \in Paths : TakeRename(p) \/ TakeCopy(p) \/ Write(p) \/ Refill(p)
  \/ TakeRemove \/ TruncateManifest \/ FillManifest \/ EndRun
  \/ SkipEntry \/ ClearTheWay \/ ClearedByCopy \/ PutBack \/ PutBackByCopy
  \/ CopyEnd \/ CopyFails \/ RemoveFails \/ EndUndo \/ Kill
  \/ Rest

Spec == Init /\ [][Next]_vars

-----------------------------------------------------------------------------
Somewhere(c) == \E pl \in Places, p \in Paths : at[pl][p] = c

\* docs/repair.md says "Nothing is deleted, only moved", and it holds but for one
\* thing: what an undo had set aside before it was interrupted is overwritten by
\* a later undo of the same run (Take, Undo, move).
OverwritesOnlyReplaced ==
  [][\A c \in written : Somewhere(c) =>
       \/ Somewhere(c)'
       \/ pc = "undo" /\ run \in halted /\ at[Aside(run)][c.path] = c]_vars

\* The files of a run's quarantine its manifest does not list.
Unlisted(r) ==
  {p \in Paths : at[Kept(r)][p] # NoFile /\ p \notin Range(manifest[r])}

\* The manifest of a run that returned lists every file of its quarantine,
\* also after an undo of it was killed (Take and Undo).
ListedWhenDone ==
  pc = "idle" => \A r \in Runs \ cut : Unlisted(r) = {}

\* A killed run left at most the file it was moving off the list, unless it
\* was killed while the list itself was being written (Take).
KillCostsOne ==
  \A r \in Runs : manifest[r] = CutShort \/ Cardinality(Unlisted(r)) <= 1

\* Whatever an undo puts back is what the path held when the run took it,
\* also when an undo of the run was killed before (Undo).
UndoPutsBack ==
  [][pc = "cleared" /\ pc' = "undo" => at'[Repo][arg] = before[run][arg]]_vars

\* Between a file that was moved and the list an undo works from there is never
\* more than the one move that was interrupted (Take, writeManifest, Undo).
Manifested == TypeOK /\ ListedWhenDone /\ KillCostsOne
=============================================================================
