------------------------------ MODULE Diagnosis ------------------------------
(***************************************************************************)
(* The fsck a run begins with, and what the repair takes on trust from it. *)
(*                                                                         *)
(* fsckcmd.Run goes through its phases one after the other; inside the     *)
(* object pass the copies of one place (an object directory, a pack) are   *)
(* checked by several workers, which settle the types of objects and the   *)
(* links between them in the object table.  At the end the caller has a    *)
(* status word, the list of objects the run could not produce, and whether *)
(* that list is whole.  The first scan of the repair skips its walk when   *)
(* the list is whole and empty, and stops it after as many objects as the  *)
(* list has otherwise.                                                     *)
(*                                                                         *)
(* The options are the default ones.  With others there is no verdict, and *)
(* the scan walks everything.                                              *)
(***************************************************************************)
EXTENDS Naturals, FiniteSets

CONSTANTS
  Objects,
  NoObject,   \* the name a reference that does not parse is noted under
  Repos,      \* the repositories a run may find
  Workers,    \* how many copies are checked at a time
  MaxRuns     \* how often the same repository is diagnosed

Types == {"commit", "tree", "blob", "tag"}
Copy == {"none", "good", "bad"}

\* The check of a pack and a read by name differ over some entries.  A "thin"
\* one has its base in another pack: the check reports it, a read finds the
\* base.  A "ring" is on or above a cycle of deltas: the check starts at the
\* entries without a parent and never gets there, and no read yields it.  A
\* "deep" one is beyond maxDeltaChain, which binds a read and not the check.
PackCopy == Copy \cup {"thin", "ring", "deep"}
Places == {"loose", "alt", "pack"}
Links == [to : Objects, as : Types]

Bits == {"object", "reachable", "pack", "refs", "graph", "midx", "rev",
         "bitmap", "index"}

(***************************************************************************)
(* A repository.  A name is a hash, so every good copy of an object has    *)
(* the same type and links; a link says which type it expects to find.     *)
(***************************************************************************)
AnyRepo ==
  [type      : [Objects -> Types],
   links     : [Objects -> SUBSET Links],
   copy      : [Places -> [Objects -> PackCopy]],
   malformed : SUBSET Objects,   \* a header no parser accepts
   faulty    : SUBSET Objects,   \* content an fsck check complains about
   special   : SUBSET Objects,   \* what trees call .gitmodules or .gitattributes
   refs      : SUBSET Objects,   \* references of the common directory, and HEADs
   branches  : SUBSET Objects,   \* those under refs/heads
   own       : SUBSET Objects,   \* references only a linked worktree has
   logs      : SUBSET Objects,   \* reflog entries
   garbled   : BOOLEAN,          \* a reference that does not parse
   unpackable: BOOLEAN,          \* a packed-refs that does not parse
   index     : [ok : BOOLEAN, entries : SUBSET Objects, trees : SUBSET Objects,
                undo : SUBSET Objects],
   faults    : SUBSET {"pack", "refs", "graph", "midx", "midxfatal", "rev", "bitmap"}]

Repo ==
  {r \in AnyRepo : \A p \in Places \ {"pack"} : \A o \in Objects : r.copy[p][o] \in Copy}

ASSUME RepoAssumption ==
  /\ Repos \subseteq Repo /\ NoObject \notin Objects
  /\ IsFiniteSet(Objects) /\ Workers \in Nat \ {0} /\ MaxRuns \in Nat \ {0}

VARIABLES
  repo,
  pc,         \* the phase
  todo,       \* copies of this place nobody has taken
  busy,       \* objects of which a worker checks a copy
  left,       \* the links of such a copy that are yet to be resolved
  type,       \* objTable: the type an entry has settled on
  hasObj,     \* flagHasObj
  edges,      \* the targets recorded for an object
  refused,    \* objects with a link the table refused
  named,      \* gitmodulesFound, gitattributesFound
  checked,    \* gitmodulesDone, gitattributesDone
  damaged,    \* run.damaged: object and rooted
  partial,    \* run.partial
  status,     \* run.errors
  fatal,      \* run.fatalMsg is set
  reach,      \* flagReachable
  verdict,    \* what the repair is given
  found,      \* the objects the scan reports
  first,      \* the verdict of the run before
  runs

table == <<type, hasObj, edges, refused>>
blobs == <<named, checked>>
list == <<damaged, partial>>
outcome == <<verdict, found, first, runs>>
work == <<todo, busy, left>>
vars == <<repo, pc, work, table, blobs, list, status, fatal, reach, outcome>>

NoVerdict == [given |-> FALSE, status |-> {}, out |-> {}, whole |-> FALSE]

TypeOK ==
  /\ repo \in Repo
  /\ pc \in {"refs", "snapshot", "loose", "alt", "pack", "deferred", "heads",
             "index", "files", "connect", "graphs", "scan", "done"}
  /\ todo \subseteq Objects
  /\ busy \subseteq Objects /\ left \in [Objects -> SUBSET Links]
  /\ type \in [Objects -> Types \cup {"none"}]
  /\ hasObj \subseteq Objects
  /\ edges \in [Objects -> SUBSET Objects]
  /\ refused \subseteq Objects
  /\ named \subseteq Objects /\ checked \subseteq Objects
  /\ damaged \subseteq (Objects \cup {NoObject}) \X BOOLEAN
  /\ partial \in BOOLEAN /\ fatal \in BOOLEAN
  /\ status \subseteq Bits
  /\ reach \subseteq Objects
  /\ \A v \in {verdict, first} :
       v \in [given : BOOLEAN, status : SUBSET Bits,
              out : SUBSET (Objects \cup {NoObject}), whole : BOOLEAN]
  /\ found \subseteq Objects
  /\ runs \in 1..MaxRuns

-----------------------------------------------------------------------------
(***************************************************************************)
(* The object database.                                                    *)
(***************************************************************************)
\* ReadLoose: the file inflates, and hashes to its name.
FileReads(p, o) == repo.copy[p][o] = "good"

\* Pack.Verify of one entry: it decodes, however long its chain is, and hashes
\* to the name in the index.
EntryDecodes(o) == repo.copy["pack"][o] \in {"good", "deep"}

\* It cannot be unpacked, and the pack fails its check.
EntryReported(o) == repo.copy["pack"][o] \in {"bad", "thin"}

Produces(p, o) == IF p = "pack" THEN EntryDecodes(o) ELSE FileReads(p, o)

HasPacked(o) == repo.copy["pack"][o] # "none"

\* DB.Find: a pack answers before a file.
Find(o) ==
  CASE HasPacked(o)                     -> "pack"
    [] ~HasPacked(o) /\ repo.copy["loose"][o] # "none" -> "loose"
    [] OTHER                            -> "alt"

Has(o) == \E p \in Places : repo.copy[p][o] # "none"

\* DB.Read, of the copy that answers.  A chain that is too long may be read for
\* a while where a base of it happens to be cached: then the entry is good.
Reads(o) ==
  IF HasPacked(o) THEN repo.copy["pack"][o] \in {"good", "thin"} ELSE FileReads(Find(o), o)

\* Reading by name a packed object that does not decode is what git dies of.
Dies(o) == HasPacked(o) /\ ~Reads(o)

\* Reconcile: an entry takes the first type anybody gives it.
Accepts(o, t) == type[o] \in {"none", t}

\* Every object that links of objects in Via lead to from S.
ReachVia(S, Via, next(_)) ==
  LET Closed(R) == \A o \in R \cap Via : next(o) \subseteq R
  IN  {o \in Objects : \A R \in SUBSET Objects : S \subseteq R /\ Closed(R) => o \in R}

\* walkLinks refuses a commit or a tag whose header names nothing.
Parses(o) == o \notin repo.malformed

\* The numbered checks of a commit, a tree, a tag or a special blob.
Complaint(o) == o \in repo.faulty

Targets(o) == {l.to : l \in repo.links[o]}

\* Refs of the common directory with the HEAD of each worktree, and Reflog.
RefTips == repo.refs
LogNames == repo.logs

-----------------------------------------------------------------------------
Init ==
  /\ repo \in Repos /\ first = NoVerdict /\ runs = 1
  /\ pc = "refs" /\ todo = {} /\ busy = {} /\ left = [o \in Objects |-> {}]
  /\ type = [o \in Objects |-> "none"] /\ hasObj = {}
  /\ edges = [o \in Objects |-> {}] /\ refused = {}
  /\ named = {} /\ checked = {} /\ damaged = {} /\ partial = FALSE
  /\ status = {} /\ fatal = FALSE /\ reach = {}
  /\ verdict = NoVerdict /\ found = {}

\* die: the caller is told that the run stopped.
Die == pc' = "scan" /\ verdict' = NoVerdict

GoOn(phase) == pc' = phase /\ verdict' = verdict

\* A reference whose name or content a check reports, and a packed-refs that
\* is not what it should be.
RefFileFault == repo.garbled \/ "refs" \in repo.faults
PackedRefsFault == repo.unpackable

\* checkRefs: the files of the references, before any object.
CheckRefs ==
  /\ pc = "refs"
  /\ status' = status \cup (IF RefFileFault \/ PackedRefsFault THEN {"refs"} ELSE {})
  /\ GoOn("snapshot")
  /\ UNCHANGED <<repo, work, table, blobs, list, fatal, reach, found, first, runs>>

CopiesAt(p) == {o \in Objects : repo.copy[p][o] # "none"}

SnapshotRefs ==
  /\ pc = "snapshot"
  /\ fatal' = \E o \in RefTips : Dies(o)
  /\ IF fatal' THEN Die /\ UNCHANGED todo
              ELSE GoOn("loose") /\ todo' = CopiesAt("loose")
  /\ UNCHANGED <<repo, busy, left, table, blobs, list, status, reach, found, first, runs>>

(***************************************************************************)
(* checkObjectDirs: each object directory, then each pack, and within one  *)
(* the copies in parallel.                                                 *)
(***************************************************************************)
CanTake(o) == pc \in Places /\ o \in todo /\ Cardinality(busy) < Workers

\* Mutated form: a loose file that does not read is only an error.
NoteBadFile_Quiet(o) == status' = status \cup {"object"} /\ UNCHANGED damaged

\* The file is not the object it is named after.
NoteBadFile(o) ==
  /\ status' = status \cup {"object"}
  /\ damaged' = damaged \cup {<<o, FALSE>>}

\* checkLooseObject of a file that does not read; an entry of a pack fails the
\* pack if the check gets to it.
CheckBadCopy ==
  /\ \E o \in Objects :
       /\ CanTake(o) /\ ~Produces(pc, o)
       /\ todo' = todo \ {o}
       /\ IF pc = "pack"
          THEN /\ status' = status \cup (IF EntryReported(o) THEN {"pack"} ELSE {})
               /\ UNCHANGED damaged
          ELSE NoteBadFile(o)
  /\ UNCHANGED <<repo, pc, busy, left, table, blobs, partial, fatal, reach, outcome>>

\* A good copy whose entry settled on another type, or that does not parse.
RefuseCopy ==
  /\ \E o \in Objects :
       /\ CanTake(o) /\ Produces(pc, o)
       /\ todo' = todo \ {o}
       /\ \/ ~Accepts(o, repo.type[o]) /\ UNCHANGED type
          \/ /\ Accepts(o, repo.type[o]) /\ ~Parses(o)
             /\ type' = [type EXCEPT ![o] = repo.type[o]]
  /\ status' = status \cup {"object"}
  /\ UNCHANGED <<repo, pc, busy, left, hasObj, edges, refused, blobs, list, fatal, reach, outcome>>

TakeCopy ==
  /\ \E o \in Objects :
       /\ CanTake(o) /\ Produces(pc, o)
       /\ Accepts(o, repo.type[o]) /\ Parses(o)
       /\ todo' = todo \ {o}
       /\ type' = [type EXCEPT ![o] = repo.type[o]]
       /\ hasObj' = hasObj \cup {o}
       /\ busy' = busy \cup {o} /\ left' = [left EXCEPT ![o] = repo.links[o]]
       /\ edges' = [edges EXCEPT ![o] = {}] /\ refused' = refused \ {o}
  /\ UNCHANGED <<repo, pc, blobs, list, status, fatal, reach, outcome>>

\* Mutated form: a link is good when its target has been read by then.
Resolve_AfterTarget(o, l) ==
  IF l.to \in hasObj
  THEN edges' = [edges EXCEPT ![o] = @ \cup {l.to}] /\ UNCHANGED <<type, refused>>
  ELSE refused' = refused \cup {o} /\ UNCHANGED <<edges, type>>

\* Lookup of a link, with the type it implies.
Resolve(o, l) ==
  IF Accepts(l.to, l.as)
  THEN /\ edges' = [edges EXCEPT ![o] = @ \cup {l.to}]
       /\ type' = [type EXCEPT ![l.to] = l.as]
       /\ refused' = refused
  ELSE refused' = refused \cup {o} /\ UNCHANGED <<edges, type>>

ResolveLink ==
  /\ \E o \in busy : \E l \in left[o] :
       /\ Resolve(o, l)
       /\ left' = [left EXCEPT ![o] = @ \ {l}]
  /\ UNCHANGED <<repo, pc, todo, busy, hasObj, blobs, list, status, fatal, reach, outcome>>

\* foundGitmodules and foundGitattributes, for the entries of a tree.
SpecialIn(o) == IF repo.type[o] = "tree" THEN Targets(o) \cap repo.special ELSE {}

\* takeGitmodules and takeGitattributes: only a blob that was named by then.
Taken(o) == IF repo.type[o] = "blob" THEN {o} \cap named ELSE {}

\* The rest of checkObject: broken links, the object checks, and the special
\* blobs a tree names or a blob turns out to be.
EndCopy ==
  /\ \E o \in busy :
       /\ left[o] = {}
       /\ busy' = busy \ {o}
       /\ status' = status \cup (IF o \in refused \/ Complaint(o) THEN {"object"} ELSE {})
       /\ named' = named \cup SpecialIn(o) /\ checked' = checked \cup Taken(o)
  /\ UNCHANGED <<repo, pc, todo, left, table, list, fatal, reach, outcome>>

\* checksumComplaints: the pack or its index is not what its hash says.
PackSumFaults == repo.faults \cap {"pack"}

\* The wait for the workers of a place.
EndPlace ==
  /\ pc \in Places /\ todo = {} /\ busy = {}
  /\ status' = IF pc = "pack" THEN status \cup PackSumFaults ELSE status
  /\ CASE pc = "loose" -> GoOn("alt") /\ todo' = CopiesAt("alt")
       [] pc = "alt"   -> GoOn("pack") /\ todo' = CopiesAt("pack")
       [] pc = "pack"  -> GoOn("deferred") /\ todo' = {}
  /\ UNCHANGED <<repo, busy, left, table, blobs, list, fatal, reach, found, first, runs>>

\* finishDeferredBlobs: a special blob that was not checked is read by name.
FinishDeferredBlobs ==
  /\ pc = "deferred"
  /\ LET pending == named \ checked
         lost == {o \in pending : ~Reads(o)}
     IN  /\ damaged' = damaged \cup {<<o, FALSE>> : o \in lost}
         /\ fatal' = \E o \in pending : Dies(o)
         /\ status' = IF \E o \in pending : ~Reads(o) \/ repo.type[o] # "blob" \/ Complaint(o)
                      THEN status \cup {"object"} ELSE status
  /\ IF fatal' THEN Die ELSE GoOn("heads")
  /\ UNCHANGED <<repo, work, table, blobs, partial, reach, found, first, runs>>

(***************************************************************************)
(* The starting points.                                                    *)
(***************************************************************************)
\* namedDamaged: an earlier pass put the object on the list.
NamedDamaged(o) == \E r \in BOOLEAN : <<o, r>> \in damaged

\* What handleRef says of references to objects that were not taken: the ones
\* it adds to the list, and whether there is a file it would not take.  A
\* reference that does not parse is noted under the null name.
Unpointed == {o \in RefTips : o \notin hasObj /\ ~NamedDamaged(o)}
AddedByRefs ==
  {<<o, TRUE>> : o \in {u \in Unpointed : ~Has(u)}}
  \cup (IF repo.garbled THEN {<<NoObject, TRUE>>} ELSE {})

UntakenFile == \E o \in Unpointed : Has(o)

LostInLogs == {o \in LogNames : o \notin hasObj}

\* defaultHeads: handleRef of each reference and HEAD, then the reflogs; after
\* it a packed-refs that does not parse ends the run.
DefaultHeads ==
  /\ pc = "heads"
  /\ damaged' = damaged \cup AddedByRefs
  /\ partial' = (partial \/ UntakenFile \/ LostInLogs # {})
  /\ status' = status
       \cup (IF repo.garbled \/ ~(RefTips \cup LogNames \subseteq hasObj)
             THEN {"reachable"} ELSE {})
       \cup (IF \E o \in repo.branches \cap hasObj : type[o] # "commit"
             THEN {"refs"} ELSE {})
  /\ reach' = reach \cup ((RefTips \cup LogNames) \cap hasObj)
  /\ fatal' = repo.unpackable
  /\ IF fatal' THEN Die ELSE GoOn("index")
  /\ UNCHANGED <<repo, work, table, blobs, found, first, runs>>

\* ReadIndex: header, entries in order, extensions and checksum.
IndexReads == repo.index.ok

\* An entry of an index that does not say it is a blob is passed over.
TakenEntries == {o \in repo.index.entries : Accepts(o, "blob")}

\* checkIndexes: an index that does not read is a finding and no more.
CheckIndexes ==
  /\ pc = "index"
  /\ IF ~IndexReads
     THEN status' = status \cup {"index"} /\ UNCHANGED <<type, reach>>
     ELSE LET beside == repo.index.trees \cup repo.index.undo
          IN  /\ type' = [o \in Objects |-> IF o \in TakenEntries THEN "blob" ELSE type[o]]
              /\ reach' = reach \cup TakenEntries \cup (beside \cap hasObj)
              /\ status' = status
                   \cup (IF beside \subseteq hasObj THEN {} ELSE {"refs"})
                   \cup (IF \E o \in repo.index.trees \cap hasObj : type[o] # "tree"
                         THEN {"object"} ELSE {})
  /\ GoOn("files")
  /\ UNCHANGED <<repo, work, hasObj, edges, refused, blobs, list, fatal, found, first, runs>>

RevIndexFaults == repo.faults \cap {"rev"}
BitmapFaults == repo.faults \cap {"bitmap"}

\* checkPackRevIndexes and verifyBitmapFiles.
CheckIndexFiles ==
  /\ pc = "files"
  /\ status' = status \cup RevIndexFaults \cup BitmapFaults
  /\ GoOn("connect")
  /\ UNCHANGED <<repo, work, table, blobs, list, fatal, reach, found, first, runs>>

-----------------------------------------------------------------------------
(***************************************************************************)
(* checkConnectivity, whose traversal is the subject of Connectivity, and  *)
(* the list for the caller.                                                *)
(***************************************************************************)
\* Mutated form: an object that some link has given a type counts as there.
Absent_Untyped(o) == o \notin hasObj /\ type[o] = "none"

\* checkReachableObject: nothing produced it and no pack lists it.
Absent(o) == o \notin hasObj /\ ~HasPacked(o)

Wanted(R, d) == d[2] \/ d[1] \in R

CheckConnectivity ==
  /\ pc = "connect"
  /\ LET R == ReachVia(reach, hasObj, LAMBDA o : edges[o])
         missing == {o \in R : Absent(o)}
         broken == R \cap hasObj \cap refused # {}
     IN  /\ reach' = R
         /\ partial' = (partial \/ broken)
         /\ damaged' = damaged \cup {<<o, TRUE>> : o \in missing}
         /\ status' = status \cup (IF broken \/ missing # {} THEN {"reachable"} ELSE {})
  /\ GoOn("graphs")
  /\ UNCHANGED <<repo, work, table, blobs, fatal, found, first, runs>>

CommitGraphFaults == repo.faults \cap {"graph"}
MultiPackFaults == repo.faults \cap {"midx"}

\* verifyGraphFiles, and the verdict main.go makes of the run: a multi-pack-
\* index with the wrong signature ends the run, and then there is none.
VerifyGraphFiles ==
  /\ pc = "graphs"
  /\ status' = status \cup CommitGraphFaults \cup MultiPackFaults
  /\ fatal' = ("midxfatal" \in repo.faults)
  /\ pc' = "scan"
  /\ verdict' = IF fatal' THEN NoVerdict
                ELSE [given |-> TRUE, status |-> status',
                      out |-> {d[1] : d \in {x \in damaged : Wanted(reach, x)}},
                      whole |-> ~partial]
  /\ UNCHANGED <<repo, work, table, blobs, list, reach, found, first, runs>>

-----------------------------------------------------------------------------
(***************************************************************************)
(* The first scan of the repair.                                           *)
(***************************************************************************)
\* Mutated form: a pack that failed its check does not matter.
DamageNamed_AnyPack(v) == v.given /\ v.whole

DamageNamed(v) == v.given /\ v.whole /\ "pack" \notin v.status

RefsReach(v) == DamageNamed(v) /\ v.out = {}

\* What the walk would report if nobody told it to stop.
ScanRoots == RefTips \cup repo.own
Readable == {o \in Objects : Reads(o)}
BadReach == ReachVia(ScanRoots, Readable, Targets) \ Readable

\* scan: the walk is skipped, or stops at the last of the objects named, or
\* goes everywhere; see WalkExact of RepairWalk.
Scan ==
  /\ pc = "scan"
  /\ IF RefsReach(verdict) THEN found' = {}
     ELSE \E F \in SUBSET BadReach :
            /\ \/ F = BadReach
               \/ DamageNamed(verdict) /\ Cardinality(F) >= Cardinality(verdict.out)
            /\ found' = F
  /\ pc' = "done"
  /\ UNCHANGED <<repo, work, table, blobs, list, status, fatal, reach, verdict, first, runs>>

\* The same repository, diagnosed again.
RunAgain ==
  /\ pc = "done" /\ runs < MaxRuns
  /\ runs' = runs + 1 /\ first' = verdict
  /\ pc' = "refs" /\ todo' = {} /\ busy' = {} /\ left' = [o \in Objects |-> {}]
  /\ type' = [o \in Objects |-> "none"] /\ hasObj' = {}
  /\ edges' = [o \in Objects |-> {}] /\ refused' = {}
  /\ named' = {} /\ checked' = {} /\ damaged' = {} /\ partial' = FALSE
  /\ status' = {} /\ fatal' = FALSE /\ reach' = {}
  /\ verdict' = NoVerdict /\ found' = {}
  /\ UNCHANGED repo

Rest == pc = "done" /\ runs = MaxRuns /\ UNCHANGED vars

Next ==
  \/ CheckRefs \/ SnapshotRefs
  \/ CheckBadCopy \/ RefuseCopy \/ TakeCopy \/ ResolveLink \/ EndCopy \/ EndPlace
  \/ FinishDeferredBlobs \/ DefaultHeads \/ CheckIndexes \/ CheckIndexFiles
  \/ CheckConnectivity \/ VerifyGraphFiles \/ Scan \/ RunAgain \/ Rest

Spec == Init /\ [][Next]_vars

-----------------------------------------------------------------------------
(***************************************************************************)
(* Properties.                                                             *)
(***************************************************************************)
\* Packed objects that no read yields and of which the check of the packs says
\* nothing: on a cycle of deltas, or beyond the longest chain that is read.
\* Being in a pack is proof enough for the connectivity check (verify.go
\* verifyObjects, db.go readPacked, connectivity.go checkReachableObject).
PassedOver == {o \in Objects : Dies(o) /\ ~EntryReported(o)}

\* What the list cannot account for: objects that read and that the object
\* pass refused, whose links it therefore never saw.
Unwalked == Readable \ hasObj

\* References straight to an object that was not taken, of which a file is
\* there or which a tree names as .gitmodules or .gitattributes.
UnreadTips == {o \in RefTips : o \notin hasObj /\ (Has(o) \/ o \in named)}

\* A list that is whole names every object a search from the references would
\* report, except what can only be reached through an object the run refused,
\* from a reference of a linked worktree, or as a reference's own target when
\* an earlier pass put that on the list as damage nothing may lead to: its file
\* is corrupt, or a tree names it as a special blob and it does not read; and
\* except what the check of the packs passed over (heads.go handleRef, run.go
\* reportDamaged; repair.go Verdict).
ListAccounts ==
  pc \in {"scan", "done"} /\ DamageNamed(verdict) =>
    ReachVia(RefTips \ UnreadTips, Readable \ Unwalked, Targets)
      \ (Readable \cup PassedOver)
      \subseteq verdict.out

\* Where none of the four exceptions is met, the scan misses nothing, however
\* much of its walk the verdict lets it skip (scan.go scan; main_test.go "the
\* skip above must not cost a repair").
SkipIsSafe ==
  pc = "done" /\ verdict.given /\ UnreadTips = {} /\ Unwalked = {}
              /\ repo.own \subseteq RefTips /\ PassedOver = {}
    => found = BadReach

\* A run that ends with no bit set has produced everything that references and
\* reflogs lead to and every entry of the index it took, but what the check of
\* the packs passed over and what only that leads to (run.go Run).
CleanMeansThere ==
  pc = "done" /\ verdict.given /\ verdict.status = {} =>
    /\ ReachVia(RefTips \cup LogNames, Objects \ PassedOver, Targets)
         \subseteq Readable \cup PassedOver
    /\ TakenEntries \subseteq Readable \cup PassedOver

\* Nothing in the repository gives an object two types, and no special blob
\* is produced by some check and refused by a read.
Settled ==
  /\ \A o \in Objects : \A l \in repo.links[o] : l.as = repo.type[l.to]
  /\ \A o \in repo.special : ~(Dies(o) /\ \E p \in Places : Produces(p, o))

\* Then the order in which workers take the copies does not show in the
\* verdict (objtable.go Lookup and reconcile).
OrderIsHidden == pc = "done" /\ runs > 1 /\ Settled => verdict = first

\* What a verdict says of the repository is so (run.go Run, repair.go Verdict).
VerdictHolds == TypeOK /\ ListAccounts /\ CleanMeansThere
=============================================================================
