----------------------------- MODULE FsckProofs -------------------------------
(***************************************************************************)
(* Proofs about the fsck: about Diagnosis, for any repositories, places    *)
(* and objects and every order in which the passes are handed their work;  *)
(* about the Meter beside it, for any number of workers, any calls in any  *)
(* order, any total and every interleaving with the timer; and about the   *)
(* ObjTable under its object pass, for any repositories, any number of     *)
(* workers and shards, any slab sizes and every interleaving.              *)
(***************************************************************************)
EXTENDS Diagnosis, Meter, ObjTable, FiniteSetTheorems, WellFoundedInduction, TLAPS

-----------------------------------------------------------------------------
(***************************************************************************)
(* The inductive invariant of the diagnosis, one named part per idea.      *)
(***************************************************************************)
Before == {"refs", "snapshot"}
AfterPass == {"deferred", "heads", "index", "files", "connect", "graphs"}

\* The run came to its end.
Given == pc \in {"scan", "done"} /\ verdict.given

\* A place is behind the run, and so is one copy of it.
Passed(p) ==
  \/ pc \in AfterPass \/ Given
  \/ p = "loose" /\ pc \in {"alt", "pack"}
  \/ p = "alt" /\ pc = "pack"

Handled(p, o) == Passed(p) \/ (pc = p /\ o \notin todo)

\* What the workers have in hand.
AtWork ==
  /\ pc \in Places => todo \subseteq CopiesAt(pc)
  /\ pc \notin Places => busy = {}
  /\ busy \subseteq hasObj /\ refused \subseteq hasObj
  /\ \A o \in Objects : left[o] \subseteq repo.links[o]
  /\ \A o \in Objects \ busy : left[o] = {}
  /\ pc \in Before => /\ hasObj = {} /\ damaged = {} /\ named = {} /\ checked = {} /\ ~partial /\ reach = {}
                      /\ \A o \in Objects : type[o] = "none"
  /\ pc = "refs" => status = {}
  /\ pc \notin {"scan", "done"} => verdict = NoVerdict

\* An object that was taken is what its name says, and its links are recorded,
\* refused or still to be looked up.
Recorded ==
  \A o \in hasObj :
    /\ type[o] = repo.type[o] /\ Parses(o)
    /\ \E p \in Places : Produces(p, o)
    /\ o \notin refused => Targets(o) = edges[o] \cup {l.to : l \in left[o]}
    /\ o \in refused => o \in busy \/ "object" \in status

\* Whatever is behind the run has left its mark.
Noticed ==
  \A p \in Places, o \in Objects : Handled(p, o) =>
    /\ IF p = "pack" THEN EntryReported(o) => "pack" \in status
       ELSE repo.copy[p][o] = "bad" => "object" \in status /\ <<o, FALSE>> \in damaged
    /\ Produces(p, o) => o \in hasObj \/ "object" \in status

\* What is on the list without being rooted is a file that is there, or was
\* named by a tree; what is rooted was not taken.
Listed ==
  /\ pc \in Before \cup Places \cup {"deferred", "heads"} =>
       \A x \in Objects \cup {NoObject}, r \in BOOLEAN : <<x, r>> \in damaged =>
         x \in Objects /\ ~r /\ (Has(x) \/ (pc = "heads" /\ x \in named))
  /\ \A o \in Objects : <<o, TRUE>> \in damaged => o \notin hasObj

\* What the starting points have left behind.
Started ==
  pc \in {"index", "files", "connect", "graphs"} \/ Given =>
    /\ (RefTips \cup LogNames) \cap hasObj \subseteq reach
    /\ RefTips \cup LogNames \subseteq hasObj \/ "reachable" \in status
    /\ \A o \in RefTips \ hasObj : ~Has(o) /\ o \notin named => <<o, TRUE>> \in damaged

\* The index has been gone through.
Indexed ==
  pc \in {"files", "connect", "graphs"} \/ Given => "index" \in status \/ TakenEntries \subseteq reach

\* What is reachable is followed as far as it goes.
Followed ==
  pc = "graphs" \/ Given =>
    /\ \A o \in reach \cap hasObj : edges[o] \subseteq reach
    /\ \A o \in reach : Absent(o) => <<o, TRUE>> \in damaged /\ "reachable" \in status
    /\ reach \cap hasObj \cap refused # {} => partial

\* The verdict, and what the scan made of it.
Concluded ==
  /\ Given => /\ verdict.status = status /\ verdict.whole = ~partial
              /\ verdict.out = {d[1] : d \in {x \in damaged : Wanted(reach, x)}}
  /\ pc = "done" =>
       IF RefsReach(verdict) THEN found = {}
       ELSE /\ found \subseteq BadReach
            /\ \/ found = BadReach
               \/ DamageNamed(verdict) /\ Cardinality(found) >= Cardinality(verdict.out)

(***************************************************************************)
(* What each phase comes to where nothing is ambiguous.                    *)
(***************************************************************************)
Made == {o \in Objects : \E p \in Places : Produces(p, o)}
Kept == {o \in Made : Parses(o)}
Spoilt == {o \in Objects : \E p \in {"loose", "alt"} : repo.copy[p][o] = "bad"}
Specials == UNION {SpecialIn(o) : o \in Kept}
Typed(o) == o \in Made \/ \E q \in Kept : o \in Targets(q)

Bit(b, holds) == IF holds THEN {b} ELSE {}

StatusBefore == Bit("refs", RefFileFault \/ PackedRefsFault)
ObjectFaults == Spoilt # {} \/ \E o \in Made : ~Parses(o) \/ Complaint(o)
BadEntries == \E o \in Objects : EntryReported(o)
PassStatus == StatusBefore \cup Bit("object", ObjectFaults) \cup Bit("pack", BadEntries) \cup PackSumFaults
PassDamage == {<<o, FALSE>> : o \in Spoilt}
EndStatus == PassStatus \cup Bit("object", \E o \in Specials : ~Reads(o) \/ repo.type[o] # "blob" \/ Complaint(o))
EndDamage == PassDamage \cup {<<o, FALSE>> : o \in {s \in Specials : ~Reads(s)}}

Unheld == {o \in RefTips \ Kept : <<o, FALSE>> \notin EndDamage}
HeadStatus ==
  EndStatus \cup Bit("reachable", repo.garbled \/ ~(RefTips \cup LogNames \subseteq Kept))
            \cup Bit("refs", \E o \in repo.branches \cap Kept : repo.type[o] # "commit")
HeadDamage == EndDamage \cup {<<o, TRUE>> : o \in {u \in Unheld : ~Has(u)}}
                        \cup (IF repo.garbled THEN {<<NoObject, TRUE>>} ELSE {})
HeadPartial == (\E o \in Unheld : Has(o)) \/ ~(LogNames \subseteq Kept)
HeadReach == (RefTips \cup LogNames) \cap Kept

Beside == repo.index.trees \cup repo.index.undo
Entries == {o \in repo.index.entries : Typed(o) => repo.type[o] = "blob"}
IndexStatus ==
  HeadStatus \cup
    (IF ~IndexReads THEN {"index"}
     ELSE Bit("refs", ~(Beside \subseteq Kept))
          \cup Bit("object", \E o \in repo.index.trees \cap Kept : repo.type[o] # "tree"))
IndexReach == HeadReach \cup (IF IndexReads THEN Entries \cup (Beside \cap Kept) ELSE {})
FileStatus == IndexStatus \cup RevIndexFaults \cup BitmapFaults

FullReach == ReachVia(IndexReach, Kept, Targets)
Gone == {o \in FullReach : o \notin Kept /\ ~HasPacked(o)}
FullStatus == FileStatus \cup Bit("reachable", Gone # {})
FullDamage == HeadDamage \cup {<<o, TRUE>> : o \in Gone}

StopsEarly == \E o \in RefTips : Dies(o)
StopsLater == (\E o \in Specials : Dies(o)) \/ repo.unpackable \/ "midxfatal" \in repo.faults

TheVerdict ==
  IF StopsEarly \/ StopsLater THEN NoVerdict
  ELSE [given |-> TRUE, status |-> FullStatus \cup CommitGraphFaults \cup MultiPackFaults,
        out |-> {d[1] : d \in {x \in FullDamage : Wanted(FullReach, x)}},
        whole |-> ~HeadPartial]

InRun == pc \in Before \cup Places \cup AfterPass

\* Nothing is refused: an entry that has a type has the right one.
Resolved ==
  /\ refused = {} /\ hasObj \subseteq Kept
  /\ \/ pc \in {"files", "connect", "graphs"}
     \/ \A o \in Objects : type[o] = "none" \/ (type[o] = repo.type[o] /\ Typed(o))
  /\ \A q \in hasObj : \A l \in repo.links[q] \ left[q] : type[l.to] # "none"

\* A good copy that is behind the run was taken, or does not parse.
Treated ==
  \A p \in Places, o \in Objects : Handled(p, o) /\ Produces(p, o) =>
    /\ type[o] # "none"
    /\ IF Parses(o) THEN o \in hasObj ELSE "object" \in status

\* The special blobs are those the trees name.
Called ==
  /\ named \subseteq Specials
  /\ \A o \in hasObj \ busy : SpecialIn(o) \subseteq named
  /\ \A o \in checked : o \in named /\ o \in hasObj /\ repo.type[o] = "blob"

\* What has been said so far is what will have been said.
Tallied ==
  /\ pc = "snapshot" => status = StatusBefore
  /\ \A o \in hasObj \ busy : Complaint(o) => "object" \in status
  /\ pc \in Places => /\ status \subseteq PassStatus /\ StatusBefore \subseteq status
                      /\ damaged \subseteq PassDamage /\ ~partial /\ reach = {}
  /\ pc \notin Before => ~StopsEarly

Exact ==
  /\ pc \in AfterPass =>
       /\ hasObj = Kept /\ named = Specials
       /\ pc \in {"files", "connect", "graphs"} \/ \A o \in Objects : type[o] = IF Typed(o) THEN repo.type[o] ELSE "none"
  /\ pc = "deferred" => status = PassStatus /\ damaged = PassDamage
  /\ pc = "heads" => status = EndStatus /\ damaged = EndDamage
  /\ pc \in {"deferred", "heads"} => ~partial /\ reach = {}
  /\ pc \in AfterPass \ {"deferred"} => \A o \in Specials : ~Dies(o)
  /\ pc \in AfterPass \ {"deferred", "heads"} => ~repo.unpackable
  /\ pc \in {"index", "files", "connect"} => damaged = HeadDamage /\ partial = HeadPartial
  /\ pc = "index" => status = HeadStatus /\ reach = HeadReach
  /\ pc = "files" => status = IndexStatus /\ reach = IndexReach
  /\ pc = "connect" => status = FileStatus /\ reach = IndexReach
  /\ pc = "graphs" => /\ status = FullStatus /\ reach = FullReach /\ damaged = FullDamage
                      /\ partial = HeadPartial

Determined ==
  Settled =>
    /\ InRun => Resolved /\ Treated /\ Called /\ Tallied
    /\ Exact
    /\ pc \in {"scan", "done"} => verdict = TheVerdict
    /\ runs > 1 => first = TheVerdict

DiagnosisInv ==
  /\ TypeOK /\ AtWork /\ Recorded /\ Noticed /\ Listed
  /\ Started /\ Indexed /\ Followed /\ Concluded /\ Determined

-----------------------------------------------------------------------------
(***************************************************************************)
(* What the repository is made of.                                         *)
(***************************************************************************)
\* The parts of a repository have the types their names say.
LEMMA RepoFacts ==
  ASSUME repo \in Repo
  PROVE  /\ repo.type \in [Objects -> Types]
         /\ repo.links \in [Objects -> SUBSET Links]
         /\ repo.copy \in [Places -> [Objects -> PackCopy]]
         /\ \A p \in Places \ {"pack"} : \A o \in Objects : repo.copy[p][o] \in Copy
         /\ repo.special \subseteq Objects
         /\ repo.refs \subseteq Objects
         /\ repo.branches \subseteq Objects
         /\ repo.own \subseteq Objects
         /\ repo.logs \subseteq Objects
         /\ repo.garbled \in BOOLEAN /\ repo.unpackable \in BOOLEAN
         /\ repo.index.ok \in BOOLEAN
         /\ repo.index.entries \subseteq Objects
         /\ repo.index.trees \subseteq Objects
         /\ repo.index.undo \subseteq Objects
         /\ repo.faults \subseteq {"pack", "refs", "graph", "midx", "midxfatal", "rev", "bitmap"}
  BY DEF Repo, AnyRepo

\* A link leads to an object, and so do the targets.
LEMMA TargetFacts ==
  ASSUME repo \in Repo, NEW o \in Objects
  PROVE  /\ \A l \in repo.links[o] : l.to \in Objects /\ l.as \in Types
         /\ Targets(o) \subseteq Objects
         /\ SpecialIn(o) \subseteq Objects
         /\ SpecialIn(o) \subseteq repo.special
  <1>1. repo.links[o] \subseteq Links
    BY RepoFacts
  <1> QED
    BY <1>1, RepoFacts DEF Links, Targets, SpecialIn
-----------------------------------------------------------------------------
(***************************************************************************)
(* Types.                                                                  *)
(***************************************************************************)
\* The list is made of objects and the null name, rooted or not.
Noted == (Objects \cup {NoObject}) \X BOOLEAN

\* The conjuncts of TypeOK, by the variables they are about.
PhaseTyped ==
  /\ repo \in Repo /\ runs \in 1..MaxRuns
  /\ pc \in {"refs", "snapshot", "loose", "alt", "pack", "deferred", "heads",
             "index", "files", "connect", "graphs", "scan", "done"}

WorkTyped ==
  todo \subseteq Objects /\ busy \subseteq Objects /\ left \in [Objects -> SUBSET Links]

TableTyped ==
  /\ type \in [Objects -> Types \cup {"none"}] /\ edges \in [Objects -> SUBSET Objects]
  /\ hasObj \subseteq Objects /\ refused \subseteq Objects

ListTyped ==
  /\ named \subseteq Objects /\ checked \subseteq Objects
  /\ damaged \subseteq Noted /\ partial \in BOOLEAN

StatusTyped ==
  fatal \in BOOLEAN /\ status \subseteq Bits /\ reach \subseteq Objects /\ found \subseteq Objects

VerdictTyped ==
  \A v \in {verdict, first} :
    v \in [given : BOOLEAN, status : SUBSET Bits,
           out : SUBSET (Objects \cup {NoObject}), whole : BOOLEAN]

LEMMA TypeParts ==
  TypeOK <=> /\ PhaseTyped /\ WorkTyped /\ TableTyped
             /\ ListTyped /\ StatusTyped /\ VerdictTyped
  BY DEF TypeOK, Noted, PhaseTyped, WorkTyped, TableTyped, ListTyped, StatusTyped, VerdictTyped

LEMMA NotedFacts ==
  /\ \A o \in Objects : <<o, FALSE>> \in Noted
  /\ \A S \in SUBSET Objects, r \in BOOLEAN : {<<o, r>> : o \in S} \subseteq Noted
  /\ <<NoObject, TRUE>> \in Noted
  <1>1. \A o \in Objects \cup {NoObject}, r \in BOOLEAN : <<o, r>> \in Noted
    BY DEF Noted
  <1>2. ASSUME NEW S \in SUBSET Objects, NEW r \in BOOLEAN
        PROVE  {<<o, r>> : o \in S} \subseteq Noted
    BY <1>1
  <1> QED
    BY <1>1

\* There is no verdict to begin with.
LEMMA NoVerdictTyped ==
  NoVerdict \in [given : BOOLEAN, status : SUBSET Bits,
                 out : SUBSET (Objects \cup {NoObject}), whole : BOOLEAN]
  BY DEF NoVerdict

LEMMA PhaseTypeStep ==
  ASSUME TypeOK, [Next]_vars
  PROVE  PhaseTyped'
<1> USE RepoAssumption
<1>r. repo \in Repo
  BY DEF TypeOK
<1>1. CASE CheckRefs
  BY <1>1, <1>r, RepoFacts, TargetFacts, TypeParts, NoVerdictTyped DEF CheckRefs, PhaseTyped, GoOn,
     Die, work
<1>2. CASE SnapshotRefs
  BY <1>2, <1>r, RepoFacts, TargetFacts, TypeParts, NoVerdictTyped DEF SnapshotRefs, PhaseTyped,
     GoOn, Die, work
<1>3. CASE CheckBadCopy
  BY <1>3, <1>r, RepoFacts, TargetFacts, TypeParts, NoVerdictTyped DEF CheckBadCopy, PhaseTyped,
     GoOn, Die, work, outcome
<1>4. CASE RefuseCopy
  BY <1>4, <1>r, RepoFacts, TargetFacts, TypeParts, NoVerdictTyped DEF RefuseCopy, PhaseTyped, GoOn,
     Die, work, outcome
<1>5. CASE TakeCopy
  BY <1>5, <1>r, RepoFacts, TargetFacts, TypeParts, NoVerdictTyped DEF TakeCopy, PhaseTyped, GoOn,
     Die, work, outcome
<1>6. CASE ResolveLink
  BY <1>6, <1>r, RepoFacts, TargetFacts, TypeParts, NoVerdictTyped DEF ResolveLink, PhaseTyped,
     GoOn, Die, work, outcome
<1>7. CASE EndCopy
  BY <1>7, <1>r, RepoFacts, TargetFacts, TypeParts, NoVerdictTyped DEF EndCopy, PhaseTyped, GoOn,
     Die, work, outcome
<1>8. CASE EndPlace
  BY <1>8, <1>r, RepoFacts, TargetFacts, TypeParts, NoVerdictTyped DEF EndPlace, Places, PhaseTyped,
     GoOn, Die, work
<1>9. CASE FinishDeferredBlobs
  BY <1>9, <1>r, RepoFacts, TargetFacts, TypeParts, NoVerdictTyped DEF FinishDeferredBlobs,
     PhaseTyped, GoOn, Die, work
<1>10. CASE DefaultHeads
  BY <1>10, <1>r, RepoFacts, TargetFacts, TypeParts, NoVerdictTyped DEF DefaultHeads, PhaseTyped,
     GoOn, Die, work
<1>11. CASE CheckIndexes
  BY <1>11, <1>r, RepoFacts, TargetFacts, TypeParts, NoVerdictTyped DEF CheckIndexes, PhaseTyped,
     GoOn, Die, work
<1>12. CASE CheckIndexFiles
  BY <1>12, <1>r, RepoFacts, TargetFacts, TypeParts, NoVerdictTyped DEF CheckIndexFiles, PhaseTyped,
     GoOn, Die, work
<1>13. CASE CheckConnectivity
  BY <1>13, <1>r, RepoFacts, TargetFacts, TypeParts, NoVerdictTyped DEF CheckConnectivity,
     PhaseTyped, GoOn, Die, work
<1>14. CASE VerifyGraphFiles
  BY <1>14, <1>r, RepoFacts, TargetFacts, TypeParts, NoVerdictTyped DEF VerifyGraphFiles,
     PhaseTyped, GoOn, Die, work
<1>15. CASE Scan
  BY <1>15, <1>r, RepoFacts, TargetFacts, TypeParts, NoVerdictTyped DEF Scan, PhaseTyped, GoOn, Die,
     work
<1>16. CASE RunAgain
  BY <1>16, <1>r, RepoFacts, TargetFacts, TypeParts, NoVerdictTyped DEF RunAgain, PhaseTyped, GoOn,
     Die, work
<1>17. CASE UNCHANGED vars
  BY <1>17, TypeParts DEF vars, PhaseTyped, outcome
<1> QED
  BY <1>1, <1>2, <1>3, <1>4, <1>5, <1>6, <1>7, <1>8, <1>9, <1>10, <1>11, <1>12, <1>13, <1>14, <1>15, <1>16, <1>17 DEF Next, Rest

LEMMA WorkTypeStep ==
  ASSUME TypeOK, [Next]_vars
  PROVE  WorkTyped'
<1> USE RepoAssumption
<1>r. repo \in Repo
  BY DEF TypeOK
<1>1. CASE CheckRefs
  BY <1>1, <1>r, RepoFacts, TargetFacts, TypeParts, NoVerdictTyped DEF CheckRefs, WorkTyped, GoOn,
     Die, work
<1>2. CASE SnapshotRefs
  BY <1>2, <1>r, RepoFacts, TargetFacts, TypeParts, NoVerdictTyped DEF SnapshotRefs, CopiesAt,
     WorkTyped, GoOn, Die, work
<1>3. CASE CheckBadCopy
  BY <1>3, <1>r, RepoFacts, TargetFacts, TypeParts, NoVerdictTyped DEF CheckBadCopy, WorkTyped,
     GoOn, Die, work
<1>4. CASE RefuseCopy
  BY <1>4, <1>r, RepoFacts, TargetFacts, TypeParts, NoVerdictTyped DEF RefuseCopy, WorkTyped, GoOn,
     Die, work
<1>5. CASE TakeCopy
  BY <1>5, <1>r, RepoFacts, TargetFacts, TypeParts, NoVerdictTyped DEF TakeCopy, WorkTyped, GoOn,
     Die, work
<1>6. CASE ResolveLink
  BY <1>6, <1>r, RepoFacts, TargetFacts, TypeParts, NoVerdictTyped DEF ResolveLink, WorkTyped, GoOn,
     Die, work
<1>7. CASE EndCopy
  BY <1>7, <1>r, RepoFacts, TargetFacts, TypeParts, NoVerdictTyped DEF EndCopy, WorkTyped, GoOn,
     Die, work
<1>8. CASE EndPlace
  BY <1>8, <1>r, RepoFacts, TargetFacts, TypeParts, NoVerdictTyped DEF EndPlace, Places, CopiesAt,
     WorkTyped, GoOn, Die, work
<1>9. CASE FinishDeferredBlobs
  BY <1>9, <1>r, RepoFacts, TargetFacts, TypeParts, NoVerdictTyped DEF FinishDeferredBlobs,
     WorkTyped, GoOn, Die, work
<1>10. CASE DefaultHeads
  BY <1>10, <1>r, RepoFacts, TargetFacts, TypeParts, NoVerdictTyped DEF DefaultHeads, WorkTyped,
     GoOn, Die, work
<1>11. CASE CheckIndexes
  BY <1>11, <1>r, RepoFacts, TargetFacts, TypeParts, NoVerdictTyped DEF CheckIndexes, WorkTyped,
     GoOn, Die, work
<1>12. CASE CheckIndexFiles
  BY <1>12, <1>r, RepoFacts, TargetFacts, TypeParts, NoVerdictTyped DEF CheckIndexFiles, WorkTyped,
     GoOn, Die, work
<1>13. CASE CheckConnectivity
  BY <1>13, <1>r, RepoFacts, TargetFacts, TypeParts, NoVerdictTyped DEF CheckConnectivity,
     WorkTyped, GoOn, Die, work
<1>14. CASE VerifyGraphFiles
  BY <1>14, <1>r, RepoFacts, TargetFacts, TypeParts, NoVerdictTyped DEF VerifyGraphFiles, WorkTyped,
     GoOn, Die, work
<1>15. CASE Scan
  BY <1>15, <1>r, RepoFacts, TargetFacts, TypeParts, NoVerdictTyped DEF Scan, WorkTyped, GoOn, Die,
     work
<1>16. CASE RunAgain
  BY <1>16, <1>r, RepoFacts, TargetFacts, TypeParts, NoVerdictTyped DEF RunAgain, WorkTyped, GoOn,
     Die, work
<1>17. CASE UNCHANGED vars
  BY <1>17, TypeParts DEF vars, WorkTyped, work, table, blobs, list, outcome
<1> QED
  BY <1>1, <1>2, <1>3, <1>4, <1>5, <1>6, <1>7, <1>8, <1>9, <1>10, <1>11, <1>12, <1>13, <1>14, <1>15, <1>16, <1>17 DEF Next, Rest

LEMMA TableTypeStep ==
  ASSUME TypeOK, [Next]_vars
  PROVE  TableTyped'
<1> USE RepoAssumption
<1>r. repo \in Repo
  BY DEF TypeOK
<1>1. CASE CheckRefs
  BY <1>1, <1>r, RepoFacts, TargetFacts, TypeParts, NoVerdictTyped DEF CheckRefs, TableTyped, GoOn, Die, work, table, blobs, list, outcome, Bits
<1>2. CASE SnapshotRefs
  BY <1>2, <1>r, RepoFacts, TargetFacts, TypeParts, NoVerdictTyped DEF SnapshotRefs, TableTyped, GoOn, Die, work, table, blobs, list, outcome, Bits
<1>3. CASE CheckBadCopy
  BY <1>3, <1>r, RepoFacts, TargetFacts, TypeParts, NoVerdictTyped DEF CheckBadCopy, TableTyped, GoOn, Die, work, table, blobs, list, outcome, Bits
<1>4. CASE RefuseCopy
  BY <1>4, <1>r, RepoFacts, TargetFacts, TypeParts, NoVerdictTyped DEF RefuseCopy, TableTyped, GoOn,
     Die, work
<1>5. CASE TakeCopy
  BY <1>5, <1>r, RepoFacts, TargetFacts, TypeParts, NoVerdictTyped DEF TakeCopy, TableTyped, GoOn,
     Die, work
<1>6. CASE ResolveLink
  <2>1. PICK o \in busy : \E l \in left[o] : Resolve(o, l)
    BY <1>6 DEF ResolveLink
  <2>0. PICK l \in left[o] : Resolve(o, l)
    BY <2>1
  <2>2. o \in Objects /\ l.to \in Objects /\ l.as \in Types
    BY TypeParts DEF WorkTyped, Links
  <2> QED
    BY <1>6, <2>0, <2>2, TypeParts DEF ResolveLink, Resolve, TableTyped
<1>7. CASE EndCopy
  BY <1>7, <1>r, RepoFacts, TargetFacts, TypeParts, NoVerdictTyped DEF EndCopy, TableTyped, GoOn, Die, work, table, blobs, list, outcome, Bits
<1>8. CASE EndPlace
  BY <1>8, <1>r, RepoFacts, TargetFacts, TypeParts, NoVerdictTyped DEF EndPlace, TableTyped, GoOn, Die, work, table, blobs, list, outcome, Bits
<1>9. CASE FinishDeferredBlobs
  BY <1>9, <1>r, RepoFacts, TargetFacts, TypeParts, NoVerdictTyped DEF FinishDeferredBlobs, TableTyped, GoOn, Die, work, table, blobs, list, outcome, Bits
<1>10. CASE DefaultHeads
  BY <1>10, <1>r, RepoFacts, TargetFacts, TypeParts, NoVerdictTyped DEF DefaultHeads, TableTyped, GoOn, Die, work, table, blobs, list, outcome, Bits
<1>11. CASE CheckIndexes
  BY <1>11, <1>r, RepoFacts, TargetFacts, TypeParts, NoVerdictTyped DEF CheckIndexes, Types,
     TableTyped, GoOn, Die, work
<1>12. CASE CheckIndexFiles
  BY <1>12, <1>r, RepoFacts, TargetFacts, TypeParts, NoVerdictTyped DEF CheckIndexFiles, TableTyped, GoOn, Die, work, table, blobs, list, outcome, Bits
<1>13. CASE CheckConnectivity
  BY <1>13, <1>r, RepoFacts, TargetFacts, TypeParts, NoVerdictTyped DEF CheckConnectivity, TableTyped, GoOn, Die, work, table, blobs, list, outcome, Bits
<1>14. CASE VerifyGraphFiles
  BY <1>14, <1>r, RepoFacts, TargetFacts, TypeParts, NoVerdictTyped DEF VerifyGraphFiles, TableTyped, GoOn, Die, work, table, blobs, list, outcome, Bits
<1>15. CASE Scan
  BY <1>15, <1>r, RepoFacts, TargetFacts, TypeParts, NoVerdictTyped DEF Scan, TableTyped, GoOn, Die, work, table, blobs, list, outcome, Bits
<1>16. CASE RunAgain
  BY <1>16, <1>r, RepoFacts, TargetFacts, TypeParts, NoVerdictTyped DEF RunAgain, TableTyped, GoOn,
     Die, work
<1>17. CASE UNCHANGED vars
  BY <1>17, TypeParts DEF vars, TableTyped, table
<1> QED
  BY <1>1, <1>2, <1>3, <1>4, <1>5, <1>6, <1>7, <1>8, <1>9, <1>10, <1>11, <1>12, <1>13, <1>14, <1>15, <1>16, <1>17 DEF Next, Rest

LEMMA ListTypeStep ==
  ASSUME TypeOK, [Next]_vars
  PROVE  ListTyped'
<1> USE RepoAssumption
<1>r. repo \in Repo
  BY DEF TypeOK
<1>1. CASE CheckRefs
  BY <1>1, <1>r, RepoFacts, TargetFacts, TypeParts, NoVerdictTyped DEF CheckRefs, ListTyped, GoOn,
     Die, work, blobs, list
<1>2. CASE SnapshotRefs
  BY <1>2, <1>r, RepoFacts, TargetFacts, TypeParts, NoVerdictTyped DEF SnapshotRefs, ListTyped,
     GoOn, Die, work, blobs, list
<1>3. CASE CheckBadCopy
  <2>1. PICK o \in Objects : damaged' = damaged \/ NoteBadFile(o)
    BY <1>3 DEF CheckBadCopy
  <2> QED
    BY <1>3, <2>1, TypeParts, NotedFacts DEF CheckBadCopy, NoteBadFile, ListTyped, blobs
<1>4. CASE RefuseCopy
  BY <1>4, <1>r, RepoFacts, TargetFacts, TypeParts, NoVerdictTyped DEF RefuseCopy, ListTyped, GoOn,
     Die, work, blobs, list
<1>5. CASE TakeCopy
  BY <1>5, <1>r, RepoFacts, TargetFacts, TypeParts, NoVerdictTyped DEF TakeCopy, ListTyped, GoOn,
     Die, work, blobs, list
<1>6. CASE ResolveLink
  BY <1>6, <1>r, RepoFacts, TargetFacts, TypeParts, NoVerdictTyped DEF ResolveLink, ListTyped, GoOn,
     Die, work, blobs, list
<1>7. CASE EndCopy
  <2>1. PICK o \in busy : named' = named \cup SpecialIn(o) /\ checked' = checked \cup Taken(o)
    BY <1>7 DEF EndCopy
  <2> QED
    BY <1>7, <1>r, <2>1, TargetFacts, TypeParts DEF EndCopy, Taken, ListTyped, WorkTyped, list
<1>8. CASE EndPlace
  BY <1>8, <1>r, RepoFacts, TargetFacts, TypeParts, NoVerdictTyped DEF EndPlace, ListTyped, GoOn,
     Die, work, blobs, list
<1>9. CASE FinishDeferredBlobs
  <2>1. PICK lost \in SUBSET named : damaged' = damaged \cup {<<o, FALSE>> : o \in lost}
    BY <1>9, {o \in named \ checked : ~Reads(o)} \in SUBSET named DEF FinishDeferredBlobs
  <2>2. lost \in SUBSET Objects
    BY TypeParts DEF ListTyped
  <2>3. {<<o, FALSE>> : o \in lost} \subseteq Noted
    BY <2>2, NotedFacts
  <2> QED
    BY <1>9, <2>1, <2>3, TypeParts DEF FinishDeferredBlobs, ListTyped, blobs
<1>10. CASE DefaultHeads
  <2>3. {u \in Unpointed : ~Has(u)} \in SUBSET Objects
    BY <1>r, RepoFacts DEF Unpointed, RefTips
  <2>4. {<<o, TRUE>> : o \in {u \in Unpointed : ~Has(u)}} \subseteq Noted
    BY <2>3, NotedFacts
  <2>1. AddedByRefs \subseteq Noted
    BY <2>4, NotedFacts DEF AddedByRefs
  <2>2. /\ damaged' = damaged \cup AddedByRefs /\ UNCHANGED <<named, checked>>
        /\ partial' = (partial \/ UntakenFile \/ LostInLogs # {})
    BY <1>10 DEF DefaultHeads, blobs
  <2> QED
    BY <2>1, <2>2, TypeParts DEF ListTyped
<1>11. CASE CheckIndexes
  BY <1>11, <1>r, RepoFacts, TargetFacts, TypeParts, NoVerdictTyped DEF CheckIndexes, ListTyped,
     GoOn, Die, work, blobs, list
<1>12. CASE CheckIndexFiles
  BY <1>12, <1>r, RepoFacts, TargetFacts, TypeParts, NoVerdictTyped DEF CheckIndexFiles, ListTyped,
     GoOn, Die, work, blobs, list
<1>13. CASE CheckConnectivity
  <2>1. PICK missing \in SUBSET Objects : damaged' = damaged \cup {<<o, TRUE>> : o \in missing}
    BY <1>13 DEF CheckConnectivity, ReachVia
  <2>2. UNCHANGED <<named, checked>> /\ partial' \in BOOLEAN
    BY <1>13, TypeParts DEF CheckConnectivity, blobs, ListTyped
  <2>3. {<<o, TRUE>> : o \in missing} \subseteq Noted
    BY NotedFacts
  <2> QED
    BY <2>1, <2>2, <2>3, TypeParts DEF ListTyped
<1>14. CASE VerifyGraphFiles
  BY <1>14, <1>r, RepoFacts, TargetFacts, TypeParts, NoVerdictTyped DEF VerifyGraphFiles, ListTyped,
     GoOn, Die, work, blobs, list
<1>15. CASE Scan
  BY <1>15, <1>r, RepoFacts, TargetFacts, TypeParts, NoVerdictTyped DEF Scan, ListTyped, GoOn, Die,
     work, blobs, list
<1>16. CASE RunAgain
  BY <1>16, <1>r, RepoFacts, TargetFacts, TypeParts, NoVerdictTyped DEF RunAgain, ListTyped, GoOn,
     Die, work
<1>17. CASE UNCHANGED vars
  BY <1>17, TypeParts DEF vars, ListTyped, blobs, list
<1> QED
  BY <1>1, <1>2, <1>3, <1>4, <1>5, <1>6, <1>7, <1>8, <1>9, <1>10, <1>11, <1>12, <1>13, <1>14, <1>15, <1>16, <1>17 DEF Next, Rest

LEMMA StatusTypeStep ==
  ASSUME TypeOK, [Next]_vars
  PROVE  StatusTyped'
<1> USE RepoAssumption
<1>r. repo \in Repo
  BY DEF TypeOK
<1>1. CASE CheckRefs
  BY <1>1, <1>r, RepoFacts, TargetFacts, TypeParts, NoVerdictTyped DEF CheckRefs, StatusTyped, GoOn,
     Die, work, Bits
<1>2. CASE SnapshotRefs
  BY <1>2, <1>r, RepoFacts, TargetFacts, TypeParts, NoVerdictTyped DEF SnapshotRefs, StatusTyped,
     GoOn, Die, work
<1>3. CASE CheckBadCopy
  BY <1>3, <1>r, RepoFacts, TargetFacts, TypeParts, NoVerdictTyped DEF CheckBadCopy, NoteBadFile,
     StatusTyped, GoOn, Die, work, outcome, Bits
<1>4. CASE RefuseCopy
  BY <1>4, <1>r, RepoFacts, TargetFacts, TypeParts, NoVerdictTyped DEF RefuseCopy, StatusTyped,
     GoOn, Die, work, outcome, Bits
<1>5. CASE TakeCopy
  BY <1>5, <1>r, RepoFacts, TargetFacts, TypeParts, NoVerdictTyped DEF TakeCopy, StatusTyped, GoOn,
     Die, work, outcome
<1>6. CASE ResolveLink
  BY <1>6, <1>r, RepoFacts, TargetFacts, TypeParts, NoVerdictTyped DEF ResolveLink, StatusTyped,
     GoOn, Die, work, outcome
<1>7. CASE EndCopy
  BY <1>7, <1>r, RepoFacts, TargetFacts, TypeParts, NoVerdictTyped DEF EndCopy, StatusTyped, GoOn,
     Die, work, outcome, Bits
<1>8. CASE EndPlace
  BY <1>8, <1>r, RepoFacts, TargetFacts, TypeParts, NoVerdictTyped DEF EndPlace, PackSumFaults,
     Places, StatusTyped, GoOn, Die, work, Bits
<1>9. CASE FinishDeferredBlobs
  BY <1>9, <1>r, RepoFacts, TargetFacts, TypeParts, NoVerdictTyped DEF FinishDeferredBlobs,
     StatusTyped, GoOn, Die, work, Bits
<1>10. CASE DefaultHeads
  BY <1>10, <1>r, RepoFacts, TargetFacts, TypeParts, NoVerdictTyped DEF DefaultHeads, RefTips,
     LogNames, StatusTyped, GoOn, Die, work, Bits
<1>11. CASE CheckIndexes
  BY <1>11, <1>r, RepoFacts, TargetFacts, TypeParts, NoVerdictTyped DEF CheckIndexes, TakenEntries,
     StatusTyped, GoOn, Die, work, Bits
<1>12. CASE CheckIndexFiles
  BY <1>12, <1>r, RepoFacts, TargetFacts, TypeParts, NoVerdictTyped DEF CheckIndexFiles,
     RevIndexFaults, BitmapFaults, StatusTyped, GoOn, Die, work, Bits
<1>13. CASE CheckConnectivity
  BY <1>13, <1>r, RepoFacts, TargetFacts, TypeParts, NoVerdictTyped DEF CheckConnectivity, ReachVia,
     StatusTyped, GoOn, Die, work, Bits
<1>14. CASE VerifyGraphFiles
  BY <1>14, <1>r, RepoFacts, TargetFacts, TypeParts, NoVerdictTyped DEF VerifyGraphFiles,
     CommitGraphFaults, MultiPackFaults, StatusTyped, GoOn, Die, work, Bits
<1>15. CASE Scan
  BY <1>15, <1>r, RepoFacts, TargetFacts, TypeParts, NoVerdictTyped DEF Scan, BadReach, ReachVia,
     StatusTyped, GoOn, Die, work
<1>16. CASE RunAgain
  BY <1>16, <1>r, RepoFacts, TargetFacts, TypeParts, NoVerdictTyped DEF RunAgain, StatusTyped, GoOn,
     Die, work
<1>17. CASE UNCHANGED vars
  BY <1>17, TypeParts DEF vars, StatusTyped, outcome
<1> QED
  BY <1>1, <1>2, <1>3, <1>4, <1>5, <1>6, <1>7, <1>8, <1>9, <1>10, <1>11, <1>12, <1>13, <1>14, <1>15, <1>16, <1>17 DEF Next, Rest

LEMMA VerdictTypeStep ==
  ASSUME TypeOK, [Next]_vars
  PROVE  VerdictTyped'
<1> USE RepoAssumption
<1>r. repo \in Repo
  BY DEF TypeOK
<1>1. CASE CheckRefs
  BY <1>1, <1>r, RepoFacts, TargetFacts, TypeParts, NoVerdictTyped DEF CheckRefs, VerdictTyped,
     GoOn, Die, work
<1>2. CASE SnapshotRefs
  BY <1>2, <1>r, RepoFacts, TargetFacts, TypeParts, NoVerdictTyped DEF SnapshotRefs, VerdictTyped,
     GoOn, Die, work
<1>3. CASE CheckBadCopy
  BY <1>3, <1>r, RepoFacts, TargetFacts, TypeParts, NoVerdictTyped DEF CheckBadCopy, VerdictTyped,
     GoOn, Die, work, outcome
<1>4. CASE RefuseCopy
  BY <1>4, <1>r, RepoFacts, TargetFacts, TypeParts, NoVerdictTyped DEF RefuseCopy, VerdictTyped,
     GoOn, Die, work, outcome
<1>5. CASE TakeCopy
  BY <1>5, <1>r, RepoFacts, TargetFacts, TypeParts, NoVerdictTyped DEF TakeCopy, VerdictTyped, GoOn,
     Die, work, outcome
<1>6. CASE ResolveLink
  BY <1>6, <1>r, RepoFacts, TargetFacts, TypeParts, NoVerdictTyped DEF ResolveLink, VerdictTyped,
     GoOn, Die, work, outcome
<1>7. CASE EndCopy
  BY <1>7, <1>r, RepoFacts, TargetFacts, TypeParts, NoVerdictTyped DEF EndCopy, VerdictTyped, GoOn,
     Die, work, outcome
<1>8. CASE EndPlace
  BY <1>8, <1>r, RepoFacts, TargetFacts, TypeParts, NoVerdictTyped DEF EndPlace, Places,
     VerdictTyped, GoOn, Die, work
<1>9. CASE FinishDeferredBlobs
  BY <1>9, <1>r, RepoFacts, TargetFacts, TypeParts, NoVerdictTyped DEF FinishDeferredBlobs,
     VerdictTyped, GoOn, Die, work
<1>10. CASE DefaultHeads
  BY <1>10, <1>r, RepoFacts, TargetFacts, TypeParts, NoVerdictTyped DEF DefaultHeads, VerdictTyped,
     GoOn, Die, work
<1>11. CASE CheckIndexes
  BY <1>11, <1>r, RepoFacts, TargetFacts, TypeParts, NoVerdictTyped DEF CheckIndexes, VerdictTyped,
     GoOn, Die, work
<1>12. CASE CheckIndexFiles
  BY <1>12, <1>r, RepoFacts, TargetFacts, TypeParts, NoVerdictTyped DEF CheckIndexFiles,
     VerdictTyped, GoOn, Die, work
<1>13. CASE CheckConnectivity
  BY <1>13, <1>r, RepoFacts, TargetFacts, TypeParts, NoVerdictTyped DEF CheckConnectivity,
     VerdictTyped, GoOn, Die, work
<1>14. CASE VerifyGraphFiles
  <2>1. status' \subseteq Bits /\ partial \in BOOLEAN
    BY <1>14, TypeParts DEF VerifyGraphFiles, ListTyped, StatusTyped, CommitGraphFaults, MultiPackFaults, Bits
  <2>2. {d[1] : d \in {x \in damaged : Wanted(reach, x)}} \subseteq Objects \cup {NoObject}
    BY TypeParts DEF ListTyped, Noted
  <2>3. verdict' \in {NoVerdict, [given |-> TRUE, status |-> status',
                                 out |-> {d[1] : d \in {x \in damaged : Wanted(reach, x)}},
                                 whole |-> ~partial]}
    BY <1>14 DEF VerifyGraphFiles
  <2>4. UNCHANGED first
    BY <1>14 DEF VerifyGraphFiles
  <2>6. [given |-> TRUE, status |-> status',
         out |-> {d[1] : d \in {x \in damaged : Wanted(reach, x)}}, whole |-> ~partial]
          \in [given : BOOLEAN, status : SUBSET Bits,
               out : SUBSET (Objects \cup {NoObject}), whole : BOOLEAN]
    BY <2>1, <2>2
  <2>5. verdict' \in [given : BOOLEAN, status : SUBSET Bits,
                      out : SUBSET (Objects \cup {NoObject}), whole : BOOLEAN]
    BY <2>3, <2>6, NoVerdictTyped
  <2> QED
    BY <2>4, <2>5, TypeParts DEF VerdictTyped
<1>15. CASE Scan
  BY <1>15, <1>r, RepoFacts, TargetFacts, TypeParts, NoVerdictTyped DEF Scan, VerdictTyped, GoOn,
     Die, work
<1>16. CASE RunAgain
  BY <1>16, <1>r, RepoFacts, TargetFacts, TypeParts, NoVerdictTyped DEF RunAgain, VerdictTyped,
     GoOn, Die, work
<1>17. CASE UNCHANGED vars
  BY <1>17, TypeParts DEF vars, VerdictTyped, outcome
<1> QED
  BY <1>1, <1>2, <1>3, <1>4, <1>5, <1>6, <1>7, <1>8, <1>9, <1>10, <1>11, <1>12, <1>13, <1>14, <1>15, <1>16, <1>17 DEF Next, Rest

LEMMA TypeStep ==
  ASSUME TypeOK, [Next]_vars
  PROVE  TypeOK'
  BY PhaseTypeStep, WorkTypeStep, TableTypeStep, ListTypeStep, StatusTypeStep, VerdictTypeStep
  DEF TypeOK, Noted, PhaseTyped, WorkTyped, TableTyped, ListTyped, StatusTyped, VerdictTyped

-----------------------------------------------------------------------------
(***************************************************************************)
(* What steps leave alone.                                                 *)
(***************************************************************************)
\* Who writes to which variable.
LEMMA WhoWrites ==
  ASSUME [Next]_vars
  PROVE  /\ repo' = repo
         /\ RunAgain \/ TakeCopy \/ hasObj' = hasObj
         /\ RunAgain \/ TakeCopy \/ EndCopy \/ busy' = busy
         /\ RunAgain \/ TakeCopy \/ ResolveLink \/ UNCHANGED <<left, edges, refused>>
         /\ RunAgain \/ RefuseCopy \/ TakeCopy \/ ResolveLink \/ CheckIndexes \/ type' = type
         /\ RunAgain \/ EndCopy \/ UNCHANGED <<named, checked>>
         /\ RunAgain \/ DefaultHeads \/ CheckIndexes \/ CheckConnectivity \/ reach' = reach
         /\ RunAgain \/ DefaultHeads \/ CheckConnectivity \/ partial' = partial
         /\ RunAgain \/ CheckBadCopy \/ FinishDeferredBlobs \/ DefaultHeads
               \/ CheckConnectivity \/ damaged' = damaged
         /\ RunAgain \/ UNCHANGED <<first, runs>>
<1>1. CASE CheckRefs
  BY <1>1 DEF CheckRefs, work, table, blobs, list, outcome
<1>2. CASE SnapshotRefs
  BY <1>2 DEF SnapshotRefs, table, blobs, list
<1>3. CASE CheckBadCopy
  BY <1>3 DEF CheckBadCopy, table, blobs, outcome
<1>4. CASE RefuseCopy
  BY <1>4 DEF RefuseCopy, blobs, list, outcome
<1>5. CASE TakeCopy
  BY <1>5 DEF TakeCopy, blobs, list, outcome
<1>6. CASE ResolveLink
  BY <1>6 DEF ResolveLink, blobs, list, outcome
<1>7. CASE EndCopy
  BY <1>7 DEF EndCopy, table, list, outcome
<1>8. CASE EndPlace
  BY <1>8 DEF EndPlace, table, blobs, list
<1>9. CASE FinishDeferredBlobs
  BY <1>9 DEF FinishDeferredBlobs, work, table, blobs, list, outcome
<1>10. CASE DefaultHeads
  BY <1>10 DEF DefaultHeads, work, table, blobs, list, outcome
<1>11. CASE CheckIndexes
  BY <1>11 DEF CheckIndexes, work, table, blobs, list, outcome
<1>12. CASE CheckIndexFiles
  BY <1>12 DEF CheckIndexFiles, work, table, blobs, list, outcome
<1>13. CASE CheckConnectivity
  BY <1>13 DEF CheckConnectivity, work, table, blobs, list, outcome
<1>14. CASE VerifyGraphFiles
  BY <1>14 DEF VerifyGraphFiles, work, table, blobs, list, outcome
<1>15. CASE Scan
  BY <1>15 DEF Scan, work, table, blobs, list, outcome
<1>16. CASE RunAgain
  BY <1>16 DEF RunAgain
<1>17. CASE UNCHANGED vars
  BY <1>17 DEF vars, work, table, blobs, list, outcome
<1> QED
  BY <1>1, <1>2, <1>3, <1>4, <1>5, <1>6, <1>7, <1>8, <1>9, <1>10, <1>11, <1>12, <1>13, <1>14, <1>15, <1>16, <1>17 DEF Next, Rest

\* Within a run nothing is taken back.
LEMMA Growth ==
  ASSUME TypeOK, [Next]_vars
  PROVE  \/ RunAgain
         \/ /\ hasObj \subseteq hasObj' /\ named \subseteq named' /\ damaged \subseteq damaged'
            /\ status \subseteq status' /\ reach \subseteq reach' /\ (partial => partial')
<1>1. CASE CheckRefs
  BY <1>1 DEF CheckRefs, table, blobs, list
<1>2. CASE SnapshotRefs
  BY <1>2 DEF SnapshotRefs, table, blobs, list
<1>3. CASE CheckBadCopy
  BY <1>3 DEF CheckBadCopy, NoteBadFile, table, blobs
<1>4. CASE RefuseCopy
  BY <1>4 DEF RefuseCopy, blobs, list
<1>5. CASE TakeCopy
  BY <1>5 DEF TakeCopy, blobs, list
<1>6. CASE ResolveLink
  BY <1>6 DEF ResolveLink, blobs, list
<1>7. CASE EndCopy
  BY <1>7 DEF EndCopy, table, list
<1>8. CASE EndPlace
  BY <1>8 DEF EndPlace, table, blobs, list
<1>9. CASE FinishDeferredBlobs
  BY <1>9 DEF FinishDeferredBlobs, table, blobs
<1>10. CASE DefaultHeads
  BY <1>10 DEF DefaultHeads, table, blobs
<1>11. CASE CheckIndexes
  BY <1>11 DEF CheckIndexes, blobs, list
<1>12. CASE CheckIndexFiles
  BY <1>12 DEF CheckIndexFiles, table, blobs, list
<1>13. CASE CheckConnectivity
  BY <1>13, TypeParts DEF CheckConnectivity, ReachVia, StatusTyped, table, blobs
<1>14. CASE VerifyGraphFiles
  BY <1>14 DEF VerifyGraphFiles, table, blobs, list
<1>15. CASE Scan
  BY <1>15 DEF Scan, table, blobs, list
<1>16. CASE RunAgain
  BY <1>16 DEF RunAgain
<1>17. CASE UNCHANGED vars
  BY <1>17 DEF vars, table, blobs, list
<1> QED
  BY <1>1, <1>2, <1>3, <1>4, <1>5, <1>6, <1>7, <1>8, <1>9, <1>10, <1>11, <1>12, <1>13, <1>14, <1>15, <1>16, <1>17 DEF Next, Rest

\* Where the phases lead.
LEMMA PhaseStep ==
  ASSUME TypeOK, [Next]_vars
  PROVE  \/ RunAgain /\ pc' = "refs"
         \/ pc' = pc /\ verdict' = verdict
         \/ pc' = "scan" /\ verdict' = NoVerdict
         \/ /\ verdict' = verdict
            /\ \/ CheckRefs /\ pc = "refs" /\ pc' = "snapshot"
               \/ SnapshotRefs /\ pc = "snapshot" /\ pc' = "loose"
               \/ EndPlace /\ pc = "loose" /\ pc' = "alt"
               \/ EndPlace /\ pc = "alt" /\ pc' = "pack"
               \/ EndPlace /\ pc = "pack" /\ pc' = "deferred"
               \/ FinishDeferredBlobs /\ pc = "deferred" /\ pc' = "heads"
               \/ DefaultHeads /\ pc = "heads" /\ pc' = "index"
               \/ CheckIndexes /\ pc = "index" /\ pc' = "files"
               \/ CheckIndexFiles /\ pc = "files" /\ pc' = "connect"
               \/ CheckConnectivity /\ pc = "connect" /\ pc' = "graphs"
               \/ Scan /\ pc = "scan" /\ pc' = "done"
         \/ VerifyGraphFiles /\ pc = "graphs" /\ pc' = "scan"
<1>1. CASE CheckRefs
  BY <1>1 DEF CheckRefs, GoOn, Die, Places, outcome
<1>2. CASE SnapshotRefs
  BY <1>2 DEF SnapshotRefs, GoOn, Die, Places, outcome
<1>3. CASE CheckBadCopy
  BY <1>3 DEF CheckBadCopy, GoOn, Die, Places, outcome
<1>4. CASE RefuseCopy
  BY <1>4 DEF RefuseCopy, GoOn, Die, Places, outcome
<1>5. CASE TakeCopy
  BY <1>5 DEF TakeCopy, GoOn, Die, Places, outcome
<1>6. CASE ResolveLink
  BY <1>6 DEF ResolveLink, GoOn, Die, Places, outcome
<1>7. CASE EndCopy
  BY <1>7 DEF EndCopy, GoOn, Die, Places, outcome
<1>8. CASE EndPlace
  BY <1>8 DEF EndPlace, GoOn, Die, Places, outcome
<1>9. CASE FinishDeferredBlobs
  BY <1>9 DEF FinishDeferredBlobs, GoOn, Die, Places, outcome
<1>10. CASE DefaultHeads
  BY <1>10 DEF DefaultHeads, GoOn, Die, Places, outcome
<1>11. CASE CheckIndexes
  BY <1>11 DEF CheckIndexes, GoOn, Die, Places, outcome
<1>12. CASE CheckIndexFiles
  BY <1>12 DEF CheckIndexFiles, GoOn, Die, Places, outcome
<1>13. CASE CheckConnectivity
  BY <1>13 DEF CheckConnectivity, GoOn, Die, Places, outcome
<1>14. CASE VerifyGraphFiles
  BY <1>14 DEF VerifyGraphFiles, GoOn, Die, Places, outcome
<1>15. CASE Scan
  BY <1>15 DEF Scan, GoOn, Die, Places, outcome
<1>16. CASE RunAgain
  BY <1>16 DEF RunAgain, GoOn, Die, Places, outcome
<1>17. CASE UNCHANGED vars
  BY <1>17 DEF vars, outcome
<1> QED
  BY <1>1, <1>2, <1>3, <1>4, <1>5, <1>6, <1>7, <1>8, <1>9, <1>10, <1>11, <1>12, <1>13, <1>14, <1>15, <1>16, <1>17 DEF Next, Rest

\* What is said of the repository alone stays so.
LEMMA SameRepo ==
  ASSUME repo' = repo
  PROVE  /\ \A p, o : Produces(p, o)' <=> Produces(p, o)
         /\ \A p : CopiesAt(p)' = CopiesAt(p)
         /\ \A o : /\ Has(o)' <=> Has(o)
                   /\ HasPacked(o)' <=> HasPacked(o)
                   /\ Reads(o)' <=> Reads(o)
                   /\ Dies(o)' <=> Dies(o)
                   /\ EntryReported(o)' <=> EntryReported(o)
                   /\ Parses(o)' <=> Parses(o)
                   /\ Complaint(o)' <=> Complaint(o)
                   /\ Targets(o)' = Targets(o)
                   /\ SpecialIn(o)' = SpecialIn(o)
         /\ RefTips' = RefTips /\ LogNames' = LogNames
<1>1. \A p, o : Produces(p, o)' <=> Produces(p, o)
  BY DEF Produces, EntryDecodes, FileReads
<1>2. \A p : CopiesAt(p)' = CopiesAt(p)
  BY DEF CopiesAt
<1>3. ASSUME NEW o
      PROVE  /\ Has(o)' <=> Has(o)
             /\ HasPacked(o)' <=> HasPacked(o)
             /\ EntryReported(o)' <=> EntryReported(o)
             /\ Parses(o)' <=> Parses(o)
             /\ Complaint(o)' <=> Complaint(o)
             /\ Targets(o)' = Targets(o)
  BY DEF Has, HasPacked, EntryReported, Parses, Complaint, Targets
<1>4. ASSUME NEW o
      PROVE  SpecialIn(o)' = SpecialIn(o)
  BY <1>3 DEF SpecialIn
<1>5. ASSUME NEW o
      PROVE  Find(o)' = Find(o)
  BY <1>3 DEF Find
<1>6. ASSUME NEW o
      PROVE  (Reads(o)' <=> Reads(o)) /\ (Dies(o)' <=> Dies(o))
  BY <1>3, <1>5 DEF Reads, FileReads, Dies
<1>7. RefTips' = RefTips /\ LogNames' = LogNames
  BY DEF RefTips, LogNames
<1> QED
  BY <1>1, <1>2, <1>3, <1>4, <1>6, <1>7

\* What a file or an entry comes to.
LEMMA CopyFacts ==
  ASSUME repo \in Repo, NEW p \in Places, NEW o \in Objects
  PROVE  /\ repo.copy[p][o] \in PackCopy
         /\ p # "pack" => repo.copy[p][o] \in Copy /\ (Produces(p, o) <=> repo.copy[p][o] = "good")
         /\ p = "pack" => (Produces(p, o) <=> repo.copy[p][o] \in {"good", "deep"})
         /\ Produces(p, o) => repo.copy[p][o] # "none"
  <1>1. repo.copy[p][o] \in PackCopy /\ (p # "pack" => repo.copy[p][o] \in Copy)
    BY RepoFacts
  <1> QED
    BY <1>1 DEF Produces, EntryDecodes, FileReads

-----------------------------------------------------------------------------
(***************************************************************************)
(* Reachability.                                                           *)
(***************************************************************************)
\* What is found along the recorded links is the least closed set.
LEMMA AlongEdges ==
  ASSUME edges \in [Objects -> SUBSET Objects], NEW S \in SUBSET Objects, NEW V
  PROVE  LET R == ReachVia(S, V, LAMBDA o : edges[o])
         IN  /\ S \subseteq R /\ R \subseteq Objects
             /\ \A o \in R \cap V : edges[o] \subseteq R
             /\ \A X \in SUBSET Objects :
                  S \subseteq X /\ (\A o \in X \cap V : edges[o] \subseteq X) => R \subseteq X
  BY DEF ReachVia

\* What is found along the links themselves is in every closed set.
LEMMA AlongLinks ==
  ASSUME NEW S, NEW V, NEW X \in SUBSET Objects, S \subseteq X,
         \A o \in X \cap V : Targets(o) \subseteq X
  PROVE  ReachVia(S, V, Targets) \subseteq X
  BY DEF ReachVia

-----------------------------------------------------------------------------
(***************************************************************************)
(* The parts of the invariant, one step further.                           *)
(***************************************************************************)
\* Nothing can be said of a copy that is not there.
LEMMA AtWorkStep ==
  ASSUME TypeOK, AtWork, [Next]_vars
  PROVE  AtWork'
<1>0. repo' = repo
  BY WhoWrites
<1>c. \A p : CopiesAt(p)' = CopiesAt(p)
  BY <1>0, SameRepo
<1>3. CASE CheckBadCopy
  BY <1>3, <1>0, <1>c DEF CheckBadCopy, AtWork, Places, Before, CanTake, NoteBadFile, table, blobs, outcome
<1>4. CASE RefuseCopy
  BY <1>4, <1>0, <1>c DEF RefuseCopy, AtWork, Places, Before, CanTake, blobs, list, outcome
<1>5. CASE TakeCopy
  <2>1. PICK o \in Objects :
          /\ CanTake(o) /\ todo' = todo \ {o} /\ hasObj' = hasObj \cup {o}
          /\ busy' = busy \cup {o} /\ left' = [left EXCEPT ![o] = repo.links[o]]
          /\ refused' = refused \ {o}
    BY <1>5 DEF TakeCopy
  <2>2. pc' = pc /\ pc \in Places /\ verdict' = verdict
    BY <1>5, <2>1 DEF TakeCopy, outcome, CanTake
  <2>3. /\ \A q \in Objects : left'[q] \subseteq repo.links[q]
        /\ \A q \in Objects \ busy' : left'[q] = {}
    BY <2>1 DEF AtWork
  <2> QED
    BY <1>0, <1>c, <2>1, <2>2, <2>3 DEF AtWork, Places, Before
<1>6. CASE ResolveLink
  <2>1. PICK o \in busy : \E l \in left[o] : Resolve(o, l) /\ left' = [left EXCEPT ![o] = @ \ {l}]
    BY <1>6 DEF ResolveLink
  <2>2. o \in Objects /\ pc \in Places /\ refused' \subseteq refused \cup {o}
    BY <2>1, TypeParts DEF WorkTyped, AtWork, Resolve
  <2>3. /\ \A q \in Objects : left'[q] \subseteq repo.links[q]
        /\ \A q \in Objects \ busy : left'[q] = {}
    BY <2>1, <2>2, TypeParts DEF AtWork, WorkTyped
  <2> QED
    BY <1>0, <1>6, <1>c, <2>2, <2>3 DEF ResolveLink, AtWork, outcome
<1>8. CASE EndPlace
  <2>1. /\ todo' \subseteq CopiesAt(pc')
        /\ pc \in Places /\ pc' \in {"alt", "pack", "deferred"} /\ busy = {} /\ verdict' = verdict
    BY <1>8 DEF EndPlace, Places, GoOn
  <2> QED
    BY <1>0, <1>8, <1>c, <2>1 DEF EndPlace, AtWork, Places, Before, table, blobs, list
<1>1. CASE CheckRefs
  BY <1>1, <1>0, <1>c DEF CheckRefs, AtWork, Places, Before, GoOn, Die, work, table, blobs, list, outcome
<1>2. CASE SnapshotRefs
  BY <1>2, <1>0, <1>c DEF SnapshotRefs, AtWork, Places, Before, GoOn, Die, table
<1>7. CASE EndCopy
  BY <1>7, <1>0, <1>c DEF EndCopy, AtWork, Places, Before, GoOn, Die, table, outcome
<1>9. CASE FinishDeferredBlobs
  BY <1>9, <1>0, <1>c DEF FinishDeferredBlobs, AtWork, Places, Before, GoOn, Die, work, table, blobs, list, outcome
<1>10. CASE DefaultHeads
  BY <1>10, <1>0, <1>c DEF DefaultHeads, AtWork, Places, Before, GoOn, Die, work, table, blobs, list, outcome
<1>11. CASE CheckIndexes
  BY <1>11, <1>0, <1>c DEF CheckIndexes, AtWork, Places, Before, GoOn, Die, work, table, blobs, list, outcome
<1>12. CASE CheckIndexFiles
  BY <1>12, <1>0, <1>c DEF CheckIndexFiles, AtWork, Places, Before, GoOn, Die, work, table, blobs, list, outcome
<1>13. CASE CheckConnectivity
  BY <1>13, <1>0, <1>c DEF CheckConnectivity, AtWork, Places, Before, GoOn, Die, work, table, blobs, list, outcome
<1>14. CASE VerifyGraphFiles
  BY <1>14, <1>0, <1>c DEF VerifyGraphFiles, AtWork, Places, Before, GoOn, Die, work, table, blobs, list, outcome
<1>15. CASE Scan
  BY <1>15, <1>0, <1>c DEF Scan, AtWork, Places, Before, GoOn, Die, work, table, blobs, list, outcome
<1>16. CASE RunAgain
  BY <1>16, <1>0, <1>c DEF RunAgain, AtWork, Places, Before, GoOn, Die
<1>17. CASE UNCHANGED vars
  BY <1>17, <1>0, <1>c DEF vars, AtWork, work, table, blobs, list, outcome
<1> QED
  BY <1>1, <1>2, <1>3, <1>4, <1>5, <1>6, <1>7, <1>8, <1>9, <1>10, <1>11, <1>12, <1>13, <1>14, <1>15, <1>16, <1>17 DEF Next, Rest

\* Who is at work is at work on a place.
LEMMA OnlyInPlaces ==
  ASSUME AtWork
  PROVE  /\ CheckBadCopy => pc \in Places
         /\ RefuseCopy => pc \in Places
         /\ TakeCopy => pc \in Places
         /\ ResolveLink => pc \in Places
         /\ EndCopy => pc \in Places
  BY DEF AtWork, CheckBadCopy, RefuseCopy, TakeCopy, ResolveLink, EndCopy, CanTake

\* What was taken keeps its type: the entry has one, and Reconcile lets nobody
\* change it.
LEMMA RecordedStep ==
  ASSUME TypeOK, AtWork, Recorded, [Next]_vars
  PROVE  Recorded'
<1>r. repo' = repo /\ repo \in Repo
  BY WhoWrites, TypeParts DEF PhaseTyped
<1>s. /\ \A p, o : Produces(p, o)' <=> Produces(p, o)
      /\ \A o : (Parses(o)' <=> Parses(o)) /\ Targets(o)' = Targets(o)
  BY <1>r, SameRepo
<1> DEFINE Is(o) == /\ type[o] = repo.type[o] /\ Parses(o)
                    /\ \E p \in Places : Produces(p, o)
                    /\ o \notin refused => Targets(o) = edges[o] \cup {l.to : l \in left[o]}
                    /\ o \in refused => o \in busy \/ "object" \in status
<1>h. \A o \in hasObj : o \in Objects /\ Is(o) /\ repo.type[o] \in Types /\ "none" \notin Types
  BY <1>r, TypeParts, RepoFacts DEF TableTyped, Recorded, Types
<1> SUFFICES ASSUME NEW x \in hasObj' PROVE Is(x)'
  BY DEF Recorded
<1>t. CASE TakeCopy
  <2>1. PICK o \in Objects :
          /\ CanTake(o) /\ Produces(pc, o) /\ Parses(o)
          /\ type' = [type EXCEPT ![o] = repo.type[o]] /\ hasObj' = hasObj \cup {o}
          /\ busy' = busy \cup {o} /\ left' = [left EXCEPT ![o] = repo.links[o]]
          /\ edges' = [edges EXCEPT ![o] = {}] /\ refused' = refused \ {o}
    BY <1>t DEF TakeCopy
  <2>2. pc \in Places /\ status' = status
    BY <1>t DEF TakeCopy, CanTake
  <2>3. CASE x = o
    <3>1. type'[o] = repo.type[o] /\ left'[o] = repo.links[o] /\ edges'[o] = {}
      BY <2>1, TypeParts DEF TableTyped, WorkTyped
    <3> QED
      BY <1>r, <1>s, <2>1, <2>2, <2>3, <3>1 DEF Targets
  <2>4. CASE x # o
    <3>1. x \in hasObj /\ x \in Objects
      BY <1>h, <2>1, <2>4
    <3>2. type'[x] = type[x] /\ left'[x] = left[x] /\ edges'[x] = edges[x]
      BY <2>1, <2>4, <3>1, TypeParts DEF TableTyped, WorkTyped
    <3> QED
      BY <1>r, <1>s, <1>h, <2>1, <2>2, <2>4, <3>1, <3>2
  <2> QED
    BY <2>3, <2>4
<1>l. CASE ResolveLink
  <2>1. PICK o \in busy : \E l \in left[o] : Resolve(o, l) /\ left' = [left EXCEPT ![o] = @ \ {l}]
    BY <1>l DEF ResolveLink
  <2>2. PICK l \in left[o] : Resolve(o, l) /\ left' = [left EXCEPT ![o] = @ \ {l}]
    BY <2>1
  <2>3. hasObj' = hasObj /\ busy' = busy /\ status' = status
    BY <1>l DEF ResolveLink
  <2>4. x \in hasObj /\ x \in Objects /\ o \in Objects /\ l.to \in Objects
    BY <1>h, <2>3, TypeParts DEF WorkTyped, Links
  <2>5. CASE Accepts(l.to, l.as)
    <3>1. /\ edges' = [edges EXCEPT ![o] = @ \cup {l.to}] /\ refused' = refused
          /\ type' = [type EXCEPT ![l.to] = l.as]
      BY <2>2, <2>5 DEF Resolve
    <3>2. type'[x] = type[x]
      BY <1>h, <2>4, <2>5, <3>1, TypeParts DEF Accepts, TableTyped
    <3>3. edges'[x] \cup {k.to : k \in left'[x]} = edges[x] \cup {k.to : k \in left[x]}
      BY <2>2, <2>4, <3>1, TypeParts DEF TableTyped, WorkTyped
    <3> QED
      BY <1>r, <1>s, <1>h, <2>3, <2>4, <3>1, <3>2, <3>3
  <2>6. CASE ~Accepts(l.to, l.as)
    <3>1. edges' = edges /\ refused' = refused \cup {o} /\ type' = type
      BY <2>2, <2>6 DEF Resolve
    <3>2. x # o => left'[x] = left[x]
      BY <2>2
    <3> QED
      BY <1>r, <1>s, <1>h, <2>3, <2>4, <3>1, <3>2
  <2> QED
    BY <2>5, <2>6
<1>e. CASE EndCopy
  <2>1. PICK o \in busy : /\ busy' = busy \ {o}
                          /\ status' = status \cup (IF o \in refused \/ Complaint(o) THEN {"object"} ELSE {})
    BY <1>e DEF EndCopy
  <2>2. UNCHANGED <<type, hasObj, edges, refused, left>>
    BY <1>e DEF EndCopy, table
  <2> QED
    BY <1>r, <1>s, <1>h, <2>1, <2>2
<1>f. CASE RefuseCopy
  <2>1. PICK o \in Objects :
          type' = type \/ (Accepts(o, repo.type[o]) /\ type' = [type EXCEPT ![o] = repo.type[o]])
    BY <1>f DEF RefuseCopy
  <2>2. UNCHANGED <<hasObj, edges, refused, left, busy>> /\ status \subseteq status'
    BY <1>f DEF RefuseCopy
  <2>3. type'[x] = type[x]
    BY <1>h, <2>1, <2>2, TypeParts DEF Accepts, TableTyped
  <2> QED
    BY <1>r, <1>s, <1>h, <2>2, <2>3
<1>i. CASE CheckIndexes
  <2>1. type' = type \/ type' = [o \in Objects |-> IF o \in TakenEntries THEN "blob" ELSE type[o]]
    BY <1>i DEF CheckIndexes
  <2>2. UNCHANGED <<hasObj, edges, refused, left, busy>> /\ status \subseteq status'
    BY <1>i DEF CheckIndexes, work
  <2>3. type'[x] = type[x]
    BY <1>h, <2>1, <2>2 DEF Accepts, TakenEntries
  <2> QED
    BY <1>r, <1>s, <1>h, <2>2, <2>3
<1>a. CASE RunAgain
  BY <1>a DEF RunAgain
<1>o. CASE ~(TakeCopy \/ ResolveLink \/ EndCopy \/ RefuseCopy \/ CheckIndexes \/ RunAgain)
  <2>1. UNCHANGED <<type, hasObj, edges, refused, left, busy>> /\ status \subseteq status'
    BY <1>o, WhoWrites, Growth
  <2> QED
    BY <1>r, <1>s, <1>h, <2>1
<1> QED
  BY <1>t, <1>l, <1>e, <1>f, <1>i, <1>a, <1>o

\* A copy comes to be behind the run as one that is not there, or as one that
\* a worker is done with.
LEMMA HandledStep ==
  ASSUME TypeOK, [Next]_vars, NEW p \in Places, NEW o \in Objects, Handled(p, o)'
  PROVE  /\ ~RunAgain
         /\ \/ Handled(p, o)
            \/ repo.copy[p][o] = "none"
            \/ /\ p = pc /\ o \in todo /\ pc' = pc /\ o \notin todo'
               /\ CheckBadCopy \/ RefuseCopy \/ TakeCopy
<1>r. repo' = repo /\ repo \in Repo
  BY WhoWrites, TypeParts DEF PhaseTyped
<1>a. ~RunAgain
  BY DEF RunAgain, Handled, Passed, AfterPass, Given, Places
<1> SUFFICES ASSUME ~Handled(p, o), repo.copy[p][o] # "none"
             PROVE  /\ p = pc /\ o \in todo /\ pc' = pc /\ o \notin todo'
                    /\ CheckBadCopy \/ RefuseCopy \/ TakeCopy
  BY <1>a
<1>0. p \in {"loose", "alt", "pack"} /\ pc \in {"refs", "snapshot", "loose", "alt", "pack",
          "deferred", "heads", "index", "files", "connect", "graphs", "scan", "done"}
  BY TypeParts DEF PhaseTyped, Places
<1>1. p = pc /\ o \in todo /\ pc' = pc /\ o \notin todo'
  <2>1. CASE pc' = pc
    <3>1. verdict' \in {verdict, NoVerdict}
      BY <1>a, <2>1, PhaseStep
    <3> QED
      BY <2>1, <3>1 DEF Handled, Passed, Given, AfterPass, NoVerdict
  <2>2. CASE SnapshotRefs
    <3>1. \/ pc' = "scan" /\ verdict' = NoVerdict
          \/ pc' = "loose" /\ todo' = CopiesAt("loose")
      BY <2>2 DEF SnapshotRefs, Die, GoOn
    <3> QED
      BY <1>0, <3>1 DEF Handled, Passed, Given, AfterPass, NoVerdict, CopiesAt
  <2>3. CASE EndPlace
    <3>1. /\ pc \in Places /\ todo = {}
          /\ \/ pc = "loose" /\ pc' = "alt" /\ todo' = CopiesAt("alt")
             \/ pc = "alt" /\ pc' = "pack" /\ todo' = CopiesAt("pack")
             \/ pc = "pack" /\ pc' = "deferred" /\ todo' = {}
      BY <2>3 DEF EndPlace, GoOn, Places
    <3> QED
      BY <1>0, <3>1 DEF Handled, Passed, Given, AfterPass, CopiesAt
  <2>4. CASE pc' # pc /\ ~SnapshotRefs /\ ~EndPlace
    BY <1>a, <1>0, <2>4, PhaseStep DEF Handled, Passed, Given, AfterPass, NoVerdict
  <2> QED
    BY <2>1, <2>2, <2>3, <2>4
<1>2. CASE ~CheckBadCopy /\ ~RefuseCopy /\ ~TakeCopy
  <2>1. todo' = todo
    BY <1>a, <1>0, <1>1, <1>2 DEF Next, vars, CheckRefs, SnapshotRefs, ResolveLink, EndCopy, EndPlace,
       FinishDeferredBlobs, DefaultHeads, CheckIndexes, CheckIndexFiles,
       CheckConnectivity, VerifyGraphFiles, Scan, Rest, work
  <2> QED
    BY <1>1, <2>1
<1> QED
  BY <1>1, <1>2

\* A copy that is behind the run has left its mark.
LEMMA NoticedStep ==
  ASSUME TypeOK, AtWork, Noticed, [Next]_vars
  PROVE  Noticed'
<1>r. repo' = repo /\ repo \in Repo
  BY WhoWrites, TypeParts DEF PhaseTyped
<1> DEFINE Mark(p, o) ==
      /\ IF p = "pack" THEN EntryReported(o) => "pack" \in status
         ELSE repo.copy[p][o] = "bad" => "object" \in status /\ <<o, FALSE>> \in damaged
      /\ Produces(p, o) => o \in hasObj \/ "object" \in status
<1> SUFFICES ASSUME NEW p \in Places, NEW o \in Objects, Handled(p, o)'
             PROVE  Mark(p, o)'
  BY DEF Noticed
<1>g. hasObj \subseteq hasObj' /\ damaged \subseteq damaged' /\ status \subseteq status'
  BY HandledStep, Growth
<1>c. /\ (Produces(p, o)' <=> Produces(p, o)) /\ (EntryReported(o)' <=> EntryReported(o))
      /\ Produces(p, o) => repo.copy[p][o] \notin {"none", "bad"}
      /\ Produces(p, o) => p # "pack" \/ ~EntryReported(o)
      /\ EntryReported(o) => repo.copy["pack"][o] # "none"
  BY <1>r, CopyFacts, SameRepo DEF EntryReported
<1>h. CASE Handled(p, o)
  BY <1>h, <1>r, <1>c, <1>g DEF Noticed
<1>n. CASE repo.copy[p][o] = "none"
  BY <1>n, <1>c, <1>r
<1>o. CASE p = pc /\ o \in todo /\ o \notin todo' /\ repo.copy[p][o] # "none"
  <2>1. CASE CheckBadCopy
    <3>1. PICK q \in Objects :
            /\ ~Produces(pc, q) /\ todo' = todo \ {q}
            /\ IF pc = "pack"
               THEN status' = status \cup (IF EntryReported(q) THEN {"pack"} ELSE {})
               ELSE NoteBadFile(q)
      BY <2>1 DEF CheckBadCopy
    <3>2. q = o
      BY <1>o, <3>1
    <3> QED
      BY <1>r, <1>o, <1>c, <3>1, <3>2 DEF NoteBadFile
  <2>2. CASE RefuseCopy
    <3>1. PICK q \in Objects : Produces(pc, q) /\ todo' = todo \ {q}
      BY <2>2 DEF RefuseCopy
    <3>2. q = o
      BY <1>o, <3>1
    <3>3. "object" \in status'
      BY <2>2 DEF RefuseCopy
    <3> QED
      BY <1>r, <1>o, <1>c, <3>1, <3>2, <3>3
  <2>3. CASE TakeCopy
    <3>1. PICK q \in Objects : Produces(pc, q) /\ todo' = todo \ {q} /\ hasObj' = hasObj \cup {q}
      BY <2>3 DEF TakeCopy
    <3>2. q = o
      BY <1>o, <3>1
    <3> QED
      BY <1>r, <1>o, <1>c, <3>1, <3>2
  <2>4. CASE Handled(p, o)
    BY <2>4, <1>h
  <2> QED
    BY <1>o, <2>1, <2>2, <2>3, <2>4, HandledStep
<1> QED
  BY <1>h, <1>n, <1>o, HandledStep

\* What a pass notes of an object it did not take stays true: nothing is taken
\* after the passes over the objects.
LEMMA ListedStep ==
  ASSUME TypeOK, AtWork, Listed, [Next]_vars
  PROVE  Listed'
<1>r. repo' = repo /\ repo \in Repo /\ (\A o : Has(o)' <=> Has(o))
  BY WhoWrites, SameRepo, TypeParts DEF PhaseTyped
<1> DEFINE Early == Before \cup Places \cup {"deferred", "heads"}
           Weak(x, r) == x \in Objects /\ ~r /\ (Has(x) \/ (pc = "heads" /\ x \in named))
<1>t. damaged \subseteq Noted /\ damaged' \subseteq Noted /\ NoObject \notin Objects
  BY TypeParts, ListTypeStep, RepoAssumption DEF ListTyped
<1>a. CASE RunAgain
  BY <1>a DEF RunAgain, Listed
<1>b. CASE CheckBadCopy
  <2>1. PICK o \in Objects : o \in todo /\ damaged' \subseteq damaged \cup {<<o, FALSE>>}
    BY <1>b DEF CheckBadCopy, CanTake, NoteBadFile
  <2>2. pc \in Places /\ UNCHANGED <<pc, hasObj, named>>
    BY <1>b DEF CheckBadCopy, CanTake, table, blobs
  <2>3. Has(o)
    BY <2>1, <2>2 DEF AtWork, CopiesAt, Has
  <2> QED
    BY <1>r, <2>1, <2>2, <2>3 DEF Listed
<1>f. CASE FinishDeferredBlobs
  <2>1. damaged' = damaged \cup {<<o, FALSE>> : o \in {b \in named \ checked : ~Reads(b)}}
    BY <1>f DEF FinishDeferredBlobs
  <2>2. pc = "deferred" /\ pc' \in {"heads", "scan"} /\ UNCHANGED <<hasObj, named>>
    BY <1>f DEF FinishDeferredBlobs, GoOn, Die, table, blobs
  <2>3. named \subseteq Objects
    BY TypeParts DEF ListTyped
  <2>4. \A x, r : <<x, r>> \in damaged' => <<x, r>> \in damaged \/ (x \in named /\ r = FALSE)
    BY <2>1
  <2>5. \A x \in Objects \cup {NoObject}, r \in BOOLEAN : <<x, r>> \in damaged' =>
          x \in Objects /\ ~r /\ (Has(x) \/ x \in named)
    BY <2>2, <2>3, <2>4 DEF Listed
  <2> QED
    BY <1>r, <2>2, <2>5 DEF Listed, Before, Places
<1>d. CASE DefaultHeads
  <2>1. damaged' = damaged \cup AddedByRefs /\ UNCHANGED hasObj /\ pc' \in {"index", "scan"}
    BY <1>d DEF DefaultHeads, GoOn, Die, table
  <2>2. \A o \in Objects : <<o, TRUE>> \in AddedByRefs => o \notin hasObj
    BY <1>t DEF AddedByRefs, Unpointed
  <2> QED
    BY <2>1, <2>2 DEF Listed, Before, Places
<1>c. CASE CheckConnectivity
  <2>1. PICK missing \in SUBSET {o \in Objects : Absent(o)} :
          damaged' = damaged \cup {<<o, TRUE>> : o \in missing}
    BY <1>c DEF CheckConnectivity, ReachVia
  <2>2. UNCHANGED hasObj /\ pc' = "graphs"
    BY <1>c DEF CheckConnectivity, GoOn, table
  <2> QED
    BY <2>1, <2>2 DEF Listed, Before, Places, Absent
<1>k. CASE TakeCopy
  <2>1. UNCHANGED <<pc, damaged, named>> /\ pc \in Places
    BY <1>k DEF TakeCopy, CanTake, blobs, list
  <2> QED
    BY <1>r, <2>1 DEF Listed
<1>o. CASE ~(RunAgain \/ CheckBadCopy \/ FinishDeferredBlobs \/ DefaultHeads \/ CheckConnectivity \/ TakeCopy)
  <2>1. UNCHANGED <<damaged, hasObj>> /\ named \subseteq named'
    BY <1>o, WhoWrites, Growth
  <2>2. pc' \in Early => pc \in Early /\ (pc' = "heads" <=> pc = "heads")
    BY <1>o, PhaseStep DEF Before, Places
  <2> QED
    BY <1>r, <2>1, <2>2 DEF Listed
<1> QED
  BY <1>a, <1>b, <1>f, <1>d, <1>c, <1>k, <1>o

\* Past the objects the table stays as it is, but for the types the index gives.
LEMMA Steady ==
  ASSUME AtWork, [Next]_vars, pc \notin Places, ~RunAgain
  PROVE  /\ UNCHANGED <<hasObj, edges, refused, left, busy, named, checked>>
         /\ CheckIndexes \/ type' = type
  BY OnlyInPlaces, WhoWrites

\* A starting point that is there is reachable, and one that is not is noted.
LEMMA StartedStep ==
  ASSUME TypeOK, AtWork, Listed, Started, [Next]_vars
  PROVE  Started'
<1> DEFINE Past == pc \in {"index", "files", "connect", "graphs"} \/ Given
           Left == /\ (RefTips \cup LogNames) \cap hasObj \subseteq reach
                   /\ RefTips \cup LogNames \subseteq hasObj \/ "reachable" \in status
                   /\ \A o \in RefTips \ hasObj : ~Has(o) /\ o \notin named => <<o, TRUE>> \in damaged
<1> SUFFICES ASSUME Past' PROVE Left'
  BY DEF Started
<1>r. repo' = repo /\ RefTips' = RefTips /\ LogNames' = LogNames /\ (\A o : Has(o)' <=> Has(o))
  BY WhoWrites, SameRepo
<1>1. ~RunAgain
  BY DEF RunAgain, Given
<1>2. CASE Past
  <2>1. pc \notin Places
    BY <1>2 DEF Given, Places
  <2>2. hasObj' = hasObj /\ named' = named
    BY <1>1, <2>1, Steady
  <2>3. reach \subseteq reach' /\ status \subseteq status' /\ damaged \subseteq damaged'
    BY <1>1, Growth
  <2> QED
    BY <1>2, <1>r, <2>2, <2>3 DEF Started
<1>3. CASE ~Past
  <2>1. DefaultHeads
    BY <1>3, PhaseStep DEF Given, NoVerdict
  <2>2. /\ pc = "heads" /\ damaged' = damaged \cup AddedByRefs /\ UNCHANGED <<hasObj, named>>
        /\ RefTips \cup LogNames \subseteq hasObj \/ "reachable" \in status'
        /\ (RefTips \cup LogNames) \cap hasObj \subseteq reach'
    BY <2>1 DEF DefaultHeads, table, blobs
  <2>3. ASSUME NEW o \in RefTips \ hasObj, ~Has(o), o \notin named
        PROVE  <<o, TRUE>> \in damaged'
    <3>1. o \in Objects
      BY TypeParts, RepoFacts DEF RefTips, PhaseTyped
    <3>2. ~NamedDamaged(o)
      BY <2>2, <2>3, <3>1 DEF NamedDamaged, Listed
    <3> QED
      BY <2>2, <2>3, <3>2 DEF AddedByRefs, Unpointed
  <2> QED
    BY <1>r, <2>2, <2>3
<1> QED
  BY <1>2, <1>3

\* The entries an index was taken for are the ones it would be taken for again.
LEMMA IndexedStep ==
  ASSUME TypeOK, AtWork, Indexed, [Next]_vars
  PROVE  Indexed'
<1> DEFINE Past == pc \in {"files", "connect", "graphs"} \/ Given
<1> SUFFICES ASSUME Past' PROVE "index" \in status' \/ TakenEntries' \subseteq reach'
  BY DEF Indexed
<1>r. repo' = repo
  BY WhoWrites
<1>1. ~RunAgain
  BY DEF RunAgain, Given
<1>g. reach \subseteq reach' /\ status \subseteq status'
  BY <1>1, Growth
<1>2. CASE CheckIndexes
  <2>1. CASE ~IndexReads
    BY <1>2, <2>1 DEF CheckIndexes
  <2>2. CASE IndexReads
    <3>1. /\ type' = [o \in Objects |-> IF o \in TakenEntries THEN "blob" ELSE type[o]]
          /\ TakenEntries \subseteq reach'
      BY <1>2, <2>2 DEF CheckIndexes
    <3>2. repo.index.entries \subseteq Objects
      BY TypeParts, RepoFacts DEF PhaseTyped
    <3>3. TakenEntries' \subseteq TakenEntries
      BY <1>r, <3>1, <3>2 DEF TakenEntries, Accepts
    <3> QED
      BY <3>1, <3>3
  <2> QED
    BY <2>1, <2>2
<1>3. CASE ~CheckIndexes
  <2>1. Past
    BY <1>3, PhaseStep DEF Given, NoVerdict
  <2>2. type' = type
    BY <1>1, <1>3, <2>1, Steady DEF Given, Places
  <2>3. TakenEntries' = TakenEntries
    BY <1>r, <2>2 DEF TakenEntries, Accepts
  <2> QED
    BY <1>g, <2>1, <2>3 DEF Indexed
<1> QED
  BY <1>2, <1>3

\* What was found reachable stays followed to its end.
LEMMA FollowedStep ==
  ASSUME TypeOK, AtWork, Followed, [Next]_vars
  PROVE  Followed'
<1> DEFINE Past == pc = "graphs" \/ Given
           Walked == /\ \A o \in reach \cap hasObj : edges[o] \subseteq reach
                     /\ \A o \in reach : Absent(o) => <<o, TRUE>> \in damaged /\ "reachable" \in status
                     /\ reach \cap hasObj \cap refused # {} => partial
<1> SUFFICES ASSUME Past' PROVE Walked'
  BY DEF Followed
<1>r. repo' = repo
  BY WhoWrites
<1>1. ~RunAgain
  BY DEF RunAgain, Given
<1>2. CASE CheckConnectivity
  <2> DEFINE R == ReachVia(reach, hasObj, LAMBDA o : edges[o])
  <2>1. /\ reach' = R /\ UNCHANGED <<hasObj, edges, refused>>
        /\ R \cap hasObj \cap refused # {} => partial'
        /\ damaged' = damaged \cup {<<o, TRUE>> : o \in {x \in R : Absent(x)}}
        /\ {x \in R : Absent(x)} # {} => "reachable" \in status'
    BY <1>2 DEF CheckConnectivity, table
  <2>2. \A o \in R \cap hasObj : edges[o] \subseteq R
    BY TypeParts, AlongEdges DEF TableTyped, StatusTyped
  <2>3. \A o : Absent(o)' <=> Absent(o)
    BY <1>r, <2>1, SameRepo DEF Absent
  <2> HIDE DEF R
  <2> QED
    BY <2>1, <2>2, <2>3
<1>3. CASE ~CheckConnectivity
  <2>1. Past
    BY <1>3, PhaseStep DEF Given, NoVerdict
  <2>2. UNCHANGED <<hasObj, edges, refused, reach>>
    BY <1>1, <1>3, <2>1, Steady, WhoWrites DEF Given, Places, DefaultHeads, CheckIndexes
  <2>3. \A o : Absent(o)' <=> Absent(o)
    BY <1>r, <2>2, SameRepo DEF Absent
  <2> QED
    BY <1>1, <2>1, <2>2, <2>3, Growth DEF Followed
<1> QED
  BY <1>2, <1>3

\* The verdict is what the run knows, and the scan goes by the verdict.
LEMMA ConcludedStep ==
  ASSUME TypeOK, AtWork, Concluded, [Next]_vars
  PROVE  Concluded'
<1>r. repo' = repo
  BY WhoWrites
<1>1. ASSUME Given'
      PROVE  /\ verdict'.status = status' /\ verdict'.whole = ~partial'
             /\ verdict'.out = {d[1] : d \in {x \in damaged' : Wanted(reach, x)'}}
  <2>1. CASE VerifyGraphFiles
    <3>1. UNCHANGED <<reach, damaged, partial>>
      BY <2>1 DEF VerifyGraphFiles, list
    <3>2. verdict' = [given |-> TRUE, status |-> status',
                      out |-> {d[1] : d \in {x \in damaged : Wanted(reach, x)}},
                      whole |-> ~partial]
      BY <1>1, <2>1 DEF VerifyGraphFiles, Given, NoVerdict
    <3> QED
      BY <3>1, <3>2
  <2>2. CASE ~VerifyGraphFiles
    <3>1. Given /\ verdict' = verdict /\ pc' \in {"scan", "done"} /\ pc \in {"scan", "done"}
      BY <1>1, <2>2, PhaseStep DEF Given, NoVerdict
    <3>2. UNCHANGED <<status, partial, reach, damaged>>
      BY <3>1, OnlyInPlaces DEF Next, vars, RunAgain, CheckRefs, SnapshotRefs, EndPlace, FinishDeferredBlobs, DefaultHeads,
         CheckIndexes, CheckIndexFiles, CheckConnectivity, VerifyGraphFiles, Scan, Rest, Places, list
    <3> QED
      BY <3>1, <3>2 DEF Concluded
  <2> QED
    BY <2>1, <2>2
<1> DEFINE Found == IF RefsReach(verdict) THEN found = {}
                    ELSE /\ found \subseteq BadReach
                         /\ \/ found = BadReach
                            \/ DamageNamed(verdict) /\ Cardinality(found) >= Cardinality(verdict.out)
<1>2. ASSUME pc' = "done" PROVE Found'
  <2>1. BadReach' = BadReach
    BY <1>r DEF BadReach, ReachVia, ScanRoots, RefTips, Readable, Targets, Reads, Find, Produces, HasPacked, EntryDecodes, FileReads
  <2>2. CASE Scan
    <3>1. verdict' = verdict
      BY <2>2 DEF Scan
    <3> QED
      BY <2>1, <2>2, <3>1 DEF Scan, RefsReach, DamageNamed
  <2>3. CASE ~Scan
    <3>1. pc = "done" /\ verdict' = verdict
      BY <1>2, <2>3, PhaseStep DEF RunAgain, VerifyGraphFiles
    <3>2. found' = found
      BY <1>2, <3>1, OnlyInPlaces DEF Next, vars, RunAgain, CheckRefs, SnapshotRefs, EndPlace, FinishDeferredBlobs, DefaultHeads,
         CheckIndexes, CheckIndexFiles, CheckConnectivity, VerifyGraphFiles, Scan, Rest, Places, outcome
    <3> QED
      BY <2>1, <3>1, <3>2 DEF Concluded, RefsReach, DamageNamed
  <2> QED
    BY <2>2, <2>3
<1> QED
  BY <1>1, <1>2 DEF Concluded

-----------------------------------------------------------------------------
(***************************************************************************)
(* Where nothing is ambiguous.                                             *)
(***************************************************************************)
\* What a run is to come to depends on the repository alone.
LEMMA SameEnds ==
  ASSUME repo' = repo
  PROVE  /\ Settled' <=> Settled
         /\ Made' = Made /\ Kept' = Kept /\ Spoilt' = Spoilt /\ Specials' = Specials
         /\ \A o : Typed(o)' <=> Typed(o)
         /\ StatusBefore' = StatusBefore /\ PassStatus' = PassStatus /\ PassDamage' = PassDamage
         /\ EndStatus' = EndStatus /\ EndDamage' = EndDamage
         /\ HeadStatus' = HeadStatus /\ HeadDamage' = HeadDamage
         /\ HeadPartial' = HeadPartial /\ HeadReach' = HeadReach
         /\ IndexStatus' = IndexStatus /\ IndexReach' = IndexReach /\ FileStatus' = FileStatus
         /\ FullStatus' = FullStatus /\ FullReach' = FullReach /\ FullDamage' = FullDamage
         /\ StopsEarly' = StopsEarly /\ StopsLater' = StopsLater
         /\ TheVerdict' = TheVerdict
<1>1. /\ \A p, o : Produces(p, o)' <=> Produces(p, o)
      /\ \A o : /\ Has(o)' <=> Has(o)
                /\ HasPacked(o)' <=> HasPacked(o)
                /\ Reads(o)' <=> Reads(o)
                /\ Dies(o)' <=> Dies(o)
                /\ EntryReported(o)' <=> EntryReported(o)
                /\ Parses(o)' <=> Parses(o)
                /\ Complaint(o)' <=> Complaint(o)
                /\ Targets(o)' = Targets(o)
                /\ SpecialIn(o)' = SpecialIn(o)
      /\ RefTips' = RefTips /\ LogNames' = LogNames
  BY SameRepo
<1>2. Settled' <=> Settled
  BY <1>1 DEF Settled
<1>3. Made' = Made /\ Spoilt' = Spoilt
  BY <1>1 DEF Made, Spoilt
<1>4. Kept' = Kept
  BY <1>1, <1>3 DEF Kept
<1>5. Specials' = Specials
  BY <1>1, <1>4 DEF Specials
<1>6. \A o : Typed(o)' <=> Typed(o)
  BY <1>1, <1>3, <1>4 DEF Typed
<1>7. StatusBefore' = StatusBefore
  BY DEF StatusBefore, RefFileFault, PackedRefsFault
<1>8. (ObjectFaults' <=> ObjectFaults) /\ (BadEntries' <=> BadEntries)
  BY <1>1, <1>3 DEF ObjectFaults, BadEntries
<1>9. PassStatus' = PassStatus
  BY <1>7, <1>8 DEF PassStatus, Bit, PackSumFaults
<1>10. PassDamage' = PassDamage
  BY <1>3 DEF PassDamage
<1>11. EndStatus' = EndStatus
  BY <1>1, <1>5, <1>9 DEF EndStatus, Bit
<1>12. EndDamage' = EndDamage
  BY <1>1, <1>5, <1>10 DEF EndDamage
<1>13. Unheld' = Unheld
  BY <1>1, <1>4, <1>12 DEF Unheld
<1>14. HeadStatus' = HeadStatus
  BY <1>1, <1>4, <1>11 DEF HeadStatus, Bit
<1>15. HeadDamage' = HeadDamage
  BY <1>1, <1>12, <1>13 DEF HeadDamage
<1>16. HeadPartial' = HeadPartial /\ HeadReach' = HeadReach
  BY <1>1, <1>4, <1>13 DEF HeadPartial, HeadReach
<1>17. IndexStatus' = IndexStatus /\ FileStatus' = FileStatus
  BY <1>4, <1>14 DEF IndexStatus, FileStatus, IndexReads, Beside, RevIndexFaults, BitmapFaults
<1>18. IndexReach' = IndexReach
  BY <1>4, <1>6, <1>16 DEF IndexReach, Entries, Beside, IndexReads
<1>19. FullReach' = FullReach
  BY <1>1, <1>4, <1>18 DEF FullReach, ReachVia
<1>20. Gone' = Gone
  BY <1>1, <1>4, <1>19 DEF Gone
<1>21. FullStatus' = FullStatus /\ FullDamage' = FullDamage
  BY <1>15, <1>17, <1>20 DEF FullStatus, FullDamage, Bit
<1>22. StopsEarly' = StopsEarly /\ StopsLater' = StopsLater
  BY <1>1, <1>5 DEF StopsEarly, StopsLater
<1>23. TheVerdict' = TheVerdict
  BY <1>16, <1>19, <1>21, <1>22 DEF TheVerdict, NoVerdict, CommitGraphFaults, MultiPackFaults, Wanted
<1> QED
  BY <1>2, <1>3, <1>4, <1>5, <1>6, <1>7, <1>9, <1>10, <1>11, <1>12, <1>14, <1>15, <1>16, <1>17, <1>18,
     <1>19, <1>21, <1>22, <1>23

\* A run begins with nothing taken and nothing said.
LEMMA Fresh ==
  AtWork /\ pc = "refs" => Resolved /\ Treated /\ Called /\ Tallied /\ Exact
<1> SUFFICES ASSUME AtWork, pc = "refs"
             PROVE  Resolved /\ Treated /\ Called /\ Tallied /\ Exact
  OBVIOUS
<1>1. /\ hasObj = {} /\ refused = {} /\ named = {} /\ checked = {}
      /\ \A o \in Objects : type[o] = "none"
  BY DEF AtWork, Before
<1>2. \A p, o : ~Handled(p, o) \/ p = "refs"
  BY DEF Handled, Passed, AfterPass, Given
<1>3. Treated
  BY <1>2 DEF Treated, Places
<1> QED
  BY <1>1, <1>3 DEF Resolved, Called, Tallied, Exact, AfterPass, Before, Places

\* The phases a run has left before it ends.
LEMMA InRunFacts ==
  ASSUME TypeOK, InRun, [Next]_vars
  PROVE  ~RunAgain /\ ~Scan /\ ~Rest
  BY DEF InRun, RunAgain, Scan, Rest, Before, Places, AfterPass

\* A settled type is the right one, whoever gives it.
LEMMA ResolvedStep ==
  ASSUME TypeOK, AtWork, Settled, InRun, InRun', Resolved, [Next]_vars
  PROVE  Resolved'
<1>r. repo' = repo /\ repo \in Repo /\ ~RunAgain
  BY WhoWrites, InRunFacts, TypeParts DEF PhaseTyped
<1>s. Kept' = Kept /\ \A o : Typed(o)' <=> Typed(o)
  BY <1>r, SameEnds
<1>n. \A o \in Objects : repo.type[o] # "none"
  BY <1>r, RepoFacts DEF Types
<1>t. CASE TakeCopy
  <2>1. PICK o \in Objects :
          /\ Produces(pc, o) /\ Parses(o) /\ CanTake(o)
          /\ type' = [type EXCEPT ![o] = repo.type[o]] /\ hasObj' = hasObj \cup {o}
          /\ left' = [left EXCEPT ![o] = repo.links[o]] /\ refused' = refused \ {o}
    BY <1>t DEF TakeCopy
  <2>2. pc' = pc /\ pc \in Places
    BY <1>t DEF TakeCopy, CanTake
  <2>3. o \in Made /\ o \in Kept /\ Typed(o)
    BY <2>1, <2>2 DEF Made, Kept, Typed
  <2>4. \A q \in Objects : type'[q] = IF q = o THEN repo.type[o] ELSE type[q]
    BY <2>1, TypeParts DEF TableTyped
  <2>5. \A q \in Objects : left'[q] = IF q = o THEN repo.links[o] ELSE left[q]
    BY <2>1, TypeParts DEF WorkTyped
  <2>6. /\ \A q \in hasObj \cup {o} : q \in Objects
        /\ \A q \in Objects : \A l \in repo.links[q] : l.to \in Objects
    BY <1>r, TargetFacts, TypeParts DEF TableTyped
  <2>7. \A q \in hasObj' : \A l \in repo.links[q] \ left'[q] : type'[l.to] # "none"
    BY <1>n, <2>1, <2>4, <2>5, <2>6 DEF Resolved
  <2> QED
    BY <1>r, <1>s, <2>1, <2>2, <2>3, <2>4, <2>7 DEF Resolved
<1>f. CASE RefuseCopy
  <2>1. PICK o \in Objects :
          /\ Produces(pc, o) /\ CanTake(o)
          /\ type' = type \/ type' = [type EXCEPT ![o] = repo.type[o]]
    BY <1>f DEF RefuseCopy
  <2>2. pc \in Places /\ UNCHANGED <<pc, hasObj, refused, left>>
    BY <1>f DEF RefuseCopy, CanTake
  <2>3. Typed(o)
    BY <2>1, <2>2 DEF Made, Typed
  <2>4. \A q \in Objects : type'[q] = type[q] \/ (q = o /\ type'[q] = repo.type[q])
    BY <2>1, TypeParts DEF TableTyped
  <2>5. \A q \in hasObj : q \in Objects /\ \A l \in repo.links[q] : l.to \in Objects
    BY <1>r, TargetFacts, TypeParts DEF TableTyped
  <2> QED
    BY <1>n, <1>r, <1>s, <2>2, <2>3, <2>4, <2>5 DEF Resolved
<1>l. CASE ResolveLink
  <2>1. PICK o \in busy : \E l \in left[o] : Resolve(o, l) /\ left' = [left EXCEPT ![o] = @ \ {l}]
    BY <1>l DEF ResolveLink
  <2>2. PICK l \in left[o] : Resolve(o, l) /\ left' = [left EXCEPT ![o] = @ \ {l}]
    BY <2>1
  <2>3. pc \in Places /\ UNCHANGED <<pc, hasObj>>
    BY <1>l, OnlyInPlaces DEF ResolveLink
  <2>4. o \in Objects /\ o \in Kept /\ l \in repo.links[o] /\ l.to \in Objects
    BY <1>r, <2>2, TypeParts, TargetFacts DEF WorkTyped, AtWork, Resolved
  <2>5. l.as = repo.type[l.to] /\ Typed(l.to)
    BY <2>4 DEF Settled, Typed, Targets
  <2>6. Accepts(l.to, l.as)
    BY <2>3, <2>4, <2>5 DEF Resolved, Accepts, Places
  <2>7. type' = [type EXCEPT ![l.to] = l.as] /\ refused' = refused
    BY <2>2, <2>6 DEF Resolve
  <2>8. \A q \in Objects : type'[q] = IF q = l.to THEN repo.type[q] ELSE type[q]
    BY <2>5, <2>7, TypeParts DEF TableTyped
  <2>9. \A q \in Objects : left'[q] = IF q = o THEN left[q] \ {l} ELSE left[q]
    BY <2>2, TypeParts DEF WorkTyped
  <2>10. \A q \in hasObj : q \in Objects /\ \A k \in repo.links[q] : k.to \in Objects
    BY <1>r, TargetFacts, TypeParts DEF TableTyped
  <2>11. ASSUME NEW q \in hasObj, NEW k \in repo.links[q] \ left'[q]
         PROVE  type'[k.to] # "none"
    <3>1. CASE k = l
      BY <1>n, <2>4, <2>8, <3>1
    <3>2. CASE k # l
      BY <1>n, <2>8, <2>9, <2>10, <3>2 DEF Resolved
    <3> QED
      BY <3>1, <3>2
  <2> QED
    BY <1>r, <1>s, <2>3, <2>5, <2>7, <2>8, <2>11 DEF Resolved
<1>i. CASE CheckIndexes
  <2>1. type' = type \/ type' = [o \in Objects |-> IF o \in TakenEntries THEN "blob" ELSE type[o]]
    BY <1>i DEF CheckIndexes
  <2>2. pc' = "files" /\ UNCHANGED <<hasObj, refused, left>>
    BY <1>i DEF CheckIndexes, GoOn, work
  <2>3. \A q \in hasObj : \A l \in repo.links[q] : l.to \in Objects
    BY <1>r, TargetFacts, TypeParts DEF TableTyped
  <2> QED
    BY <1>r, <1>s, <2>1, <2>2, <2>3 DEF Resolved
<1>o. CASE ~(TakeCopy \/ RefuseCopy \/ ResolveLink \/ CheckIndexes)
  <2>1. UNCHANGED <<type, hasObj, refused, left>>
    BY <1>o, <1>r, WhoWrites
  <2>2. pc \in {"files", "connect", "graphs"} => pc' \in {"files", "connect", "graphs"}
    BY <1>r, PhaseStep DEF InRun, Before, Places, AfterPass
  <2> QED
    BY <1>r, <1>s, <2>1, <2>2 DEF Resolved
<1> QED
  BY <1>t, <1>f, <1>l, <1>i, <1>o

\* An entry that has a type does not lose it.
LEMMA TypesStay ==
  ASSUME TypeOK, ~RunAgain, [Next]_vars, NEW o \in Objects, type[o] # "none"
  PROVE  type'[o] # "none"
<1>r. repo \in Repo /\ "none" \notin Types /\ repo.type[o] \in Types
  BY TypeParts, RepoFacts DEF PhaseTyped, Types
<1>1. CASE RefuseCopy
  BY <1>1, <1>r, RepoFacts, TypeParts DEF RefuseCopy, TableTyped
<1>2. CASE TakeCopy
  BY <1>2, <1>r, RepoFacts, TypeParts DEF TakeCopy, TableTyped
<1>3. CASE ResolveLink
  <2>1. PICK q \in busy : \E l \in left[q] : Resolve(q, l)
    BY <1>3 DEF ResolveLink
  <2>2. PICK l \in left[q] : Resolve(q, l)
    BY <2>1
  <2>3. l.as \in Types
    BY TypeParts DEF WorkTyped, Links
  <2> QED
    BY <1>r, <2>2, <2>3, TypeParts DEF Resolve, TableTyped
<1>4. CASE CheckIndexes
  BY <1>4 DEF CheckIndexes
<1> QED
  BY <1>1, <1>2, <1>3, <1>4, WhoWrites

\* Nobody has a reason to refuse a copy that parses.
LEMMA TreatedStep ==
  ASSUME TypeOK, AtWork, Settled, InRun, Resolved, Treated, [Next]_vars
  PROVE  Treated'
<1>r. repo' = repo /\ repo \in Repo /\ (\A o : Parses(o)' <=> Parses(o)) /\ ~RunAgain
  BY WhoWrites, SameRepo, InRunFacts, TypeParts DEF PhaseTyped
<1>g. hasObj \subseteq hasObj' /\ status \subseteq status'
  BY <1>r, Growth
<1> SUFFICES ASSUME NEW p \in Places, NEW o \in Objects, Handled(p, o)', Produces(p, o)
             PROVE  /\ type'[o] # "none"
                    /\ IF Parses(o) THEN o \in hasObj' ELSE "object" \in status'
  BY <1>r, SameRepo DEF Treated
<1>c. repo.copy[p][o] # "none"
  BY <1>r, CopyFacts
<1>n. repo.type[o] # "none"
  BY <1>r, RepoFacts DEF Types
<1>h. CASE Handled(p, o)
  BY <1>h, <1>r, <1>g, TypesStay DEF Treated
<1>o. CASE p = pc /\ o \in todo /\ o \notin todo' /\ ~Handled(p, o)
  <2>1. CASE CheckBadCopy
    <3>1. PICK q \in Objects : ~Produces(pc, q) /\ todo' = todo \ {q}
      BY <2>1 DEF CheckBadCopy
    <3> QED
      BY <1>o, <3>1
  <2>2. CASE RefuseCopy
    <3>1. PICK q \in Objects :
            /\ todo' = todo \ {q}
            /\ \/ ~Accepts(q, repo.type[q])
               \/ ~Parses(q) /\ type' = [type EXCEPT ![q] = repo.type[q]]
      BY <2>2 DEF RefuseCopy
    <3>2. q = o
      BY <1>o, <3>1
    <3>3. Accepts(o, repo.type[o])
      BY <1>o DEF Resolved, Accepts, Places
    <3>4. "object" \in status'
      BY <2>2 DEF RefuseCopy
    <3> QED
      BY <1>n, <3>1, <3>2, <3>3, <3>4, TypeParts DEF TableTyped
  <2>3. CASE TakeCopy
    <3>1. PICK q \in Objects :
            /\ Parses(q) /\ todo' = todo \ {q} /\ hasObj' = hasObj \cup {q}
            /\ type' = [type EXCEPT ![q] = repo.type[q]]
      BY <2>3 DEF TakeCopy
    <3>2. q = o
      BY <1>o, <3>1
    <3> QED
      BY <1>n, <3>1, <3>2, TypeParts DEF TableTyped
  <2> QED
    BY <1>o, <1>c, <2>1, <2>2, <2>3, HandledStep
<1> QED
  BY <1>h, <1>o, <1>c, HandledStep

\* Only trees that are kept name special blobs.
LEMMA CalledStep ==
  ASSUME TypeOK, AtWork, InRun, Resolved, Called, [Next]_vars
  PROVE  Called'
<1>r. repo' = repo /\ (\A o : SpecialIn(o)' = SpecialIn(o)) /\ Specials' = Specials /\ ~RunAgain
  BY WhoWrites, SameRepo, SameEnds, InRunFacts
<1>1. CASE EndCopy
  <2>1. PICK o \in busy : /\ busy' = busy \ {o} /\ named' = named \cup SpecialIn(o)
                          /\ checked' = checked \cup Taken(o)
    BY <1>1 DEF EndCopy
  <2>2. hasObj' = hasObj
    BY <1>1 DEF EndCopy, table
  <2>3. o \in hasObj /\ SpecialIn(o) \subseteq Specials
    BY DEF AtWork, Resolved, Specials
  <2>4. Taken(o) \subseteq {o} \cap named /\ (Taken(o) # {} => repo.type[o] = "blob")
    BY DEF Taken
  <2> QED
    BY <1>r, <2>1, <2>2, <2>3, <2>4 DEF Called
<1>2. CASE TakeCopy
  <2>1. PICK o \in Objects : hasObj' = hasObj \cup {o} /\ busy' = busy \cup {o}
    BY <1>2 DEF TakeCopy
  <2> QED
    BY <1>2, <1>r, <2>1 DEF TakeCopy, Called, blobs
<1>3. CASE ~EndCopy /\ ~TakeCopy
  BY <1>3, <1>r, WhoWrites DEF Called
<1> QED
  BY <1>1, <1>2, <1>3

\* Every finding is one that the repository calls for.
LEMMA TalliedStep ==
  ASSUME TypeOK, AtWork, InRun, InRun', Resolved, Tallied, [Next]_vars
  PROVE  Tallied'
<1>r. repo' = repo /\ repo \in Repo /\ (\A o : Complaint(o)' <=> Complaint(o)) /\ ~RunAgain
  BY WhoWrites, SameRepo, InRunFacts, TypeParts DEF PhaseTyped
<1>e. /\ StatusBefore' = StatusBefore /\ PassStatus' = PassStatus /\ PassDamage' = PassDamage
      /\ StopsEarly' <=> StopsEarly
  BY <1>r, SameEnds
<1>b. StatusBefore \subseteq PassStatus
  BY DEF PassStatus
<1>g. status \subseteq status'
  BY <1>r, Growth
<1>1. CASE CheckRefs
  BY <1>1, <1>r, <1>e DEF CheckRefs, Tallied, AtWork, Before, Places, GoOn, StatusBefore, Bit, table, work
<1>2. CASE SnapshotRefs
  <2>1. pc = "snapshot" /\ pc' = "loose" /\ ~StopsEarly
    BY <1>2 DEF SnapshotRefs, InRun, Before, Places, AfterPass, GoOn, Die, StopsEarly
  <2>2. /\ hasObj' = {} /\ status' = StatusBefore /\ damaged' = {} /\ ~partial' /\ reach' = {}
    BY <1>2, <2>1 DEF SnapshotRefs, AtWork, Tallied, Before, table, list
  <2> QED
    BY <1>b, <1>e, <2>1, <2>2 DEF Tallied, Before
<1>3. CASE CheckBadCopy
  <2>1. PICK o \in Objects :
          /\ CanTake(o) /\ ~Produces(pc, o)
          /\ IF pc = "pack"
             THEN /\ status' = status \cup (IF EntryReported(o) THEN {"pack"} ELSE {})
                  /\ UNCHANGED damaged
             ELSE NoteBadFile(o)
    BY <1>3 DEF CheckBadCopy
  <2>2. /\ pc \in Places /\ UNCHANGED <<pc, hasObj, busy, partial, reach>>
        /\ pc \in {"loose", "alt", "pack"}
    BY <1>3 DEF CheckBadCopy, CanTake, table, Places
  <2>3. pc # "pack" => repo.copy[pc][o] = "bad"
    BY <1>r, <2>1, <2>2, CopyFacts DEF AtWork, CanTake, CopiesAt, Copy
  <2>4. CASE pc = "pack"
    <3>1. EntryReported(o) => "pack" \in PassStatus
      BY DEF PassStatus, BadEntries, Bit
    <3> QED
      BY <1>r, <1>e, <1>g, <2>1, <2>2, <2>4, <3>1 DEF Tallied, Before, Places
  <2>5. CASE pc # "pack"
    <3>1. o \in Spoilt
      BY <2>2, <2>3, <2>5 DEF Spoilt
    <3>2. "object" \in PassStatus /\ <<o, FALSE>> \in PassDamage
      BY <3>1 DEF PassStatus, PassDamage, ObjectFaults, Bit
    <3> QED
      BY <1>r, <1>e, <1>g, <2>1, <2>2, <2>5, <3>2 DEF Tallied, Before, Places, NoteBadFile
  <2> QED
    BY <2>4, <2>5
<1>4. CASE RefuseCopy
  <2>1. PICK o \in Objects :
          CanTake(o) /\ Produces(pc, o) /\ (~Accepts(o, repo.type[o]) \/ ~Parses(o))
    BY <1>4 DEF RefuseCopy
  <2>2. /\ pc \in Places /\ UNCHANGED <<pc, hasObj, busy, partial, reach, damaged>>
        /\ status' = status \cup {"object"}
    BY <1>4, <2>1 DEF RefuseCopy, CanTake, list
  <2>3. o \in Made /\ ~Parses(o)
    BY <2>1, <2>2 DEF Made, Resolved, Accepts, Places
  <2>4. "object" \in PassStatus
    BY <2>3 DEF PassStatus, ObjectFaults, Bit
  <2> QED
    BY <1>r, <1>e, <2>2, <2>4 DEF Tallied, Before, Places
<1>5. CASE TakeCopy
  <2>1. PICK o \in Objects : hasObj' = hasObj \cup {o} /\ busy' = busy \cup {o} /\ CanTake(o)
    BY <1>5 DEF TakeCopy
  <2>2. UNCHANGED <<pc, status, damaged, partial, reach>>
    BY <1>5 DEF TakeCopy, list
  <2> QED
    BY <1>r, <1>e, <2>1, <2>2 DEF Tallied
<1>6. CASE EndCopy
  <2>1. PICK o \in busy :
          /\ busy' = busy \ {o}
          /\ status' = status \cup (IF o \in refused \/ Complaint(o) THEN {"object"} ELSE {})
    BY <1>6 DEF EndCopy
  <2>2. pc \in Places /\ UNCHANGED <<pc, hasObj, damaged, partial, reach>>
    BY <1>6, OnlyInPlaces DEF EndCopy, table, list
  <2>3. Complaint(o) => "object" \in PassStatus
    BY <2>1 DEF AtWork, Resolved, Kept, PassStatus, ObjectFaults, Bit
  <2> QED
    BY <1>r, <1>e, <2>1, <2>2, <2>3 DEF Tallied, Resolved, Before, Places
<1>7. CASE EndPlace
  <2>1. /\ pc \in Places /\ pc' \in {"alt", "pack", "deferred"} /\ (pc' # "deferred" => status' = status)
        /\ UNCHANGED <<hasObj, busy, damaged, partial, reach>>
    BY <1>7 DEF EndPlace, GoOn, Places, table, list
  <2> QED
    BY <1>r, <1>e, <1>g, <2>1 DEF Tallied, Before, Places
<1>8. CASE ~(CheckRefs \/ SnapshotRefs \/ CheckBadCopy \/ RefuseCopy \/ TakeCopy \/ EndCopy \/ EndPlace)
  <2>1. UNCHANGED <<hasObj, busy>>
    BY <1>8, <1>r, WhoWrites
  <2>2. CASE pc \in Before \cup Places
    <3>1. UNCHANGED <<pc, status, damaged, partial, reach>>
      BY <1>8, <1>r, <2>2, InRunFacts DEF Next, vars, ResolveLink, FinishDeferredBlobs, DefaultHeads, CheckIndexes,
         CheckIndexFiles, CheckConnectivity, VerifyGraphFiles, list, Before, Places
    <3> QED
      BY <1>r, <1>e, <2>1, <3>1 DEF Tallied
  <2>3. CASE pc \in AfterPass
    <3>1. pc' \in AfterPass
      BY <1>8, <1>r, <2>3, PhaseStep DEF AfterPass, InRun, Before, Places
    <3> QED
      BY <1>r, <1>e, <1>g, <2>1, <2>3, <3>1 DEF Tallied, AfterPass, Before, Places
  <2> QED
    BY <2>2, <2>3 DEF InRun
<1> QED
  BY <1>1, <1>2, <1>3, <1>4, <1>5, <1>6, <1>7, <1>8

\* An object that is not packed and has a good copy fails to be read by name
\* only because a file before that copy is bad.
LEMMA BadFileFirst ==
  ASSUME repo \in Repo, NEW o \in Made, ~HasPacked(o), ~Reads(o)
  PROVE  o \in Spoilt
<1>1. o \in Objects
  BY DEF Made
<1>3. repo.copy["pack"][o] = "none"
  BY DEF HasPacked
<1>2. \E p \in Places \ {"pack"} : repo.copy[p][o] = "good"
  BY <1>1, <1>3, CopyFacts DEF Made
<1>4. /\ repo.copy["loose"][o] \in Copy /\ repo.copy["alt"][o] \in Copy
      /\ Produces("loose", o) <=> repo.copy["loose"][o] = "good"
      /\ Produces("alt", o) <=> repo.copy["alt"][o] = "good"
  BY <1>1, CopyFacts DEF Places
<1>5. CASE repo.copy["loose"][o] # "none"
  <2>1. Find(o) = "loose"
    BY <1>5 DEF Find
  <2> QED
    BY <1>1, <1>4, <1>5, <2>1 DEF Reads, FileReads, Spoilt, Copy
<1>6. CASE repo.copy["loose"][o] = "none"
  <2>1. Find(o) = "alt"
    BY <1>6 DEF Find
  <2> QED
    BY <1>1, <1>2, <1>4, <1>6, <2>1 DEF Reads, FileReads, Spoilt, Copy, Places
<1> QED
  BY <1>5, <1>6

\* A special blob that was taken reads by name, or is on the list already.
LEMMA CheckedReads ==
  ASSUME repo \in Repo, Settled, NEW o \in Specials, o \in Made, ~Reads(o)
  PROVE  o \in Spoilt /\ ~Dies(o)
<1>1. o \in repo.special /\ o \in Objects
  BY TargetFacts DEF Specials, Kept, Made
<1>2. \E p \in Places : Produces(p, o)
  BY DEF Made
<1>3. ~Dies(o)
  BY <1>1, <1>2 DEF Settled
<1> QED
  BY <1>3, BadFileFirst DEF Dies

\* The objects have been gone through.
LEMMA AfterObjects ==
  ASSUME TypeOK, AtWork, Noticed, Settled, Resolved, Treated, Called, Tallied, [Next]_vars,
         EndPlace, pc = "pack"
  PROVE  Exact'
<1>r. repo' = repo /\ repo \in Repo
  BY WhoWrites, TypeParts DEF PhaseTyped
<1>e. /\ Kept' = Kept /\ Specials' = Specials /\ PassStatus' = PassStatus /\ PassDamage' = PassDamage
      /\ \A o : Typed(o)' <=> Typed(o)
  BY <1>r, SameEnds
<1>1. /\ todo = {} /\ busy = {} /\ pc' = "deferred" /\ status' = status \cup PackSumFaults
      /\ UNCHANGED <<hasObj, named, type, damaged, partial, reach>>
  BY DEF EndPlace, GoOn, table, blobs, list
<1>2. \A p \in Places, o \in Objects : Handled(p, o)
  BY <1>1 DEF Handled, Passed, Places
<1>4. \A o \in Made : /\ type[o] # "none"
                      /\ IF Parses(o) THEN o \in hasObj ELSE "object" \in status
  BY <1>2 DEF Made, Treated
<1>5. hasObj = Kept
  BY <1>4 DEF Kept, Resolved
<1>6. named = Specials
  BY <1>1, <1>5 DEF Called, Specials
<1>7. ASSUME NEW o \in Objects
      PROVE  type[o] = IF Typed(o) THEN repo.type[o] ELSE "none"
  <2>1. type[o] = "none" \/ (type[o] = repo.type[o] /\ Typed(o))
    BY DEF Resolved
  <2>2. ASSUME Typed(o) PROVE type[o] # "none"
    <3>1. CASE o \in Made
      BY <1>4, <3>1
    <3>2. CASE o \notin Made
      <4>1. PICK q \in Kept : o \in Targets(q)
        BY <2>2, <3>2 DEF Typed
      <4>2. q \in Objects /\ left[q] = {}
        BY <1>1 DEF AtWork, Kept, Made
      <4> QED
        BY <1>5, <4>1, <4>2 DEF Targets, Resolved
    <3> QED
      BY <3>1, <3>2
  <2> QED
    BY <2>1, <2>2
<1>8. status' = PassStatus
  <2>1. BadEntries => "pack" \in status
    BY <1>2 DEF BadEntries, Noticed, Places
  <2>2. Spoilt # {} => "object" \in status
    BY <1>2 DEF Spoilt, Noticed, Places
  <2>3. (\E o \in Made : ~Parses(o) \/ Complaint(o)) => "object" \in status
    BY <1>1, <1>4 DEF Tallied
  <2>4. StatusBefore \subseteq status /\ status \subseteq PassStatus
    BY DEF Tallied, Places
  <2> QED
    BY <1>1, <2>1, <2>2, <2>3, <2>4 DEF PassStatus, ObjectFaults, Bit
<1>9. damaged' = PassDamage
  <2>1. PassDamage \subseteq damaged
    BY <1>2 DEF PassDamage, Spoilt, Noticed, Places
  <2> QED
    BY <1>1, <2>1 DEF Tallied, Places
<1>10. ~partial' /\ reach' = {}
  BY <1>1 DEF Tallied, Places
<1> QED
  BY <1>1, <1>r, <1>e, <1>5, <1>6, <1>7, <1>8, <1>9, <1>10 DEF Exact, AfterPass

\* The blobs that were not checked in passing decide nothing that the others
\* would not have.
LEMMA AfterBlobs ==
  ASSUME TypeOK, AtWork, Settled, Resolved, Called, Exact, [Next]_vars, FinishDeferredBlobs
  PROVE  /\ Exact'
         /\ pc' = "scan" => StopsLater
<1>r. repo' = repo /\ repo \in Repo
  BY WhoWrites, TypeParts DEF PhaseTyped
<1>e. /\ Kept' = Kept /\ Specials' = Specials /\ EndStatus' = EndStatus /\ EndDamage' = EndDamage
      /\ \A o : (Typed(o)' <=> Typed(o)) /\ (Dies(o)' <=> Dies(o))
  BY <1>r, SameEnds, SameRepo
<1> DEFINE pending == named \ checked
<1>1. /\ pc = "deferred"
      /\ damaged' = damaged \cup {<<o, FALSE>> : o \in {b \in pending : ~Reads(b)}}
      /\ fatal' = \E o \in pending : Dies(o)
      /\ status' = IF \E o \in pending : ~Reads(o) \/ repo.type[o] # "blob" \/ Complaint(o)
                   THEN status \cup {"object"} ELSE status
      /\ UNCHANGED <<hasObj, named, type, partial, reach>>
  BY DEF FinishDeferredBlobs, table, blobs
<1>0. pc' = IF fatal' THEN "scan" ELSE "heads"
  BY DEF FinishDeferredBlobs, GoOn, Die
<1>2. /\ hasObj = Kept /\ named = Specials /\ status = PassStatus /\ damaged = PassDamage
      /\ ~partial /\ reach = {}
      /\ \A o \in Objects : type[o] = IF Typed(o) THEN repo.type[o] ELSE "none"
  BY <1>1 DEF Exact, AfterPass
<1>3. \A o \in Specials \ pending : repo.type[o] = "blob" /\ o \in Made
  BY <1>2 DEF Called, Kept
<1>4. \A o \in Specials \ pending : ~Dies(o) /\ (~Reads(o) => o \in Spoilt)
  BY <1>r, <1>3, CheckedReads DEF Dies
<1>5. pending \subseteq Specials
  BY <1>2
<1>6. status' = EndStatus
  <2>1. Spoilt # {} => "object" \in PassStatus
    BY DEF PassStatus, ObjectFaults, Bit
  <2>2. \A o \in Made : Complaint(o) => "object" \in PassStatus
    BY DEF PassStatus, ObjectFaults, Bit
  <2> QED
    BY <1>1, <1>2, <1>3, <1>4, <1>5, <2>1, <2>2 DEF EndStatus, Bit
<1>7. damaged' = EndDamage
  BY <1>1, <1>2, <1>4, <1>5 DEF EndDamage, PassDamage
<1>8. pc' = "heads" => \A o \in Specials : ~Dies(o)
  BY <1>0, <1>1, <1>4
<1>9. pc' = "scan" => StopsLater
  BY <1>0, <1>1, <1>5 DEF StopsLater
<1> QED
  BY <1>r, <1>e, <1>0, <1>1, <1>2, <1>6, <1>7, <1>8, <1>9 DEF Exact, AfterPass

\* What the references and reflogs come to.
LEMMA AfterHeads ==
  ASSUME TypeOK, Settled, Exact, [Next]_vars, DefaultHeads
  PROVE  /\ Exact'
         /\ pc' = "scan" => StopsLater
<1>r. repo' = repo /\ repo \in Repo
  BY WhoWrites, TypeParts DEF PhaseTyped
<1>e. /\ Kept' = Kept /\ Specials' = Specials /\ HeadStatus' = HeadStatus /\ HeadDamage' = HeadDamage
      /\ HeadPartial' = HeadPartial /\ HeadReach' = HeadReach
      /\ \A o : (Typed(o)' <=> Typed(o)) /\ (Dies(o)' <=> Dies(o))
  BY <1>r, SameEnds, SameRepo
<1>1. /\ pc = "heads"
      /\ damaged' = damaged \cup AddedByRefs
      /\ partial' = (partial \/ UntakenFile \/ LostInLogs # {})
      /\ status' = status
           \cup (IF repo.garbled \/ ~(RefTips \cup LogNames \subseteq hasObj)
                 THEN {"reachable"} ELSE {})
           \cup (IF \E o \in repo.branches \cap hasObj : type[o] # "commit"
                 THEN {"refs"} ELSE {})
      /\ reach' = reach \cup ((RefTips \cup LogNames) \cap hasObj)
      /\ pc' = IF repo.unpackable THEN "scan" ELSE "index"
      /\ UNCHANGED <<hasObj, named, type>>
  BY DEF DefaultHeads, GoOn, Die, table, blobs
<1>2. /\ hasObj = Kept /\ named = Specials /\ status = EndStatus /\ damaged = EndDamage
      /\ ~partial /\ reach = {}
      /\ \A o \in Specials : ~Dies(o)
      /\ \A o \in Objects : type[o] = IF Typed(o) THEN repo.type[o] ELSE "none"
  BY <1>1 DEF Exact, AfterPass
<1>3. Unpointed = Unheld
  <2>1. \A o, q : <<o, q>> \in EndDamage => q = FALSE
    BY DEF EndDamage, PassDamage
  <2> QED
    BY <1>2, <2>1 DEF Unpointed, Unheld, NamedDamaged
<1>4. damaged' = HeadDamage
  BY <1>1, <1>2, <1>3 DEF AddedByRefs, HeadDamage
<1>5. partial' = HeadPartial
  <2>1. UntakenFile = \E o \in Unheld : Has(o)
    BY <1>3 DEF UntakenFile
  <2>2. LostInLogs # {} <=> ~(LogNames \subseteq Kept)
    BY <1>2 DEF LostInLogs
  <2> QED
    BY <1>1, <1>2, <2>1, <2>2 DEF HeadPartial
<1>6. status' = HeadStatus
  <2>1. \A o \in Kept : type[o] = repo.type[o]
    BY <1>2 DEF Kept, Made, Typed
  <2> QED
    BY <1>1, <1>2, <2>1 DEF HeadStatus, Bit
<1>7. reach' = HeadReach
  BY <1>1, <1>2 DEF HeadReach
<1>8. repo.unpackable => StopsLater
  BY DEF StopsLater
<1> QED
  BY <1>r, <1>e, <1>1, <1>2, <1>4, <1>5, <1>6, <1>7, <1>8 DEF Exact, AfterPass

\* What the indexes come to: an entry is passed over where the table has another
\* type for it, and which type that is was decided by what is kept.
LEMMA AfterIndexes ==
  ASSUME TypeOK, Exact, [Next]_vars, CheckIndexes
  PROVE  Exact'
<1>r. repo' = repo /\ repo \in Repo
  BY WhoWrites, TypeParts DEF PhaseTyped
<1>e. /\ Kept' = Kept /\ Specials' = Specials /\ HeadDamage' = HeadDamage /\ HeadPartial' = HeadPartial
      /\ IndexStatus' = IndexStatus /\ IndexReach' = IndexReach
      /\ \A o : Dies(o)' <=> Dies(o)
  BY <1>r, SameEnds, SameRepo
<1>1. /\ pc = "index" /\ pc' = "files"
      /\ UNCHANGED <<hasObj, named, damaged, partial>>
  BY DEF CheckIndexes, GoOn, blobs, list
<1>2. /\ hasObj = Kept /\ named = Specials /\ damaged = HeadDamage /\ partial = HeadPartial
      /\ \A o \in Specials : ~Dies(o)
      /\ ~repo.unpackable /\ status = HeadStatus /\ reach = HeadReach
      /\ \A o \in Objects : type[o] = IF Typed(o) THEN repo.type[o] ELSE "none"
  BY <1>1 DEF Exact, AfterPass
<1>3. TakenEntries = Entries
  <2>1. repo.index.entries \subseteq Objects /\ \A o \in Objects : repo.type[o] # "none"
    BY <1>r, RepoFacts DEF Types
  <2> QED
    BY <1>2, <2>1 DEF TakenEntries, Entries, Accepts
<1>4. status' = IndexStatus /\ reach' = IndexReach
  <2>1. CASE ~IndexReads
    BY <1>2, <2>1 DEF CheckIndexes, IndexStatus, IndexReach
  <2>2. CASE IndexReads
    <3>1. /\ reach' = reach \cup TakenEntries \cup (Beside \cap hasObj)
          /\ status' = status
               \cup (IF Beside \subseteq hasObj THEN {} ELSE {"refs"})
               \cup (IF \E o \in repo.index.trees \cap hasObj : type[o] # "tree"
                     THEN {"object"} ELSE {})
      BY <2>2 DEF CheckIndexes, Beside
    <3>2. \A o \in Kept : type[o] = repo.type[o]
      BY <1>2 DEF Kept, Made, Typed
    <3>3. reach' = IndexReach
      BY <1>2, <1>3, <2>2, <3>1 DEF IndexReach
    <3>4. status' = IndexStatus
      BY <1>2, <2>2, <3>1, <3>2 DEF IndexStatus, Bit
    <3> QED
      BY <3>3, <3>4
  <2> QED
    BY <2>1, <2>2
<1> QED
  BY <1>r, <1>e, <1>1, <1>2, <1>4 DEF Exact, AfterPass

\* What the files beside the packs come to.
LEMMA AfterFiles ==
  ASSUME Exact, [Next]_vars, CheckIndexFiles
  PROVE  Exact'
<1>r. repo' = repo
  BY WhoWrites
<1>e. /\ Kept' = Kept /\ Specials' = Specials /\ HeadDamage' = HeadDamage /\ HeadPartial' = HeadPartial
      /\ FileStatus' = FileStatus /\ IndexReach' = IndexReach
      /\ \A o : Dies(o)' <=> Dies(o)
  BY <1>r, SameEnds, SameRepo
<1>1. /\ pc = "files" /\ pc' = "connect" /\ status' = status \cup RevIndexFaults \cup BitmapFaults
      /\ UNCHANGED <<hasObj, named, damaged, partial, reach>>
  BY DEF CheckIndexFiles, GoOn, blobs, list, table
<1> QED
  BY <1>r, <1>e, <1>1 DEF Exact, AfterPass, FileStatus

\* What the traversal comes to: the recorded links are the links.
LEMMA AfterTraversal ==
  ASSUME TypeOK, AtWork, Recorded, Resolved, Exact, [Next]_vars, CheckConnectivity
  PROVE  Exact'
<1>r. repo' = repo /\ repo \in Repo
  BY WhoWrites, TypeParts DEF PhaseTyped
<1>e. /\ Kept' = Kept /\ Specials' = Specials /\ HeadPartial' = HeadPartial
      /\ FullStatus' = FullStatus /\ FullReach' = FullReach /\ FullDamage' = FullDamage
      /\ \A o : Dies(o)' <=> Dies(o)
  BY <1>r, SameEnds, SameRepo
<1> DEFINE R == ReachVia(reach, hasObj, LAMBDA o : edges[o])
           missing == {o \in R : Absent(o)}
<1>1. /\ pc = "connect" /\ pc' = "graphs" /\ reach' = R
      /\ partial' = (partial \/ R \cap hasObj \cap refused # {})
      /\ damaged' = damaged \cup {<<o, TRUE>> : o \in missing}
      /\ status' = status \cup (IF R \cap hasObj \cap refused # {} \/ missing # {} THEN {"reachable"} ELSE {})
      /\ UNCHANGED <<hasObj, named>>
  BY DEF CheckConnectivity, GoOn, blobs, table
<1>2. /\ hasObj = Kept /\ named = Specials /\ damaged = HeadDamage /\ partial = HeadPartial
      /\ \A o \in Specials : ~Dies(o)
      /\ ~repo.unpackable /\ status = FileStatus /\ reach = IndexReach
  BY <1>1 DEF Exact, AfterPass
<1>3. \A o \in Kept : edges[o] = Targets(o)
  <2>1. ASSUME NEW o \in Kept PROVE edges[o] = Targets(o)
    <3>1. o \in Objects /\ o \in hasObj /\ left[o] = {} /\ o \notin refused
      BY <1>1, <1>2 DEF Kept, Made, AtWork, Resolved, Places
    <3> QED
      BY <3>1 DEF Recorded
  <2> QED
    BY <2>1
<1>4. R = FullReach
  BY <1>2, <1>3 DEF FullReach, ReachVia
<1>5. missing = Gone
  BY <1>2, <1>4 DEF Gone, Absent
<1>6. refused = {}
  BY DEF Resolved
<1> HIDE DEF R, missing
<1>7. /\ reach' = FullReach /\ partial' = HeadPartial
      /\ damaged' = FullDamage /\ status' = FullStatus
  <2>1. FullDamage = HeadDamage \cup {<<o, TRUE>> : o \in Gone}
    BY DEF FullDamage
  <2>2. FullStatus = FileStatus \cup (IF Gone # {} THEN {"reachable"} ELSE {})
    BY DEF FullStatus, Bit
  <2>3. reach' = FullReach /\ damaged' = FullDamage
    BY <1>1, <1>2, <1>4, <1>5, <2>1
  <2>4. R \cap hasObj \cap refused = {}
    BY <1>6
  <2>7. partial' = partial
    BY <1>1, <2>4, TypeParts DEF ListTyped
  <2>5. partial' = HeadPartial
    BY <1>2, <2>7
  <2>6. status' = FullStatus
    BY <1>1, <1>2, <1>5, <2>2, <2>4
  <2> QED
    BY <2>3, <2>5, <2>6
<1> QED
  BY <1>r, <1>e, <1>1, <1>2, <1>7 DEF Exact, AfterPass

\* A run that ends has the verdict the repository calls for.
LEMMA TheEnd ==
  ASSUME TypeOK, AtWork, Noticed, Settled, InRun, Resolved, Treated, Called, Tallied, Exact, [Next]_vars,
         pc' \in {"scan", "done"}
  PROVE  verdict' = TheVerdict
<1>r. repo' = repo /\ ~Scan /\ ~RunAgain
  BY WhoWrites, InRunFacts
<1>1. CASE SnapshotRefs
  <2>1. StopsEarly /\ verdict' = NoVerdict
    BY <1>1 DEF SnapshotRefs, GoOn, Die, StopsEarly
  <2> QED
    BY <2>1 DEF TheVerdict
<1>2. CASE FinishDeferredBlobs
  <2>1. StopsLater
    BY <1>2, AfterBlobs, PhaseStep, <1>r DEF FinishDeferredBlobs
  <2>2. verdict' = NoVerdict
    BY <1>2 DEF FinishDeferredBlobs, GoOn, Die
  <2> QED
    BY <2>1, <2>2 DEF TheVerdict
<1>3. CASE DefaultHeads
  <2>1. repo.unpackable /\ verdict' = NoVerdict
    BY <1>3 DEF DefaultHeads, GoOn, Die
  <2> QED
    BY <2>1 DEF TheVerdict, StopsLater
<1>4. CASE VerifyGraphFiles
  <2>1. /\ pc = "graphs" /\ status' = status \cup CommitGraphFaults \cup MultiPackFaults
        /\ verdict' = IF "midxfatal" \in repo.faults THEN NoVerdict
                      ELSE [given |-> TRUE, status |-> status',
                            out |-> {d[1] : d \in {x \in damaged : Wanted(reach, x)}},
                            whole |-> ~partial]
    BY <1>4 DEF VerifyGraphFiles
  <2>2. /\ status = FullStatus /\ reach = FullReach /\ damaged = FullDamage /\ partial = HeadPartial
        /\ \A o \in Specials : ~Dies(o)
        /\ ~repo.unpackable
    BY <2>1 DEF Exact, AfterPass
  <2>3. ~StopsEarly
    BY <2>1 DEF Tallied, Before
  <2>4. StopsLater <=> "midxfatal" \in repo.faults
    BY <2>2 DEF StopsLater
  <2> QED
    BY <2>1, <2>2, <2>3, <2>4 DEF TheVerdict
<1>5. CASE ~(SnapshotRefs \/ FinishDeferredBlobs \/ DefaultHeads \/ VerifyGraphFiles)
  <2>1. pc' = pc \/ pc' \notin {"scan", "done"}
    BY <1>5, <1>r, OnlyInPlaces DEF Next, vars, CheckRefs, CheckBadCopy, RefuseCopy, TakeCopy, ResolveLink, EndCopy,
       EndPlace, CheckIndexes, CheckIndexFiles, CheckConnectivity, Rest, GoOn, Places
  <2> QED
    BY <2>1 DEF InRun, Before, Places, AfterPass
<1> QED
  BY <1>1, <1>2, <1>3, <1>4, <1>5

\* Whatever the order, a run comes to what the repository calls for.
LEMMA DeterminedStep ==
  ASSUME TypeOK, AtWork, Recorded, Noticed, Determined, AtWork', [Next]_vars
  PROVE  Determined'
<1>r. repo' = repo
  BY WhoWrites
<1>e. TheVerdict' = TheVerdict /\ (Settled' <=> Settled)
  BY <1>r, SameEnds
<1> SUFFICES ASSUME Settled
             PROVE  /\ InRun' => Resolved' /\ Treated' /\ Called' /\ Tallied'
                    /\ Exact'
                    /\ pc' \in {"scan", "done"} => verdict' = TheVerdict
                    /\ runs' > 1 => first' = TheVerdict
  BY <1>e DEF Determined
<1>d. /\ InRun => Resolved /\ Treated /\ Called /\ Tallied
      /\ Exact
      /\ pc \in {"scan", "done"} => verdict = TheVerdict
      /\ runs > 1 => first = TheVerdict
  BY DEF Determined
<1>i. InRun <=> pc \notin {"scan", "done"}
  BY TypeParts DEF PhaseTyped, InRun, Before, Places, AfterPass
<1>1. CASE RunAgain
  <2>1. pc' = "refs" /\ pc = "done" /\ first' = verdict
    BY <1>1 DEF RunAgain
  <2>3. (AtWork /\ pc = "refs" => Resolved /\ Treated /\ Called /\ Tallied /\ Exact)'
    BY Fresh, PTL
  <2>2. (Resolved /\ Treated /\ Called /\ Tallied /\ Exact)'
    BY <2>1, <2>3
  <2> QED
    BY <1>d, <2>1, <2>2
<1>2. CASE InRun
  <2>1. ~RunAgain /\ UNCHANGED <<first, runs>>
    BY <1>2, InRunFacts, WhoWrites
  <2>2. InRun' => Resolved' /\ Treated' /\ Called' /\ Tallied'
    BY <1>d, <1>2, ResolvedStep, TreatedStep, CalledStep, TalliedStep
  <2>3. pc' \in {"scan", "done"} => verdict' = TheVerdict
    BY <1>d, <1>2, TheEnd
  <2>4. Exact'
    <3>1. CASE pc' \notin AfterPass
      BY <3>1 DEF Exact, AfterPass
    <3>2. CASE pc' \in AfterPass /\ pc' = pc
      <4>1. UNCHANGED <<hasObj, named, status, damaged, partial, reach, type>>
        BY <3>2, <2>1, OnlyInPlaces DEF Next, vars, CheckRefs, SnapshotRefs, EndPlace, FinishDeferredBlobs, DefaultHeads,
           CheckIndexes, CheckIndexFiles, CheckConnectivity, VerifyGraphFiles, Scan, Rest, Places, AfterPass,
           GoOn, Die, table, blobs, list
      <4>2. /\ Kept' = Kept /\ Specials' = Specials /\ PassStatus' = PassStatus /\ PassDamage' = PassDamage
            /\ EndStatus' = EndStatus /\ EndDamage' = EndDamage
            /\ HeadStatus' = HeadStatus /\ HeadDamage' = HeadDamage
            /\ HeadPartial' = HeadPartial /\ HeadReach' = HeadReach
            /\ IndexStatus' = IndexStatus /\ IndexReach' = IndexReach /\ FileStatus' = FileStatus
            /\ FullStatus' = FullStatus /\ FullReach' = FullReach /\ FullDamage' = FullDamage
            /\ \A o : (Typed(o)' <=> Typed(o)) /\ (Dies(o)' <=> Dies(o))
        BY <1>r, SameEnds, SameRepo
      <4> QED
        BY <1>d, <1>r, <3>2, <4>1, <4>2 DEF Exact
    <3>3. CASE pc' \in AfterPass /\ pc' # pc
      <4>1. \/ EndPlace /\ pc = "pack"
            \/ FinishDeferredBlobs \/ DefaultHeads \/ CheckIndexes \/ CheckIndexFiles \/ CheckConnectivity
        BY <3>3, PhaseStep DEF AfterPass
      <4> QED
        BY <1>d, <1>2, <4>1, AfterObjects, AfterBlobs, AfterHeads, AfterIndexes, AfterFiles, AfterTraversal
    <3> QED
      BY <3>1, <3>2, <3>3
  <2> QED
    BY <1>d, <2>1, <2>2, <2>3, <2>4
<1>3. CASE ~InRun /\ ~RunAgain
  <2>1. pc' \in {"scan", "done"} /\ verdict' = verdict /\ UNCHANGED <<first, runs>>
    BY <1>3, <1>i, OnlyInPlaces, WhoWrites DEF Next, vars, CheckRefs, SnapshotRefs, EndPlace, FinishDeferredBlobs,
       DefaultHeads, CheckIndexes, CheckIndexFiles, CheckConnectivity, VerifyGraphFiles, Scan, Rest, Places, outcome
  <2>2. ~InRun' /\ Exact'
    BY <2>1 DEF InRun, Exact, Before, Places, AfterPass
  <2> QED
    BY <1>d, <1>3, <1>i, <2>1, <2>2
<1> QED
  BY <1>1, <1>2, <1>3

-----------------------------------------------------------------------------
(***************************************************************************)
(* The invariant.                                                          *)
(***************************************************************************)
LEMMA DiagnosisInit ==
  Init => DiagnosisInv
<1> SUFFICES ASSUME Init PROVE DiagnosisInv
  OBVIOUS
<1>1. TypeOK
  <2>1. PhaseTyped /\ WorkTyped
    BY RepoAssumption DEF Init, PhaseTyped, WorkTyped
  <2>2. TableTyped /\ ListTyped /\ StatusTyped
    BY DEF Init, TableTyped, ListTyped, StatusTyped
  <2>3. VerdictTyped
    BY NoVerdictTyped DEF Init, VerdictTyped
  <2> QED
    BY <2>1, <2>2, <2>3, TypeParts
<1>2. AtWork
  BY DEF Init, AtWork
<1>3. \A p, o : ~Handled(p, o) \/ p = "refs"
  BY DEF Init, Handled, Passed, AfterPass, Given
<1>4. Recorded /\ Noticed /\ Listed
  BY <1>3 DEF Init, Recorded, Noticed, Listed, Places
<1>5. Started /\ Indexed /\ Followed /\ Concluded
  BY DEF Init, Started, Indexed, Followed, Concluded, Given
<1>6. Determined
  <2>1. Resolved /\ Treated /\ Called /\ Tallied /\ Exact
    BY <1>2, Fresh DEF Init
  <2> QED
    BY <2>1 DEF Init, Determined
<1> QED
  BY <1>1, <1>2, <1>4, <1>5, <1>6 DEF DiagnosisInv

LEMMA DiagnosisStep ==
  DiagnosisInv /\ [Next]_vars => DiagnosisInv'
<1> SUFFICES ASSUME DiagnosisInv, [Next]_vars PROVE DiagnosisInv'
  OBVIOUS
<1> USE DEF DiagnosisInv
<1>1. TypeOK' /\ AtWork' /\ Recorded' /\ Noticed' /\ Listed'
  BY TypeStep, AtWorkStep, RecordedStep, NoticedStep, ListedStep
<1>2. Started' /\ Indexed' /\ Followed' /\ Concluded'
  BY StartedStep, IndexedStep, FollowedStep, ConcludedStep
<1>3. Determined'
  BY <1>1, DeterminedStep
<1> QED
  BY <1>1, <1>2, <1>3

\* The invariant holds of every run over every repository.
THEOREM DiagnosisCorrect ==
  Spec => []DiagnosisInv
<1> QED
  BY DiagnosisInit, DiagnosisStep, PTL DEF Spec

-----------------------------------------------------------------------------
(***************************************************************************)
(* The theorems.                                                           *)
(***************************************************************************)
\* Once a run has a verdict, every copy is behind it.
LEMMA AllHandled ==
  ASSUME DiagnosisInv, Given, NEW p \in Places, NEW o \in Objects
  PROVE  /\ IF p = "pack" THEN EntryReported(o) => "pack" \in verdict.status
            ELSE repo.copy[p][o] = "bad" => "object" \in verdict.status /\ <<o, FALSE>> \in damaged
         /\ Produces(p, o) => o \in hasObj \/ "object" \in verdict.status
  BY DEF DiagnosisInv, Noticed, Handled, Passed, Concluded

\* And every link of what was taken is recorded, unless one was refused.
LEMMA LinksRecorded ==
  ASSUME DiagnosisInv, Given, NEW o \in hasObj
  PROVE  /\ o \in Made
         /\ o \notin refused => Targets(o) = edges[o]
         /\ o \in refused => "object" \in verdict.status
<1>1. o \in Objects /\ busy = {} /\ left[o] = {}
  BY TypeParts DEF DiagnosisInv, AtWork, Given, Places, TableTyped
<1> QED
  BY <1>1 DEF DiagnosisInv, Recorded, Made, Concluded

\* A list that is whole names every object that a search from the references
\* would report, but for the four exceptions.
LEMMA ListAccountsHolds ==
  DiagnosisInv => ListAccounts
<1> DEFINE S == RefTips \ UnreadTips
           V == Readable \ Unwalked
           Found == ReachVia(S, V, Targets)
           Y == reach \cup {o \in Objects : <<o, TRUE>> \in damaged}
<1> SUFFICES ASSUME DiagnosisInv, pc \in {"scan", "done"}, DamageNamed(verdict)
             PROVE  Found \ (Readable \cup PassedOver) \subseteq verdict.out
  BY DEF ListAccounts
<1>g. Given /\ ~partial /\ "pack" \notin verdict.status
  BY DEF Given, DamageNamed, DiagnosisInv, Concluded
<1>r. /\ repo \in Repo /\ reach \subseteq Objects /\ RefTips \subseteq Objects
      /\ verdict.out = {d[1] : d \in {x \in damaged : Wanted(reach, x)}}
  BY <1>g, TypeParts, RepoFacts DEF DiagnosisInv, PhaseTyped, StatusTyped, RefTips, Concluded
<1>1. S \subseteq Y
  <2>1. ASSUME NEW o \in S PROVE o \in Y
    <3>1. CASE o \in hasObj
      BY <1>g, <3>1 DEF DiagnosisInv, Started
    <3>2. CASE o \notin hasObj
      BY <1>g, <1>r, <3>2 DEF DiagnosisInv, Started, UnreadTips
    <3> QED
      BY <3>1, <3>2
  <2> QED
    BY <2>1
<1>2. \A o \in Y \cap V : Targets(o) \subseteq Y
  <2>1. ASSUME NEW o \in Y \cap V PROVE Targets(o) \subseteq Y
    <3>1. o \in hasObj /\ o \in Objects
      BY DEF Unwalked, Readable
    <3>2. o \in reach
      BY <3>1 DEF DiagnosisInv, Listed
    <3>3. o \notin refused /\ edges[o] \subseteq reach
      BY <1>g, <3>1, <3>2 DEF DiagnosisInv, Followed
    <3> QED
      BY <1>g, <3>1, <3>3, LinksRecorded
  <2> QED
    BY <2>1
<1>3. Found \subseteq Y
  <2>1. Y \in SUBSET Objects
    BY <1>r
  <2> HIDE DEF S, V, Y
  <2> QED
    BY <1>1, <1>2, <2>1, AlongLinks
<1>4. ASSUME NEW o \in Y \ (Readable \cup PassedOver) PROVE o \in verdict.out
  <2>1. o \in Objects /\ ~Reads(o) /\ (HasPacked(o) => EntryReported(o))
    BY <1>r DEF Readable, PassedOver, Dies
  <2>2. \A q \in BOOLEAN : <<o, q>> \in damaged /\ (q \/ o \in reach) => o \in verdict.out
    BY <1>r DEF Wanted
  <2>3. CASE <<o, TRUE>> \in damaged
    BY <2>2, <2>3
  <2>4. CASE o \in reach /\ ~Absent(o)
    <3>1. ~HasPacked(o)
      BY <1>g, <2>1, AllHandled DEF Places
    <3>2. o \in hasObj
      BY <2>4, <3>1 DEF Absent
    <3>3. o \in Spoilt
      BY <1>g, <1>r, <2>1, <3>1, <3>2, LinksRecorded, BadFileFirst
    <3>4. <<o, FALSE>> \in damaged
      BY <1>g, <3>3, AllHandled DEF Spoilt, Places
    <3> QED
      BY <2>2, <3>4
  <2>5. CASE o \in reach /\ Absent(o)
    BY <1>g, <2>2, <2>5 DEF DiagnosisInv, Followed
  <2> QED
    BY <2>3, <2>4, <2>5
<1> QED
  BY <1>3, <1>4

\* A run without a finding has produced whatever leads on from the references,
\* the reflogs and the index.
LEMMA CleanMeansThereHolds ==
  DiagnosisInv => CleanMeansThere
<1> DEFINE Via == Objects \ PassedOver
           Y == reach \cup PassedOver
<1> SUFFICES ASSUME DiagnosisInv, pc = "done", verdict.given, verdict.status = {}
             PROVE  /\ ReachVia(RefTips \cup LogNames, Via, Targets) \subseteq Readable \cup PassedOver
                    /\ TakenEntries \subseteq Readable \cup PassedOver
  BY DEF CleanMeansThere
<1>g. Given /\ status = {}
  BY DEF Given, DiagnosisInv, Concluded
<1>r. /\ repo \in Repo /\ reach \subseteq Objects /\ RefTips \cup LogNames \subseteq Objects
      /\ hasObj \subseteq Objects /\ PassedOver \subseteq Objects
  BY TypeParts, RepoFacts DEF DiagnosisInv, PhaseTyped, StatusTyped, TableTyped, RefTips, LogNames, PassedOver
<1>1. \A o \in Objects : /\ ~EntryReported(o)
                         /\ \A p \in Places \ {"pack"} : repo.copy[p][o] \in {"none", "good"}
  BY <1>g, <1>r, AllHandled, CopyFacts DEF Copy, Places
<1>2. ASSUME NEW o \in reach, o \notin PassedOver PROVE o \in Readable
  <2>0. o \in Objects
    BY <1>r
  <2>1. ~Absent(o)
    BY <1>g DEF DiagnosisInv, Followed
  <2>2. CASE HasPacked(o)
    BY <1>1, <1>2, <2>0, <2>2 DEF PassedOver, Dies, Readable
  <2>3. CASE ~HasPacked(o)
    <3>1. o \in Made
      BY <1>g, <2>1, <2>3, LinksRecorded DEF Absent
    <3>2. o \notin Spoilt
      BY <1>1, <2>0 DEF Spoilt, Places
    <3> QED
      BY <1>r, <2>0, <2>3, <3>1, <3>2, BadFileFirst DEF Readable
  <2> QED
    BY <2>2, <2>3
<1>3. RefTips \cup LogNames \subseteq reach
  BY <1>g DEF DiagnosisInv, Started
<1>4. ASSUME NEW o \in Y \cap Via PROVE Targets(o) \subseteq Y
  <2>1. o \in reach /\ o \in Readable /\ o \in Objects
    BY <1>2
  <2>2. o \in hasObj
    <3>1. ~Absent(o)
      BY <1>g, <2>1 DEF DiagnosisInv, Followed
    <3>2. CASE ~HasPacked(o)
      BY <3>1, <3>2 DEF Absent
    <3>3. CASE HasPacked(o)
      <4>1. Produces("pack", o)
        BY <1>1, <2>1, <3>3 DEF Readable, Reads, Produces, EntryDecodes, EntryReported
      <4> QED
        BY <1>g, <2>1, <4>1, AllHandled DEF Places
    <3> QED
      BY <3>2, <3>3
  <2> QED
    BY <1>g, <2>1, <2>2, LinksRecorded DEF DiagnosisInv, Followed
<1>5. ReachVia(RefTips \cup LogNames, Via, Targets) \subseteq Y
  <2>1. Y \in SUBSET Objects /\ RefTips \cup LogNames \subseteq Y
    BY <1>r, <1>3
  <2> HIDE DEF Y, Via
  <2> QED
    BY <1>4, <2>1, AlongLinks
<1>6. TakenEntries \subseteq reach
  BY <1>g DEF DiagnosisInv, Indexed
<1> QED
  BY <1>2, <1>5, <1>6

\* What a verdict says of the repository is so, for every repository, however
\* many workers there are and whatever order they go in (run.go Run,
\* repair.go Verdict).
THEOREM VerdictIsSo ==
  Spec => []VerdictHolds
<1>1. DiagnosisInv => VerdictHolds
  BY ListAccountsHolds, CleanMeansThereHolds DEF VerdictHolds, DiagnosisInv
<1> QED
  BY <1>1, DiagnosisCorrect, PTL

\* Where none of the exceptions is met the scan reports whatever a walk that
\* nobody cuts short would (scan.go scan).
THEOREM SkippingIsSafe ==
  Spec => []SkipIsSafe
<1>1. DiagnosisInv => SkipIsSafe
  <2> SUFFICES ASSUME DiagnosisInv, pc = "done", verdict.given, UnreadTips = {}, Unwalked = {},
                      repo.own \subseteq RefTips, PassedOver = {}
               PROVE  found = BadReach
    BY DEF SkipIsSafe
  <2>1. DamageNamed(verdict) => BadReach \subseteq verdict.out
    <3>1. ScanRoots = RefTips \ UnreadTips /\ Readable = Readable \ Unwalked
      BY DEF ScanRoots
    <3> QED
      BY <3>1, ListAccountsHolds DEF ListAccounts, BadReach
  <2>2. CASE RefsReach(verdict)
    BY <2>1, <2>2 DEF DiagnosisInv, Concluded, RefsReach
  <2>3. CASE ~RefsReach(verdict)
    <3>1. /\ found \subseteq BadReach
          /\ found = BadReach \/ (DamageNamed(verdict) /\ Cardinality(found) >= Cardinality(verdict.out))
      BY <2>3 DEF DiagnosisInv, Concluded
    <3>2. CASE DamageNamed(verdict) /\ Cardinality(found) >= Cardinality(verdict.out)
      <4>1. IsFiniteSet(Objects \cup {NoObject})
        BY RepoAssumption, FS_AddElement
      <4>2. verdict.out \subseteq Objects \cup {NoObject}
        BY DEF DiagnosisInv, TypeOK
      <4>3. IsFiniteSet(verdict.out)
        BY <4>1, <4>2, FS_Subset
      <4>4. IsFiniteSet(BadReach) /\ Cardinality(BadReach) <= Cardinality(verdict.out)
        BY <2>1, <3>2, <4>3, FS_Subset
      <4>5. IsFiniteSet(found) /\ Cardinality(found) <= Cardinality(BadReach)
        BY <3>1, <4>4, FS_Subset
      <4>6. Cardinality(found) = Cardinality(BadReach)
        <5>1. /\ Cardinality(found) \in Nat /\ Cardinality(BadReach) \in Nat
              /\ Cardinality(verdict.out) \in Nat
          BY <4>3, <4>4, <4>5, FS_CardinalityType
        <5> QED
          BY <3>2, <4>4, <4>5, <5>1
      <4> QED
        BY <3>1, <4>4, <4>6, FS_Subset
    <3> QED
      BY <3>1, <3>2
  <2> QED
    BY <2>2, <2>3
<1> QED
  BY <1>1, DiagnosisCorrect, PTL

\* Where nothing in the repository is ambiguous the order in which workers take
\* the copies does not show in the verdict (objtable.go Lookup and reconcile).
THEOREM OrderDoesNotShow ==
  Spec => []OrderIsHidden
<1>1. DiagnosisInv => OrderIsHidden
  BY DEF DiagnosisInv, Determined, OrderIsHidden
<1> QED
  BY <1>1, DiagnosisCorrect, PTL

-----------------------------------------------------------------------------
(***************************************************************************)
(* The inductive invariant of the meter, one named part per idea.          *)
(***************************************************************************)
Drawing(c) == at[c] \in {"draw", "raiseDraw", "write"}

\* What a caller has in hand is what its place in the code has tested.
Fits ==
  \A c \in Callers :
    /\ at[c] = "swap" => calls[c] # << >> /\ reg[c].n < Head(calls[c])
    /\ at[c] \in {"raise", "raiseDraw"} => 0 < reg[c].t /\ reg[c].t < reg[c].n
    /\ at[c] \in {"weigh", "write"} => reg[c].t = 0 \/ reg[c].n <= reg[c].t

\* It is never ahead of the counters.
Behind ==
  \A c \in Callers :
    /\ reg[c].n <= count
    /\ at[c] \in {"raise", "weigh", "raiseDraw", "write"} => reg[c].t <= total

\* Who draws has the lock.
Locked == \A c \in Callers : Drawing(c) => mu = c

\* The line is what was drawn, and behind the counters and whoever draws next.
LineBehind ==
  line # NoLine =>
    /\ line.n <= count /\ line.total <= total
    /\ line.pct = IF line.total > 0 THEN Percent(line.n, line.total) ELSE -1
    /\ line.total > 0 => line.n <= line.total
    /\ \A c \in Callers : Drawing(c) => line.n <= reg[c].n
    /\ \A c \in Callers : at[c] \in {"raiseDraw", "write"} => line.total <= reg[c].t

\* The conjuncts of TypeOK, by the variables they are about.
Numbers ==
  /\ count \in Nat /\ total \in Nat /\ pct \in -1..100
  /\ quiet \in BOOLEAN /\ due \in BOOLEAN /\ shown \in BOOLEAN /\ stop \in BOOLEAN

Whereabouts ==
  at \in [Callers -> {"idle", "swap", "report", "raise", "weigh", "due", "clear",
                      "lock", "draw", "raiseDraw", "write", "wait", "over"}]

Hands == reg \in [Callers -> [n : Nat, t : Nat]]

Plans == phase \in Phases /\ calls \in [Callers -> Seq(Nat)]

Holders ==
  /\ mu \in Callers \cup {NoDrawer}
  /\ ticker \in {"delay", "first", "ticking", "gone"}

OnScreen == line \in Line \cup {NoLine}

MeterInv == MeterTypeOK /\ Fits /\ Behind /\ Locked /\ LineBehind

-----------------------------------------------------------------------------
\* The percentage of a count within its total is one.
LEMMA PercentFits ==
  ASSUME NEW n \in Nat, NEW t \in Nat, 0 < t, n <= t
  PROVE  Percent(n, t) \in 0..100
<1>1. n * 100 \in Nat /\ n * 100 <= 100 * t
  OBVIOUS
<1>2. (n * 100) \div t \in Int /\ t * ((n * 100) \div t) <= n * 100
      /\ n * 100 < t * ((n * 100) \div t) + t
  BY <1>1
<1> DEFINE q == (n * 100) \div t
<1>3. q \in Int /\ t * q <= 100 * t /\ 0 < t * q + t
  BY <1>1, <1>2
<1>4. q <= 100 /\ q >= 0
  BY <1>3
<1> QED
  BY <1>3, <1>4 DEF Percent

\* It does not fall as the count grows.
LEMMA PercentGrows ==
  ASSUME NEW n \in Nat, NEW m \in Nat, NEW t \in Nat, 0 < t, n <= m
  PROVE  Percent(n, t) <= Percent(m, t) /\ Percent(n, t) \in Int /\ Percent(m, t) \in Int
<1> DEFINE q == (n * 100) \div t
           r == (m * 100) \div t
<1>1. q \in Int /\ r \in Int
      /\ t * q <= n * 100 /\ m * 100 < t * r + t
  OBVIOUS
<1>2. n * 100 <= m * 100
  OBVIOUS
<1>3. t * q < t * (r + 1)
  BY <1>1, <1>2
<1>4. q < r + 1
  BY <1>1, <1>3
<1> QED
  BY <1>1, <1>4 DEF Percent

-----------------------------------------------------------------------------
LEMMA MeterTypeParts ==
  MeterTypeOK <=> Numbers /\ Whereabouts /\ Hands /\ Plans /\ Holders /\ OnScreen
BY DEF MeterTypeOK, Numbers, Whereabouts, Hands, Plans, Holders, OnScreen

LEMMA InitInv == MeterInit => MeterInv
<1> SUFFICES ASSUME MeterInit PROVE MeterInv
  OBVIOUS
<1>1. phase \in Phase /\ phase \in Phases
  BY MeterAssumption DEF MeterInit
<1>2. Plans
  BY <1>1 DEF MeterInit, Plans, Phase, Callers
<1>3. Numbers
  <2>1. phase.total \in Nat /\ phase.delayed \in BOOLEAN
    BY <1>1 DEF Phase
  <2>2. quiet \in BOOLEAN /\ due \in BOOLEAN /\ stop \in BOOLEAN /\ shown \in BOOLEAN
    BY <2>1, Zenon DEF MeterInit, DueAtStart
  <2>3. count \in Nat /\ total \in Nat /\ pct \in -1..100
    BY <2>1 DEF MeterInit
  <2> QED
    BY <2>2, <2>3 DEF Numbers
<1>4. Whereabouts
  BY DEF MeterInit, Whereabouts
<1>5. Hands
  BY DEF MeterInit, Hands
<1>6. Holders /\ OnScreen
  BY DEF MeterInit, Holders, OnScreen
<1>7. MeterTypeOK
  BY <1>2, <1>3, <1>4, <1>5, <1>6, MeterTypeParts
<1>8. \A c \in Callers : at[c] = "idle" /\ reg[c].n = 0
  BY DEF MeterInit
<1>9. Fits /\ Locked
  BY <1>8 DEF Fits, Locked, Drawing
<1>10. Behind /\ LineBehind
  BY <1>8 DEF MeterInit, Behind, LineBehind
<1> QED
  BY <1>7, <1>9, <1>10 DEF MeterInv

-----------------------------------------------------------------------------
(***************************************************************************)
(* Every step keeps the types, one lemma per group of variables.           *)
(***************************************************************************)
LEMMA WhereaboutsStep == Whereabouts /\ [MeterNext]_meterVars => Whereabouts'
<1> SUFFICES ASSUME Whereabouts, [MeterNext]_meterVars PROVE Whereabouts'
  OBVIOUS
<1> USE DEF Whereabouts, Goes, meter
<1>1. ASSUME NEW c \in Callers, Caller(c) PROVE Whereabouts'
  <2>1. CASE Call(c) \/ Swap(c)
    BY <2>1 DEF Call, Swap
  <2>2. CASE StaysQuiet(c) \/ ReportTotal(c) \/ ReportRaise(c) \/ Weigh(c)
    BY <2>2 DEF StaysQuiet, ReportTotal, ReportRaise, Weigh
  <2>3. CASE NotDue(c) \/ IsDue(c) \/ ClearDue(c) \/ Lock(c)
    BY <2>3 DEF NotDue, IsDue, ClearDue, Lock
  <2>4. CASE DrawTotal(c) \/ DrawRaise(c) \/ Draw(c)
    BY <2>4 DEF DrawTotal, DrawRaise, Draw
  <2> QED
    BY <1>1, <2>1, <2>2, <2>3, <2>4 DEF Caller
<1>2. CASE Ticker
  BY <1>2 DEF Ticker, DelayOver, Tick, TickerStops
<1>3. CASE Finish \/ WaitTicker
  BY <1>3 DEF Finish, WaitTicker
<1>4. CASE UNCHANGED meterVars
  BY <1>4 DEF meterVars
<1> QED
  BY <1>1, <1>2, <1>3, <1>4 DEF MeterNext, MeterRest

LEMMA PlansStep == Plans /\ Fits /\ [MeterNext]_meterVars => Plans'
<1> SUFFICES ASSUME Plans, Fits, [MeterNext]_meterVars PROVE Plans'
  OBVIOUS
<1> USE DEF Plans, meter
<1>1. ASSUME NEW c \in Callers, Caller(c) PROVE Plans'
  <2>1. CASE Call(c) \/ Swap(c)
    <3>1. calls[c] # << >> /\ calls[c] \in Seq(Nat)
      BY <2>1 DEF Call, MayCall, Swap, Fits
    <3>2. Tail(calls[c]) \in Seq(Nat)
      BY <3>1
    <3>3. phase' = phase /\ (calls' = calls \/ calls' = [calls EXCEPT ![c] = Tail(@)])
      BY <2>1 DEF Call, Swap
    <3> QED
      BY <3>2, <3>3
  <2>2. CASE StaysQuiet(c) \/ ReportTotal(c) \/ ReportRaise(c) \/ Weigh(c)
    BY <2>2 DEF StaysQuiet, ReportTotal, ReportRaise, Weigh
  <2>3. CASE NotDue(c) \/ IsDue(c) \/ ClearDue(c) \/ Lock(c)
    BY <2>3 DEF NotDue, IsDue, ClearDue, Lock
  <2>4. CASE DrawTotal(c) \/ DrawRaise(c) \/ Draw(c)
    BY <2>4 DEF DrawTotal, DrawRaise, Draw
  <2> QED
    BY <1>1, <2>1, <2>2, <2>3, <2>4 DEF Caller
<1>2. CASE Ticker \/ Finish \/ WaitTicker
  BY <1>2 DEF Ticker, DelayOver, Tick, TickerStops, Finish, WaitTicker
<1>3. CASE UNCHANGED meterVars
  BY <1>3 DEF meterVars
<1> QED
  BY <1>1, <1>2, <1>3 DEF MeterNext, MeterRest

LEMMA HandsStep == Numbers /\ Plans /\ Fits /\ Hands /\ [MeterNext]_meterVars => Hands'
<1> SUFFICES ASSUME Numbers, Plans, Fits, Hands, [MeterNext]_meterVars PROVE Hands'
  OBVIOUS
<1> USE DEF Hands, Numbers, meter
<1>1. ASSUME NEW c \in Callers, Caller(c) PROVE Hands'
  <2>1. CASE Call(c)
    <3>1. reg' = [reg EXCEPT ![c] = [n |-> count, t |-> @.t]]
          \/ reg' = [reg EXCEPT ![c] = [n |-> count + 1, t |-> @.t]]
      BY <2>1 DEF Call, Holds
    <3> QED
      BY <3>1
  <2>2. CASE Swap(c)
    <3>1. calls[c] # << >> /\ calls[c] \in Seq(Nat)
      BY <2>2 DEF Swap, Fits, Plans
    <3>2. Head(calls[c]) \in Nat
      BY <3>1
    <3>3. reg' = reg \/ reg' = [reg EXCEPT ![c] = [n |-> Head(calls[c]), t |-> @.t]]
      BY <2>2 DEF Swap, Holds
    <3> QED
      BY <3>2, <3>3
  <2>3. CASE ReportTotal(c) \/ DrawTotal(c)
    BY <2>3 DEF ReportTotal, DrawTotal, Sees
  <2>4. CASE ReportRaise(c) \/ DrawRaise(c)
    BY <2>4 DEF ReportRaise, DrawRaise, Sees
  <2>5. CASE Lock(c)
    BY <2>5 DEF Lock, Holds, ToDraw
  <2>6. CASE StaysQuiet(c) \/ Weigh(c) \/ NotDue(c) \/ IsDue(c) \/ ClearDue(c) \/ Draw(c)
    BY <2>6 DEF StaysQuiet, Weigh, NotDue, IsDue, ClearDue, Draw
  <2> QED
    BY <1>1, <2>1, <2>2, <2>3, <2>4, <2>5, <2>6 DEF Caller
<1>2. CASE Ticker \/ Finish \/ WaitTicker
  BY <1>2 DEF Ticker, DelayOver, Tick, TickerStops, Finish, WaitTicker
<1>3. CASE UNCHANGED meterVars
  BY <1>3 DEF meterVars
<1> QED
  BY <1>1, <1>2, <1>3 DEF MeterNext, MeterRest

\* What a caller about to write holds is a count and a percentage.
LEMMA Written ==
  ASSUME Hands, Fits, NEW c \in Callers, at[c] = "write"
  PROVE  /\ reg[c].n \in Nat /\ reg[c].t \in Nat
         /\ reg[c].t > 0 => Percent(reg[c].n, reg[c].t) \in 0..100
<1>1. reg[c].n \in Nat /\ reg[c].t \in Nat
  BY DEF Hands
<1>2. reg[c].t = 0 \/ reg[c].n <= reg[c].t
  BY DEF Fits
<1>3. CASE reg[c].t > 0
  <2> DEFINE n == reg[c].n
             t == reg[c].t
  <2>1. n \in Nat /\ t \in Nat /\ 0 < t /\ n <= t
    BY <1>1, <1>2, <1>3
  <2> HIDE DEF n, t
  <2>2. Percent(n, t) \in 0..100
    BY <2>1, PercentFits
  <2> QED
    BY <1>1, <2>2 DEF n, t
<1> QED
  BY <1>1, <1>3

LEMMA NumbersStep == Numbers /\ Plans /\ Fits /\ Hands /\ [MeterNext]_meterVars => Numbers'
<1> SUFFICES ASSUME Numbers, Plans, Fits, Hands, [MeterNext]_meterVars PROVE Numbers'
  OBVIOUS
<1> USE DEF Numbers, meter
<1>1. ASSUME NEW c \in Callers, Caller(c) PROVE Numbers'
  <2>1. CASE Call(c)
    BY <2>1 DEF Call
  <2>2. CASE Swap(c)
    <3>1. calls[c] # << >> /\ calls[c] \in Seq(Nat)
      BY <2>2 DEF Swap, Fits, Plans
    <3>2. Head(calls[c]) \in Nat
      BY <3>1
    <3> QED
      BY <2>2, <3>2 DEF Swap
  <2>3. CASE ReportRaise(c) \/ DrawRaise(c)
    BY <2>3 DEF ReportRaise, DrawRaise, RaisedTo, Hands
  <2>4. CASE Draw(c)
    <3>1. pct' = IF reg[c].t > 0 THEN Percent(reg[c].n, reg[c].t) ELSE pct
      BY <2>4 DEF Draw
    <3>2. pct' \in -1..100
      <4>1. reg[c].t > 0 => Percent(reg[c].n, reg[c].t) \in 0..100
        BY <2>4, Written DEF Draw
      <4>2. pct \in -1..100 /\ \A k \in 0..100 : k \in -1..100
        OBVIOUS
      <4> HIDE DEF Numbers, meter
      <4> QED
        BY <3>1, <4>1, <4>2
    <3> QED
      BY <2>4, <3>2 DEF Draw
  <2>5. CASE StaysQuiet(c) \/ ReportTotal(c) \/ Weigh(c) \/ NotDue(c) \/ IsDue(c)
    BY <2>5 DEF StaysQuiet, ReportTotal, Weigh, NotDue, IsDue
  <2>6. CASE ClearDue(c) \/ Lock(c) \/ DrawTotal(c)
    BY <2>6 DEF ClearDue, Lock, DrawTotal
  <2> QED
    BY <1>1, <2>1, <2>2, <2>3, <2>4, <2>5, <2>6 DEF Caller
<1>2. CASE Ticker \/ Finish \/ WaitTicker
  BY <1>2 DEF Ticker, DelayOver, Tick, TickerStops, Finish, WaitTicker
<1>3. CASE UNCHANGED meterVars
  BY <1>3 DEF meterVars
<1> QED
  BY <1>1, <1>2, <1>3 DEF MeterNext, MeterRest

LEMMA HoldersStep == Holders /\ [MeterNext]_meterVars => Holders'
<1> SUFFICES ASSUME Holders, [MeterNext]_meterVars PROVE Holders'
  OBVIOUS
<1> USE DEF Holders, meter
<1>1. ASSUME NEW c \in Callers, Caller(c) PROVE Holders'
  <2>1. CASE Call(c) \/ Swap(c) \/ ReportRaise(c) \/ DrawRaise(c)
    BY <2>1 DEF Call, Swap, ReportRaise, DrawRaise
  <2>2. CASE StaysQuiet(c) \/ ReportTotal(c) \/ Weigh(c) \/ NotDue(c) \/ IsDue(c)
    BY <2>2 DEF StaysQuiet, ReportTotal, Weigh, NotDue, IsDue
  <2>3. CASE ClearDue(c) \/ Lock(c) \/ DrawTotal(c) \/ Draw(c)
    BY <2>3 DEF ClearDue, Lock, DrawTotal, Draw
  <2> QED
    BY <1>1, <2>1, <2>2, <2>3 DEF Caller
<1>2. CASE Ticker \/ Finish \/ WaitTicker
  BY <1>2 DEF Ticker, DelayOver, Tick, TickerStops, Finish, WaitTicker
<1>3. CASE UNCHANGED meterVars
  BY <1>3 DEF meterVars
<1> QED
  BY <1>1, <1>2, <1>3 DEF MeterNext, MeterRest

LEMMA OnScreenStep == OnScreen /\ Hands /\ Fits /\ [MeterNext]_meterVars => OnScreen'
<1> SUFFICES ASSUME OnScreen, Hands, Fits, [MeterNext]_meterVars PROVE OnScreen'
  OBVIOUS
<1> USE DEF OnScreen, meter
<1>1. ASSUME NEW c \in Callers, Caller(c) PROVE OnScreen'
  <2>1. CASE Draw(c)
    <3>1. at[c] = "write"
      BY <2>1 DEF Draw
    <3>2. Final(c) \in BOOLEAN
      BY DEF Final
    <3>3. line' \in Line
      BY <2>1, <3>1, <3>2, Written DEF Draw, Line
    <3> QED
      BY <3>3
  <2>2. CASE Call(c) \/ Swap(c) \/ ReportRaise(c) \/ DrawRaise(c)
    BY <2>2 DEF Call, Swap, ReportRaise, DrawRaise
  <2>3. CASE StaysQuiet(c) \/ ReportTotal(c) \/ Weigh(c) \/ NotDue(c) \/ IsDue(c)
    BY <2>3 DEF StaysQuiet, ReportTotal, Weigh, NotDue, IsDue
  <2>4. CASE ClearDue(c) \/ Lock(c) \/ DrawTotal(c)
    BY <2>4 DEF ClearDue, Lock, DrawTotal
  <2> QED
    BY <1>1, <2>1, <2>2, <2>3, <2>4 DEF Caller
<1>2. CASE Ticker \/ Finish \/ WaitTicker
  BY <1>2 DEF Ticker, DelayOver, Tick, TickerStops, Finish, WaitTicker
<1>3. CASE UNCHANGED meterVars
  BY <1>3 DEF meterVars
<1> QED
  BY <1>1, <1>2, <1>3 DEF MeterNext, MeterRest

\* Every step keeps the types.
LEMMA MeterTypeStep == MeterInv /\ [MeterNext]_meterVars => MeterTypeOK'
<1> SUFFICES ASSUME MeterInv, [MeterNext]_meterVars PROVE MeterTypeOK'
  OBVIOUS
<1>1. Numbers /\ Whereabouts /\ Hands /\ Plans /\ Holders /\ OnScreen /\ Fits
  BY MeterTypeParts DEF MeterInv
<1>2. Numbers' /\ Whereabouts' /\ Hands' /\ Plans' /\ Holders' /\ OnScreen'
  BY <1>1, NumbersStep, WhereaboutsStep, HandsStep, PlansStep, HoldersStep, OnScreenStep
<1> QED
  BY <1>2 DEF MeterTypeOK, Numbers, Whereabouts, Hands, Plans, Holders, OnScreen

-----------------------------------------------------------------------------
(***************************************************************************)
(* What a step leaves alone, and what it can only raise.                   *)
(***************************************************************************)

\* The steps that are nobody's but the timer's, Finish's and the last one's.
LEMMA Elsewhere ==
  ASSUME MeterTypeOK, Ticker \/ Finish \/ WaitTicker \/ UNCHANGED meterVars, NEW c \in Callers
  PROVE  /\ reg' = reg /\ calls' = calls /\ count' = count /\ total' = total
         /\ mu' = mu /\ line' = line
         /\ at'[c] = at[c] \/ ~(at'[c] \in {"swap", "raise", "weigh", "draw", "raiseDraw", "write"})
<1> USE DEF meter, Goes
<1>1. CASE Ticker \/ UNCHANGED meterVars
  BY <1>1 DEF Ticker, DelayOver, Tick, TickerStops, meterVars
<1>2. CASE Finish \/ WaitTicker
  <2>1. at' = [at EXCEPT ![Owner] = "wait"] \/ at' = [at EXCEPT ![Owner] = "lock"]
        \/ at' = [at EXCEPT ![Owner] = "over"]
    BY <1>2 DEF Finish, WaitTicker
  <2>2. at \in [Callers -> {"idle", "swap", "report", "raise", "weigh", "due", "clear",
                           "lock", "draw", "raiseDraw", "write", "wait", "over"}]
    BY DEF MeterTypeOK
  <2>3. at'[c] = at[c] \/ at'[c] \in {"wait", "lock", "over"}
    BY <2>1, <2>2
  <2> QED
    BY <1>2, <2>3 DEF Finish, WaitTicker
<1> QED
  BY <1>1, <1>2

\* A caller's step leaves the other callers as they are.
LEMMA Others ==
  ASSUME MeterTypeOK, NEW c \in Callers, Caller(c), NEW d \in Callers, d # c
  PROVE  at'[d] = at[d] /\ reg'[d] = reg[d] /\ calls'[d] = calls[d]
<1> USE DEF Goes, Holds, Sees
<1>1. /\ DOMAIN at = Callers /\ DOMAIN reg = Callers /\ DOMAIN calls = Callers
  BY DEF MeterTypeOK
<1>2. CASE Call(c) \/ Swap(c)
  BY <1>1, <1>2 DEF Call, Swap
<1>3. CASE StaysQuiet(c) \/ ReportTotal(c) \/ ReportRaise(c) \/ Weigh(c)
  BY <1>1, <1>3 DEF StaysQuiet, ReportTotal, ReportRaise, Weigh
<1>4. CASE NotDue(c) \/ IsDue(c) \/ ClearDue(c) \/ Lock(c)
  BY <1>1, <1>4 DEF NotDue, IsDue, ClearDue, Lock
<1>5. CASE DrawTotal(c) \/ DrawRaise(c) \/ Draw(c)
  BY <1>1, <1>5 DEF DrawTotal, DrawRaise, Draw
<1> QED
  BY <1>2, <1>3, <1>4, <1>5 DEF Caller

\* The two counters are only ever raised.
LEMMA CountersGrow == MeterInv /\ [MeterNext]_meterVars => count' >= count /\ total' >= total
<1> SUFFICES ASSUME MeterInv, [MeterNext]_meterVars PROVE count' >= count /\ total' >= total
  OBVIOUS
<1>1. Numbers /\ Hands /\ Plans /\ Fits
  BY MeterTypeParts DEF MeterInv
<1> USE DEF meter
<1>2. ASSUME NEW c \in Callers, Caller(c) PROVE count' >= count /\ total' >= total
  <2>1. CASE Call(c)
    BY <1>1, <2>1 DEF Call, Numbers
  <2>2. CASE Swap(c)
    <3>1. calls[c] # << >> /\ calls[c] \in Seq(Nat) /\ reg[c].n < Head(calls[c])
      BY <1>1, <2>2 DEF Swap, Fits, Plans
    <3> QED
      BY <1>1, <2>2, <3>1 DEF Swap, Numbers
  <2>3. CASE ReportRaise(c) \/ DrawRaise(c)
    <3>1. reg[c].n \in Nat /\ reg[c].t \in Nat /\ reg[c].t < reg[c].n
      BY <1>1, <2>3 DEF ReportRaise, DrawRaise, Fits, Hands
    <3> QED
      BY <1>1, <2>3, <3>1 DEF ReportRaise, DrawRaise, RaisedTo, Numbers
  <2>4. CASE StaysQuiet(c) \/ ReportTotal(c) \/ Weigh(c) \/ NotDue(c) \/ IsDue(c)
    BY <1>1, <2>4 DEF StaysQuiet, ReportTotal, Weigh, NotDue, IsDue, Numbers
  <2>5. CASE ClearDue(c) \/ Lock(c) \/ DrawTotal(c) \/ Draw(c)
    BY <1>1, <2>5 DEF ClearDue, Lock, DrawTotal, Draw, Numbers
  <2> QED
    BY <1>2, <2>1, <2>2, <2>3, <2>4, <2>5 DEF Caller
<1>3. CASE Ticker \/ Finish \/ WaitTicker \/ UNCHANGED meterVars
  <2>1. MeterTypeOK /\ Owner \in Callers
    BY DEF MeterInv, Callers
  <2>2. count' = count /\ total' = total
    BY <1>3, <2>1, Elsewhere
  <2> QED
    BY <1>1, <2>2 DEF Numbers
<1> QED
  BY <1>2, <1>3 DEF MeterNext, MeterRest, meterVars, meter

-----------------------------------------------------------------------------
(***************************************************************************)
(* The invariant.                                                          *)
(***************************************************************************)

\* What one caller's step leaves it with.
FitsAt(c) ==
  /\ at[c] = "swap" => calls[c] # << >> /\ reg[c].n < Head(calls[c])
  /\ at[c] \in {"raise", "raiseDraw"} => 0 < reg[c].t /\ reg[c].t < reg[c].n
  /\ at[c] \in {"weigh", "write"} => reg[c].t = 0 \/ reg[c].n <= reg[c].t

BehindAt(c) ==
  /\ reg[c].n <= count
  /\ at[c] \in {"raise", "weigh", "raiseDraw", "write"} => reg[c].t <= total

LEMMA OwnStep ==
  ASSUME MeterInv, NEW c \in Callers, Caller(c)
  PROVE  FitsAt(c)' /\ BehindAt(c)'
<1>1. Numbers /\ Hands /\ Plans /\ Whereabouts /\ FitsAt(c) /\ BehindAt(c)
  BY MeterTypeParts DEF MeterInv, Fits, Behind, FitsAt, BehindAt
<1>2. /\ reg[c].n \in Nat /\ reg[c].t \in Nat /\ count \in Nat /\ total \in Nat
      /\ DOMAIN at = Callers /\ DOMAIN reg = Callers /\ DOMAIN calls = Callers
  BY <1>1 DEF Numbers, Hands, Whereabouts, Plans
<1> USE DEF FitsAt, BehindAt, Goes, meter
<1>3. CASE Call(c)
  <2>1. at'[c] \in {"report", "swap"} /\ reg'[c].n <= count'
    BY <1>2, <1>3 DEF Call, Holds
  <2>2. CASE at'[c] = "swap"
    <3>1. /\ count < Head(calls[c]) /\ calls[c] # << >>
          /\ reg' = [reg EXCEPT ![c] = [n |-> count, t |-> @.t]] /\ calls' = calls
      BY <1>2, <1>3, <2>2 DEF Call, MayCall, Holds
    <3> QED
      BY <1>2, <2>1, <2>2, <3>1
  <2> QED
    BY <2>1, <2>2
<1>4. CASE Swap(c)
  <2>1. calls[c] # << >> /\ calls[c] \in Seq(Nat) /\ reg[c].n < Head(calls[c])
    BY <1>1, <1>4 DEF Swap, Plans
  <2>2. Head(calls[c]) \in Nat
    BY <2>1
  <2>3. at'[c] \in {"report", "idle"} /\ reg'[c].n <= count'
    BY <1>1, <1>2, <1>4, <2>2 DEF Swap, Holds
  <2> QED
    BY <2>3
<1>5. CASE StaysQuiet(c) \/ NotDue(c) \/ IsDue(c) \/ ClearDue(c) \/ Weigh(c)
  <2>1. at'[c] \in {"idle", "clear", "lock", "due"} /\ reg' = reg /\ count' = count
    BY <1>2, <1>5 DEF StaysQuiet, NotDue, IsDue, ClearDue, Weigh
  <2> QED
    BY <1>1, <2>1
<1>6. CASE ReportTotal(c) \/ DrawTotal(c)
  <2>1. /\ at'[c] \in {"raise", "weigh", "raiseDraw", "write"}
        /\ at'[c] \in {"raise", "raiseDraw"} <=> Outruns(reg[c].n)
    BY <1>2, <1>6 DEF ReportTotal, DrawTotal
  <2>2. reg'[c].n = reg[c].n /\ reg'[c].t = total /\ count' = count /\ total' = total
    BY <1>2, <1>6 DEF ReportTotal, DrawTotal, Sees
  <2> QED
    BY <1>1, <1>2, <2>1, <2>2 DEF Outruns
<1>7. CASE ReportRaise(c) \/ DrawRaise(c)
  <2>1. 0 < reg[c].t /\ reg[c].t < reg[c].n
    BY <1>1, <1>7 DEF ReportRaise, DrawRaise
  <2>2. reg'[c].n = reg[c].n /\ reg'[c].t = reg[c].n /\ count' = count
    BY <1>2, <1>7 DEF ReportRaise, DrawRaise, Sees
  <2>3. \/ at'[c] \in {"weigh", "write"} /\ total' = reg[c].n
        \/ at'[c] \in {"report", "draw"}
    BY <1>2, <1>7 DEF ReportRaise, DrawRaise, RaisedTo
  <2> QED
    BY <1>1, <1>2, <2>1, <2>2, <2>3
<1>8. CASE Lock(c)
  <2>1. at'[c] = "draw" /\ reg'[c].n = count /\ count' = count
    BY <1>2, <1>8 DEF Lock, Holds, ToDraw
  <2> QED
    BY <1>2, <2>1
<1>9. CASE Draw(c)
  <2>1. at'[c] \in {"over", "idle"} /\ reg' = reg /\ count' = count
    BY <1>2, <1>9 DEF Draw
  <2> QED
    BY <1>1, <2>1
<1> QED
  BY <1>3, <1>4, <1>5, <1>6, <1>7, <1>8, <1>9 DEF Caller

\* What a caller has in hand stays fit for its place, and behind the counters.
LEMMA HandStep == MeterInv /\ [MeterNext]_meterVars => Fits' /\ Behind'
<1> SUFFICES ASSUME MeterInv, [MeterNext]_meterVars, NEW d \in Callers
             PROVE  FitsAt(d)' /\ BehindAt(d)'
  BY DEF Fits, Behind, FitsAt, BehindAt
<1>1. /\ MeterTypeOK /\ FitsAt(d) /\ BehindAt(d)
      /\ reg[d].n \in Nat /\ reg[d].t \in Nat /\ count \in Nat /\ total \in Nat
  BY MeterTypeParts DEF MeterInv, Fits, Behind, FitsAt, BehindAt, Numbers, Hands
<1>2. MeterTypeOK' /\ count' \in Nat /\ total' \in Nat /\ count' >= count /\ total' >= total
  BY MeterTypeStep, CountersGrow DEF MeterTypeOK
<1>3. ASSUME NEW c \in Callers, Caller(c) PROVE FitsAt(d)' /\ BehindAt(d)'
  <2>1. CASE d = c
    BY <1>3, <2>1, OwnStep
  <2>2. CASE d # c
    <3>1. at'[d] = at[d] /\ reg'[d] = reg[d] /\ calls'[d] = calls[d]
      BY <1>1, <1>3, <2>2, Others
    <3> QED
      BY <1>1, <1>2, <3>1 DEF FitsAt, BehindAt
  <2> QED
    BY <2>1, <2>2
<1>4. CASE Ticker \/ Finish \/ WaitTicker \/ UNCHANGED meterVars
  <2>1. /\ reg' = reg /\ calls' = calls /\ count' = count /\ total' = total
        /\ at'[d] = at[d] \/ ~(at'[d] \in {"swap", "raise", "weigh", "draw", "raiseDraw", "write"})
    BY <1>1, <1>4, Elsewhere
  <2> QED
    BY <1>1, <2>1 DEF FitsAt, BehindAt
<1> QED
  BY <1>3, <1>4 DEF MeterNext, MeterRest

\* Only who has the lock draws.
LEMMA LockStep == MeterInv /\ [MeterNext]_meterVars => Locked'
<1> SUFFICES ASSUME MeterInv, [MeterNext]_meterVars, NEW d \in Callers, Drawing(d)'
             PROVE  mu' = d
  BY DEF Locked
<1>1. MeterTypeOK /\ Locked /\ DOMAIN at = Callers /\ NoDrawer \notin Callers
  BY MeterAssumption DEF MeterInv, MeterTypeOK, Callers
<1>2. ASSUME NEW c \in Callers, Caller(c) PROVE mu' = d
  <2>1. CASE d = c
    <3>1. CASE Lock(c)
      BY <2>1, <3>1 DEF Lock
    <3>2. CASE DrawTotal(c) \/ DrawRaise(c)
      <4>1. mu = c
        BY <1>1, <3>2 DEF DrawTotal, DrawRaise, Locked, Drawing
      <4> QED
        BY <2>1, <3>2, <4>1 DEF DrawTotal, DrawRaise, meter
    <3>3. CASE Call(c) \/ Swap(c) \/ StaysQuiet(c) \/ ReportTotal(c) \/ ReportRaise(c)
      BY <1>1, <2>1, <3>3 DEF Call, Swap, StaysQuiet, ReportTotal, ReportRaise, Goes, Drawing
    <3>4. CASE Weigh(c) \/ NotDue(c) \/ IsDue(c) \/ ClearDue(c) \/ Draw(c)
      BY <1>1, <2>1, <3>4 DEF Weigh, NotDue, IsDue, ClearDue, Draw, Goes, Drawing
    <3> QED
      BY <1>2, <3>1, <3>2, <3>3, <3>4 DEF Caller
  <2>2. CASE d # c
    <3>1. at'[d] = at[d]
      BY <1>1, <1>2, <2>2, Others
    <3>2. mu = d
      BY <1>1, <3>1 DEF Locked, Drawing
    <3>3. ~Lock(c) /\ ~Draw(c)
      BY <1>1, <2>2, <3>2 DEF Lock, Draw, Locked, Drawing
    <3>4. mu' = mu
      <4>1. CASE Call(c) \/ Swap(c) \/ StaysQuiet(c) \/ ReportTotal(c) \/ ReportRaise(c)
        BY <4>1 DEF Call, Swap, StaysQuiet, ReportTotal, ReportRaise, meter
      <4>2. CASE Weigh(c) \/ NotDue(c) \/ IsDue(c) \/ ClearDue(c) \/ DrawTotal(c) \/ DrawRaise(c)
        BY <4>2 DEF Weigh, NotDue, IsDue, ClearDue, DrawTotal, DrawRaise, meter
      <4> QED
        BY <1>2, <3>3, <4>1, <4>2 DEF Caller
    <3> QED
      BY <3>2, <3>4
  <2> QED
    BY <2>1, <2>2
<1>3. CASE Ticker \/ Finish \/ WaitTicker \/ UNCHANGED meterVars
  <2>1. at'[d] = at[d] /\ mu' = mu
    BY <1>1, <1>3, Elsewhere DEF Drawing
  <2> QED
    BY <1>1, <2>1 DEF Locked, Drawing
<1> QED
  BY <1>2, <1>3 DEF MeterNext, MeterRest

-----------------------------------------------------------------------------
(***************************************************************************)
(* The line.                                                               *)
(***************************************************************************)

\* A caller's step that is not the drawing of a line leaves it, and what the
\* caller goes on to draw is behind the counters but not behind the line.
LEMMA LineKept ==
  ASSUME MeterInv, line # NoLine, NEW c \in Callers, Caller(c), ~Draw(c)
  PROVE  /\ line' = line
         /\ Drawing(c)' => line.n <= reg'[c].n
         /\ at'[c] \in {"raiseDraw", "write"} => line.total <= reg'[c].t
<1>1. /\ line.n \in Nat /\ line.total \in Nat
      /\ reg[c].n \in Nat /\ reg[c].t \in Nat /\ count \in Nat /\ total \in Nat
      /\ DOMAIN at = Callers /\ DOMAIN reg = Callers
  BY MeterTypeParts DEF MeterInv, OnScreen, Line, Numbers, Hands, Whereabouts
<1>2. /\ line.n <= count /\ line.total <= total
      /\ Drawing(c) => line.n <= reg[c].n
      /\ at[c] \in {"raiseDraw", "write"} => line.total <= reg[c].t
      /\ FitsAt(c)
  BY DEF MeterInv, LineBehind, Fits, FitsAt
<1> USE DEF Goes, meter
<1>3. CASE Lock(c)
  <2>1. line' = line /\ at'[c] = "draw" /\ reg'[c].n = count
    BY <1>1, <1>3 DEF Lock, Holds, ToDraw
  <2> QED
    BY <1>2, <2>1
<1>4. CASE DrawTotal(c)
  <2>1. line' = line /\ reg'[c].n = reg[c].n /\ reg'[c].t = total /\ Drawing(c)
    BY <1>1, <1>4 DEF DrawTotal, Sees, Drawing
  <2> QED
    BY <1>2, <2>1
<1>5. CASE DrawRaise(c)
  <2>1. /\ line' = line /\ reg'[c].n = reg[c].n /\ reg'[c].t = reg[c].n
        /\ at[c] = "raiseDraw" /\ Drawing(c)
    BY <1>1, <1>5 DEF DrawRaise, Sees, Drawing
  <2>2. line.n <= reg[c].n /\ line.total <= reg[c].t /\ reg[c].t < reg[c].n
    BY <1>2, <2>1 DEF FitsAt
  <2> QED
    BY <1>1, <2>1, <2>2
<1>6. CASE Call(c) \/ Swap(c) \/ StaysQuiet(c) \/ ReportTotal(c) \/ ReportRaise(c)
  <2>1. line' = line /\ at'[c] \in {"report", "swap", "idle", "raise", "weigh"}
    BY <1>1, <1>6 DEF Call, Swap, StaysQuiet, ReportTotal, ReportRaise
  <2> QED
    BY <2>1 DEF Drawing
<1>7. CASE Weigh(c) \/ NotDue(c) \/ IsDue(c) \/ ClearDue(c)
  <2>1. line' = line /\ at'[c] \in {"clear", "due", "idle", "lock"}
    BY <1>1, <1>7 DEF Weigh, NotDue, IsDue, ClearDue
  <2> QED
    BY <2>1 DEF Drawing
<1> QED
  BY <1>3, <1>4, <1>5, <1>6, <1>7 DEF Caller

\* What Draw leaves on the screen.
LEMMA Drawn ==
  ASSUME MeterInv, NEW c \in Callers, Draw(c)
  PROVE  /\ line'.n = reg[c].n /\ line'.total = reg[c].t
         /\ line'.pct = IF reg[c].t > 0 THEN Percent(reg[c].n, reg[c].t) ELSE -1
         /\ reg[c].n \in Nat /\ reg[c].t \in Nat
         /\ reg[c].n <= count /\ reg[c].t <= total
         /\ reg[c].t > 0 => reg[c].n <= reg[c].t
         /\ count' = count /\ total' = total /\ reg' = reg
         /\ \A d \in Callers : ~Drawing(d)'
<1>1. at[c] = "write" /\ DOMAIN at = Callers /\ Hands
  BY MeterTypeParts DEF Draw, MeterInv, Whereabouts
<1>2. /\ reg[c].n \in Nat /\ reg[c].t \in Nat
      /\ reg[c].n <= count /\ reg[c].t <= total
      /\ reg[c].t > 0 => reg[c].n <= reg[c].t
  BY <1>1 DEF Hands, MeterInv, Behind, Fits
<1>3. \A d \in Callers : ~Drawing(d)'
  <2>1. \A d \in Callers \ {c} : ~Drawing(d)
    BY <1>1 DEF MeterInv, Locked, Drawing
  <2>2. at' = [at EXCEPT ![c] = "over"] \/ at' = [at EXCEPT ![c] = "idle"]
    BY DEF Draw, Goes
  <2> QED
    BY <1>1, <2>1, <2>2 DEF Drawing
<1> QED
  BY <1>2, <1>3 DEF Draw

LEMMA LineStep == MeterInv /\ [MeterNext]_meterVars => LineBehind'
<1> SUFFICES ASSUME MeterInv, [MeterNext]_meterVars, line' # NoLine PROVE LineBehind'
  BY DEF LineBehind
<1>1. MeterTypeOK' /\ count' >= count /\ total' >= total
  BY MeterTypeStep, CountersGrow
<1>2. ASSUME NEW c \in Callers, Draw(c) PROVE LineBehind'
  <2>1. /\ line'.n <= count' /\ line'.total <= total'
        /\ line'.pct = IF line'.total > 0 THEN Percent(line'.n, line'.total) ELSE -1
        /\ line'.total > 0 => line'.n <= line'.total
    BY <1>2, Drawn
  <2>2. \A d \in Callers : ~Drawing(d)'
    BY <1>2, Drawn
  <2>3. \A d \in Callers : ~(at'[d] \in {"raiseDraw", "write"})
    BY <2>2 DEF Drawing
  <2> QED
    BY <2>1, <2>2, <2>3 DEF LineBehind
<1>3. ASSUME line' = line,
             \A d \in Callers : Drawing(d)' => line.n <= reg'[d].n,
             \A d \in Callers : at'[d] \in {"raiseDraw", "write"} => line.total <= reg'[d].t
      PROVE  LineBehind'
  <2>1. /\ line.n \in Nat /\ line.total \in Nat /\ count \in Nat /\ total \in Nat
        /\ count' \in Nat /\ total' \in Nat
    BY <1>1, <1>3 DEF MeterInv, MeterTypeOK, Line
  <2>2. /\ line.n <= count /\ line.total <= total
        /\ line.pct = IF line.total > 0 THEN Percent(line.n, line.total) ELSE -1
        /\ line.total > 0 => line.n <= line.total
    BY <1>3 DEF MeterInv, LineBehind
  <2>3. line'.n <= count' /\ line'.total <= total'
    BY <1>1, <1>3, <2>1, <2>2
  <2> QED
    BY <1>3, <2>2, <2>3 DEF LineBehind
<1>4. ASSUME NEW c \in Callers, Caller(c), ~Draw(c) PROVE LineBehind'
  <2>1. line # NoLine
    <3>1. line' = line
      <4>1. CASE Call(c) \/ Swap(c) \/ StaysQuiet(c) \/ ReportTotal(c) \/ ReportRaise(c)
        BY <4>1 DEF Call, Swap, StaysQuiet, ReportTotal, ReportRaise
      <4>2. CASE Weigh(c) \/ NotDue(c) \/ IsDue(c) \/ ClearDue(c)
        BY <4>2 DEF Weigh, NotDue, IsDue, ClearDue
      <4>3. CASE Lock(c) \/ DrawTotal(c) \/ DrawRaise(c)
        BY <4>3 DEF Lock, DrawTotal, DrawRaise
      <4> QED
        BY <1>4, <4>1, <4>2, <4>3 DEF Caller
    <3> QED
      BY <3>1
  <2>2. /\ line' = line
        /\ Drawing(c)' => line.n <= reg'[c].n
        /\ at'[c] \in {"raiseDraw", "write"} => line.total <= reg'[c].t
    BY <1>4, <2>1, LineKept
  <2>3. ASSUME NEW d \in Callers, d # c
        PROVE  /\ Drawing(d)' => line.n <= reg'[d].n
               /\ at'[d] \in {"raiseDraw", "write"} => line.total <= reg'[d].t
    <3>1. at'[d] = at[d] /\ reg'[d] = reg[d]
      BY <1>4, <2>3, Others DEF MeterInv
    <3> QED
      BY <2>1, <3>1 DEF MeterInv, LineBehind, Drawing
  <2> QED
    BY <1>3, <2>2, <2>3
<1>5. CASE Ticker \/ Finish \/ WaitTicker \/ UNCHANGED meterVars
  <2>1. /\ reg' = reg /\ line' = line
        /\ \A d \in Callers :
             at'[d] = at[d] \/ ~(at'[d] \in {"swap", "raise", "weigh", "draw", "raiseDraw", "write"})
    <3>1. Owner \in Callers
      BY DEF Callers
    <3> QED
      BY <1>5, <3>1, Elsewhere DEF MeterInv
  <2> QED
    BY <1>3, <2>1 DEF MeterInv, LineBehind, Drawing
<1> QED
  BY <1>2, <1>4, <1>5 DEF MeterNext, MeterRest

LEMMA InvStep == MeterInv /\ [MeterNext]_meterVars => MeterInv'
BY MeterTypeStep, HandStep, LockStep, LineStep DEF MeterInv

LEMMA Invariant == MeterSpec => []MeterInv
<1>1. MeterInit => MeterInv
  BY InitInv
<1>2. MeterInv /\ [MeterNext]_meterVars => MeterInv'
  BY InvStep
<1> QED
  BY <1>1, <1>2, PTL DEF MeterSpec

-----------------------------------------------------------------------------
\* No line passes full, whatever the workers count or advance to and however
\* many of them outrun the total at once (raise, draw); nothing leaves its
\* type.
THEOREM ScreenIsRight == MeterSpec => []ScreenRight
<1>1. MeterInv => ScreenRight
  <2> SUFFICES ASSUME MeterInv PROVE ScreenRight
    OBVIOUS
  <2>1. ASSUME line # NoLine, line.total > 0
        PROVE  line.n <= line.total /\ line.pct <= 100
    <3>1. line.n \in Nat /\ line.total \in Nat /\ line.n <= line.total
          /\ line.pct = Percent(line.n, line.total)
      BY <2>1 DEF MeterInv, MeterTypeOK, Line, LineBehind
    <3>2. ASSUME NEW n \in Nat, NEW t \in Nat, 0 < t, n <= t PROVE Percent(n, t) <= 100
      BY <3>2, PercentFits, SMTT(30)
    <3> QED
      BY <2>1, <3>1, <3>2
  <2> QED
    BY <2>1 DEF MeterInv, ScreenRight, NeverPassesFull
<1> QED
  BY <1>1, Invariant, PTL

\* A line never shows a smaller count or total than the one before it, and a
\* smaller percentage only under a raised total (Advance, raise, draw).
THEOREM LinesGoForwards == MeterSpec => OnlyForwards
<1> DEFINE Forwards == line # NoLine /\ line' # line =>
             /\ line'.n >= line.n /\ line'.total >= line.total
             /\ line'.pct < line.pct => line'.total > line.total
<1>1. MeterInv /\ [MeterNext]_meterVars => [Forwards]_meterVars
  <2> SUFFICES ASSUME MeterInv, [MeterNext]_meterVars, line # NoLine, line' # line
               PROVE  /\ line'.n >= line.n /\ line'.total >= line.total
                      /\ line'.pct < line.pct => line'.total > line.total
    OBVIOUS
  <2>1. PICK c \in Callers : Draw(c)
    <3>1. Owner \in Callers
      BY DEF Callers
    <3>2. ~(Ticker \/ Finish \/ WaitTicker \/ UNCHANGED meterVars)
      BY <3>1, Elsewhere DEF MeterInv
    <3>3. PICK c \in Callers : Caller(c)
      BY <3>2 DEF MeterNext, MeterRest
    <3> QED
      BY <3>3, LineKept
  <2> DEFINE n == line.n
             m == reg[c].n
             t == line.total
             u == reg[c].t
  <2>2. /\ line'.n = m /\ line'.total = u /\ m \in Nat /\ u \in Nat
        /\ line'.pct = IF u > 0 THEN Percent(m, u) ELSE -1
    BY <2>1, Drawn
  <2>3. /\ n \in Nat /\ t \in Nat /\ n <= m /\ t <= u
        /\ line.pct = IF t > 0 THEN Percent(n, t) ELSE -1
    <3>1. at[c] = "write"
      BY <2>1 DEF Draw
    <3> QED
      BY <3>1 DEF MeterInv, MeterTypeOK, Line, LineBehind, Drawing
  <2> HIDE DEF n, m, t, u
  <2>4. CASE t = u /\ t > 0
    <3>1. Percent(n, t) <= Percent(m, t) /\ Percent(n, t) \in Int /\ Percent(m, t) \in Int
      BY <2>2, <2>3, <2>4, PercentGrows
    <3> QED
      BY <2>2, <2>3, <2>4, <3>1 DEF n, t
  <2>5. CASE t = u /\ ~(t > 0)
    BY <2>2, <2>3, <2>5 DEF n, t
  <2>6. CASE t # u
    BY <2>2, <2>3, <2>6 DEF n, t
  <2> QED
    BY <2>4, <2>5, <2>6
<1> QED
  BY <1>1, Invariant, PTL DEF MeterSpec, OnlyForwards

-----------------------------------------------------------------------------
(***************************************************************************)
(* The slots a key probes.                                                 *)
(***************************************************************************)

\* A remainder, up to twice the divisor.
LEMMA Remainder ==
  ASSUME NEW n \in Nat \ {0}, NEW a \in Nat, a < 2 * n
  PROVE  a % n = IF a < n THEN a ELSE a - n
  OBVIOUS

LEMMA RemainderBelow ==
  ASSUME NEW n \in Nat \ {0}, NEW a \in Nat
  PROVE  a % n \in 0..(n - 1)
  OBVIOUS

\* A probe goes through every slot of a table once (objTable.Lookup).
LEMMA WayFacts ==
  ASSUME NEW k \in Nat, NEW n \in Nat \ {0}
  PROVE  /\ \A j \in 1..n : Way(k, n)[j] \in 1..n
         /\ \A p \in 1..n : \E j \in 1..n : Way(k, n)[j] = p
         /\ \A i, j \in 1..n : Way(k, n)[i] = Way(k, n)[j] => i = j
  <1> DEFINE m == k % n
  <1>1. m \in 0..(n - 1)
    BY RemainderBelow
  <1>2. \A j \in 1..n : Way(k, n)[j] = (IF m + j - 1 < n THEN m + j - 1 ELSE m + j - 1 - n) + 1
    <2>1. TAKE j \in 1..n
    <2>2. m + j - 1 \in Nat /\ m + j - 1 < 2 * n
      BY <1>1
    <2>3. (m + j - 1) % n = IF m + j - 1 < n THEN m + j - 1 ELSE m + j - 1 - n
      BY <2>2, Remainder
    <2> QED
      BY <2>3 DEF Way
  <1> HIDE DEF m
  <1>3. ASSUME NEW p \in 1..n
        PROVE  \E j \in 1..n : Way(k, n)[j] = p
    <2>1. CASE p > m
      <3>1. p - m \in 1..n /\ Way(k, n)[p - m] = p
        BY <1>1, <1>2, <2>1
      <3> QED
        BY <3>1
    <2>2. CASE p <= m
      <3>1. p - m + n \in 1..n /\ Way(k, n)[p - m + n] = p
        BY <1>1, <1>2, <2>2
      <3> QED
        BY <3>1
    <2> QED
      BY <1>1, <2>1, <2>2
  <1> QED
    BY <1>1, <1>2, <1>3

-----------------------------------------------------------------------------
(***************************************************************************)
(* The inductive invariant of the object table, one named part per idea.   *)
(***************************************************************************)
Edged == [slab : Nat, pos : Nat, n : Nat]
Entry == [hash : Names \cup {Nil}, typ : Kinds \cup {NoType}, seen : BOOLEAN, edges : {Nil} \cup Edged]
Slab == [1..SlabSize -> Entry]
Slot == [key : Nat, idx : Nat]

\* There is an entry under an index.
Held(i) == i \in Nat /\ SlabOf(i) <= Len(slabs)

\* The list of slabs names each of them once.
SlabsListed == heap \in Seq(Slab) /\ Len(slabs) = Len(heap) /\ slabs = [k \in 1..Len(heap) |-> k]

\* The slots of a table that are in use.
Filled(sl) == {p \in 1..Len(sl) : sl[p].idx # 0}
NameAt(h, p) == At(slots[h][p].idx - 1).hash

ShardsFit ==
  /\ slots \in [Shards -> Seq(Slot)] /\ used \in [Shards -> Nat]
  /\ holder \in [Shards -> Checkers \cup {Nobody}]
  /\ \A h \in Shards : slots[h] # << >> => Len(slots[h]) >= 2

\* A slot has the key of the object in its entry, which belongs to the shard.
SlotFits(h, p) ==
  LET i == slots[h][p].idx - 1
  IN  /\ i < created /\ Held(i) /\ At(i).hash \in Names
      /\ ShardOf[At(i).hash] = h /\ slots[h][p].key = Key[At(i).hash]
SlotsFit == \A h \in Shards : \A p \in Filled(slots[h]) : SlotFits(h, p)

\* An object has one slot.
OneSlotEach ==
  \A h \in Shards : \A p, q \in Filled(slots[h]) : NameAt(h, p) = NameAt(h, q) => p = q

\* A probe for what is in a slot meets no empty slot before it.
NoGap(sl) ==
  \A p \in Filled(sl) : \A j \in 1..Len(sl) :
    Way(sl[p].key, Len(sl))[j] = p => \A i \in 1..(j - 1) : sl[Way(sl[p].key, Len(sl))[i]].idx # 0
NoGaps == \A h \in Shards : NoGap(slots[h])

\* The indexes that are claimed, and are not in a slot yet.
Claimers == {w \in Checkers : stage[w] \in {"load", "grow", "insert"}}

\* The object looked up was not there, and the lock of its shard is held since.
Locking(w) == stage[w] \in {"claim", "load", "grow", "insert"}
Seeking(w) == stage[w] = "lookup" \/ Locking(w)

NewToShard ==
  \A w \in Checkers : Locking(w) =>
    LET h == ShardOf[want[w].oid]
    IN  /\ want[w].oid \in Names /\ holder[h] = w /\ slots[h] # << >>
        /\ \A p \in Filled(slots[h]) : NameAt(h, p) # want[w].oid

Numbered ==
  /\ \A w \in Claimers : /\ probe[w] \in Nat /\ probe[w] < created /\ probe[w] \notin InTable
                         /\ stage[w] = "insert" => Held(probe[w])
  /\ \A v, w \in Claimers : probe[v] = probe[w] => v = w
  /\ \A i \in Nat : i < created => i \in InTable \/ \E w \in Claimers : probe[w] = i
  /\ created \in Nat /\ created <= MaxIndex + 2 /\ (~crashed => created <= MaxIndex + 1)

\* An entry nobody has filled in is blank.
Untouched == \A i \in Nat : Held(i) /\ i \notin InTable => At(i) = Blank

\* What a worker has in hand: an object, its entry once it is looked up, and
\* the room for its edges.
JobType == [oid : Names, idx : Nat, span : {Nil} \cup [slab : Nat, pos : Nat], n : Nat]
Placed(w) == stage[w] \in {"clear", "seen", "alloc", "cut", "link"} \/ (Seeking(w) /\ job[w].span # Nil)
Linking(w) == stage[w] = "link" \/ (Seeking(w) /\ job[w].span # Nil)

JobFits(w) ==
  /\ stage[w] # "idle" => job[w] \in JobType
  /\ stage[w] \in {"clear", "seen", "alloc", "cut"} => job[w].span = Nil
  /\ stage[w] # "idle" /\ job[w].span = Nil => job[w].n = 0
  /\ stage[w] = "link" => job[w].span # Nil /\ job[w].n <= Len(store.links[job[w].oid])
  /\ stage[w] = "cut" => Room(w) \in 1..EdgeSlabSize
  /\ Placed(w) => job[w].idx \in InTable /\ At(job[w].idx).hash = job[w].oid
  /\ Seeking(w) => /\ want[w] \in Link
                   /\ IF job[w].span = Nil THEN want[w].oid = job[w].oid
                      ELSE /\ job[w].n < Len(store.links[job[w].oid])
                           /\ want[w] = store.links[job[w].oid][job[w].n + 1]
Jobs == \A w \in Checkers : JobFits(w)

\* Room in the arena: n edges from a position on.
Inside(s, n) == n > 0 => s.slab \in 1..Len(arena) /\ s.pos + n <= Len(arena[s.slab])
CutPast(c, s, n) == n > 0 /\ c.slab = s.slab => s.pos + n <= c.used
Apart(s, n, t, m) == n > 0 /\ m > 0 /\ s.slab = t.slab => s.pos + n <= t.pos \/ t.pos + m <= s.pos

Chunk == [slab : Nat, used : Nat]
ChunkFits(c) ==
  c \in Chunk /\ c.slab \in 1..Len(arena) /\ c.used <= EdgeSlabSize /\ Len(arena[c.slab]) = EdgeSlabSize

\* The chunks that edges are still to be cut from: each of its own slab.
Chunks ==
  /\ arena \in Seq(Seq(Int))
  /\ \A c \in pool : ChunkFits(c)
  /\ \A c, d \in pool : c.slab = d.slab => c = d
  /\ \A w \in Checkers : chunk[w] # Nil =>
       /\ stage[w] = "cut" /\ ChunkFits(chunk[w])
       /\ \A c \in pool : c.slab # chunk[w].slab
       /\ \A v \in Checkers \ {w} : chunk[v] # Nil => chunk[v].slab # chunk[w].slab

\* No two workers write to the same edges, nor does one to what is recorded
\* or still to be cut.
RoomFits(w) ==
  /\ Inside(job[w].span, Room(w))
  /\ \A c \in pool : CutPast(c, job[w].span, Room(w))
  /\ \A v \in Checkers : chunk[v] # Nil => CutPast(chunk[v], job[w].span, Room(w))
  /\ \A v \in Checkers \ {w} : Linking(v) => Apart(job[w].span, Room(w), job[v].span, Room(v))
  /\ \A i \in InTable : At(i).edges # Nil => Apart(job[w].span, Room(w), At(i).edges, At(i).edges.n)
Rooms == \A w \in Checkers : Linking(w) => RoomFits(w)

\* An edge is what its link asks for.
Leads(l, v) ==
  IF v = Unresolved THEN l.typ # AnyType /\ \E i \in InTable : At(i).hash = l.oid /\ At(i).typ \notin {NoType, l.typ}
  ELSE v \in InTable /\ At(v).hash = l.oid /\ l.typ \in {AnyType, At(v).typ}

WrittenLead ==
  \A w \in Checkers : Linking(w) => \A k \in 1..job[w].n :
    Leads(store.links[job[w].oid][k], arena[job[w].span.slab][job[w].span.pos + k])

EdgesFit(i) ==
  LET s == At(i).edges
      l == store.links[At(i).hash]
  IN  /\ s.n = Len(l) /\ Inside(s, s.n)
      /\ \A c \in pool : CutPast(c, s, s.n)
      /\ \A v \in Checkers : chunk[v] # Nil => CutPast(chunk[v], s, s.n)
      /\ \A k \in 1..s.n : Leads(l[k], arena[s.slab][s.pos + k])
RecordedLead == \A i \in InTable : At(i).edges # Nil => EdgesFit(i)

Still ==
  /\ store \in Store /\ queue \in Seq(Seq(Names)) /\ crashed \in BOOLEAN
  /\ stage \in [Checkers -> {"idle", "lookup", "claim", "load", "grow", "insert",
                             "clear", "seen", "alloc", "cut", "link"}]
  /\ job = [w \in Checkers |-> job[w]] /\ want = [w \in Checkers |-> want[w]]
  /\ probe = [w \in Checkers |-> probe[w]] /\ chunk = [w \in Checkers |-> chunk[w]]

\* The shards and the entries under them.
InOrder == SlabsListed /\ ShardsFit /\ SlotsFit /\ OneSlotEach /\ NoGaps /\ ProbesEnd

TableHalf == InOrder /\ NewToShard /\ Numbered /\ Untouched
EdgeHalf == Jobs /\ Chunks /\ Rooms /\ WrittenLead /\ RecordedLead
TableInv == Still /\ TableHalf /\ EdgeHalf

-----------------------------------------------------------------------------
(***************************************************************************)
(* Entries and the list of slabs.                                          *)
(***************************************************************************)
LEMMA SizeFacts == SlabSize \in Nat \ {0} /\ Start \in Nat \ {0, 1} /\ EdgeSlabSize \in Nat \ {0} /\ MaxIndex \in Nat
  BY ObjTableAssumption

\* An index is a slab and a place in it (objTable.At).
LEMMA IndexFacts ==
  ASSUME NEW i \in Nat
  PROVE  /\ SlabOf(i) \in Nat \ {0} /\ PosIn(i) \in 1..SlabSize
         /\ i = SlabSize * (SlabOf(i) - 1) + PosIn(i) - 1
  BY SizeFacts DEF SlabOf, PosIn

LEMMA IndexesApart ==
  ASSUME NEW i \in Nat, NEW j \in Nat, SlabOf(i) = SlabOf(j), PosIn(i) = PosIn(j)
  PROVE  i = j
  BY IndexFacts

LEMMA HeldFacts ==
  ASSUME SlabsListed, NEW i, Held(i)
  PROVE  /\ i \in Nat /\ SlabOf(i) \in 1..Len(heap) /\ PosIn(i) \in 1..SlabSize
         /\ slabs[SlabOf(i)] = SlabOf(i) /\ heap[SlabOf(i)] \in Slab
         /\ At(i) = heap[SlabOf(i)][PosIn(i)] /\ At(i) \in Entry
  <1>1. /\ i \in Nat /\ SlabOf(i) \in 1..Len(heap) /\ PosIn(i) \in 1..SlabSize
    BY IndexFacts DEF Held, SlabsListed
  <1>2. slabs[SlabOf(i)] = SlabOf(i)
    BY <1>1 DEF SlabsListed
  <1>3. heap[SlabOf(i)] \in Slab
    BY <1>1 DEF SlabsListed
  <1>4. At(i) = heap[SlabOf(i)][PosIn(i)]
    BY <1>2 DEF At
  <1>5. At(i) \in Entry
    BY <1>1, <1>3, <1>4 DEF Slab
  <1> QED
    BY <1>1, <1>2, <1>3, <1>4, <1>5

\* One entry changes and no other.
LEMMA SetEntryFacts ==
  ASSUME SlabsListed, NEW i, Held(i), NEW e \in Entry, SetEntry(i, e), UNCHANGED slabs
  PROVE  /\ SlabsListed'
         /\ \A j : Held(j) <=> Held(j)'
         /\ \A j : Held(j) => At(j)' = IF j = i THEN e ELSE At(j)
  <1> DEFINE s == SlabOf(i)
             p == PosIn(i)
  <1>1. /\ i \in Nat /\ s \in 1..Len(heap) /\ p \in 1..SlabSize /\ slabs[s] = s /\ heap[s] \in Slab
    BY HeldFacts
  <1>2. heap' = [heap EXCEPT ![s] = [@ EXCEPT ![p] = e]]
    BY <1>1 DEF SetEntry
  <1>3. [heap[s] EXCEPT ![p] = e] \in Slab
    BY <1>1 DEF Slab
  <1>4. heap' \in Seq(Slab) /\ Len(heap') = Len(heap)
    BY <1>1, <1>2, <1>3 DEF SlabsListed
  <1>5. SlabsListed'
    BY <1>4 DEF SlabsListed
  <1>6. \A j : Held(j) <=> Held(j)'
    BY DEF Held, SlabOf
  <1>7. ASSUME NEW j, Held(j)
        PROVE  At(j)' = IF j = i THEN e ELSE At(j)
    <2>1. /\ j \in Nat /\ SlabOf(j) \in 1..Len(heap) /\ PosIn(j) \in 1..SlabSize
          /\ slabs[SlabOf(j)] = SlabOf(j) /\ heap[SlabOf(j)] \in Slab /\ At(j) = heap[SlabOf(j)][PosIn(j)]
      BY <1>7, HeldFacts
    <2>2. At(j)' = heap'[SlabOf(j)][PosIn(j)]
      BY <2>1 DEF At, SlabOf, PosIn
    <2>3. heap'[SlabOf(j)] = IF SlabOf(j) = s THEN [heap[s] EXCEPT ![p] = e] ELSE heap[SlabOf(j)]
      BY <1>1, <1>2, <2>1 DEF SlabsListed
    <2>4. heap'[SlabOf(j)][PosIn(j)] = IF SlabOf(j) = s /\ PosIn(j) = p THEN e ELSE heap[SlabOf(j)][PosIn(j)]
      BY <1>1, <2>1, <2>3 DEF Slab
    <2>5. SlabOf(j) = s /\ PosIn(j) = p <=> j = i
      BY <1>1, <2>1, IndexesApart
    <2> QED
      BY <2>1, <2>2, <2>4, <2>5
  <1> QED
    BY <1>5, <1>6, <1>7

LEMMA JoinFacts ==
  ASSUME NEW S, NEW a \in Seq(S), NEW b \in Seq(S)
  PROVE  /\ a \o b \in Seq(S) /\ Len(a \o b) = Len(a) + Len(b)
         /\ \A k \in 1..(Len(a) + Len(b)) :
              (a \o b)[k] = IF k <= Len(a) THEN a[k] ELSE b[k - Len(a)]
  OBVIOUS

\* growSlabs keeps every entry, and the entries it makes are blank.
LEMMA GrowSlabsFacts ==
  ASSUME SlabsListed, NEW w \in Checkers, GrowSlabs(w), probe[w] \in Nat
  PROVE  /\ SlabsListed'
         /\ \A j : Held(j) => Held(j)' /\ At(j)' = At(j)
         /\ \A j \in Nat : Held(j)' /\ ~Held(j) => At(j)' = Blank
         /\ Held(probe[w])'
  <1> DEFINE m == SlabOf(probe[w])
             short == IF m > Len(slabs) THEN m - Len(slabs) ELSE 0
             new == [k \in 1..short |-> NewSlab]
             nums == [k \in 1..short |-> Len(heap) + k]
  <1>1. m \in Nat \ {0} /\ short \in Nat
    <2>1. Len(slabs) \in Nat
      BY DEF SlabsListed
    <2>2. m \in Nat \ {0}
      BY IndexFacts
    <2> QED
      BY <2>1, <2>2
  <1>2. /\ heap' = heap \o new /\ slabs' = slabs \o nums /\ probe' = probe
    BY DEF GrowSlabs
  <1>3. NewSlab \in Slab
    BY ObjTableAssumption DEF NewSlab, Slab, Blank, Entry
  <1>4. new \in Seq(Slab) /\ Len(new) = short /\ nums \in Seq(Nat) /\ Len(nums) = short
    <2>1. Len(heap) \in Nat
      BY DEF SlabsListed
    <2> QED
      BY <1>1, <1>3, <2>1
  <1>5. /\ heap' \in Seq(Slab) /\ Len(heap') = Len(heap) + short /\ Len(slabs') = Len(slabs) + short
        /\ slabs \in Seq(Nat) /\ slabs' \in Seq(Nat)
        /\ \A k \in 1..Len(heap') : /\ heap'[k] = IF k <= Len(heap) THEN heap[k] ELSE NewSlab
                                    /\ slabs'[k] = k
    <2>1. slabs \in Seq(Nat) /\ Len(slabs) = Len(heap) /\ heap \in Seq(Slab) /\ \A k \in 1..Len(heap) : slabs[k] = k
      BY DEF SlabsListed
    <2> HIDE DEF new, nums, short
    <2>2. /\ heap' \in Seq(Slab) /\ Len(heap') = Len(heap) + short
          /\ \A k \in 1..(Len(heap) + short) : heap'[k] = IF k <= Len(heap) THEN heap[k] ELSE new[k - Len(heap)]
      <3>1. heap \in Seq(Slab) /\ new \in Seq(Slab) /\ Len(new) = short
        BY <1>4, <2>1
      <3>2. /\ heap \o new \in Seq(Slab) /\ Len(heap \o new) = Len(heap) + Len(new)
            /\ \A k \in 1..(Len(heap) + Len(new)) :
                 (heap \o new)[k] = IF k <= Len(heap) THEN heap[k] ELSE new[k - Len(heap)]
        BY <3>1, JoinFacts
      <3> QED
        BY <1>2, <3>1, <3>2
    <2>3. /\ slabs' \in Seq(Nat) /\ Len(slabs') = Len(slabs) + short
          /\ \A k \in 1..(Len(slabs) + short) : slabs'[k] = IF k <= Len(slabs) THEN slabs[k] ELSE nums[k - Len(slabs)]
      <3>1. slabs \in Seq(Nat) /\ nums \in Seq(Nat) /\ Len(nums) = short /\ slabs' = slabs \o nums
        BY <1>2, <1>4, <2>1
      <3>2. /\ slabs \o nums \in Seq(Nat) /\ Len(slabs \o nums) = Len(slabs) + Len(nums)
            /\ \A k \in 1..(Len(slabs) + Len(nums)) :
                 (slabs \o nums)[k] = IF k <= Len(slabs) THEN slabs[k] ELSE nums[k - Len(slabs)]
        BY <3>1, JoinFacts
      <3> QED
        BY <3>1, <3>2
    <2>4. ASSUME NEW k \in 1..(Len(heap) + short), k > Len(heap)
          PROVE  new[k - Len(heap)] = NewSlab /\ nums[k - Len(heap)] = k
      <3>1. k - Len(heap) \in 1..short
        BY <1>1, <2>1, <2>4
      <3>2. new[k - Len(heap)] = NewSlab
        BY <3>1 DEF new
      <3>3. nums[k - Len(heap)] = Len(heap) + (k - Len(heap))
        BY <3>1 DEF nums
      <3> QED
        BY <2>1, <3>2, <3>3
    <2>5. Len(heap) \in Nat
      BY <2>1
    <2>6. ASSUME NEW k \in 1..Len(heap')
          PROVE  /\ heap'[k] = IF k <= Len(heap) THEN heap[k] ELSE NewSlab
                 /\ slabs'[k] = k
      <3>1. k \in 1..(Len(heap) + short) /\ k \in 1..(Len(slabs) + short)
        BY <1>1, <2>1, <2>2, <2>5
      <3>2. CASE k <= Len(heap)
        <4>1. heap'[k] = heap[k]
          BY <2>2, <3>1, <3>2
        <4>2. k <= Len(slabs) /\ slabs[k] = k
          BY <2>1, <2>5, <3>1, <3>2
        <4>3. slabs'[k] = k
          BY <2>3, <3>1, <4>2
        <4> QED
          BY <3>2, <4>1, <4>3
      <3>3. CASE ~(k <= Len(heap))
        <4>1. k > Len(heap)
          BY <2>5, <3>1, <3>3
        <4> QED
          BY <2>1, <2>2, <2>3, <2>4, <3>1, <3>3, <4>1
      <3> QED
        BY <3>2, <3>3
    <2> QED
      BY <2>1, <2>2, <2>3, <2>6
  <1> HIDE DEF new, nums, short
  <1>6. SlabsListed'
    <2>1. Len(heap) = Len(slabs)
      BY DEF SlabsListed
    <2>2. Len(slabs') = Len(heap')
      BY <1>5, <2>1
    <2>3. slabs' = [k \in 1..Len(heap') |-> k]
      BY <1>5, <2>2
    <2> QED
      BY <1>5, <2>2, <2>3 DEF SlabsListed
  <1>7. Len(slabs) \in Nat /\ Len(slabs) = Len(heap) /\ heap \in Seq(Slab)
    BY DEF SlabsListed
  <1>8. ASSUME NEW j \in Nat
        PROVE  /\ SlabOf(j)' = SlabOf(j) /\ PosIn(j)' = PosIn(j)
               /\ SlabOf(j) \in Nat \ {0} /\ PosIn(j) \in 1..SlabSize
               /\ Held(j) <=> SlabOf(j) <= Len(heap)
               /\ Held(j)' <=> SlabOf(j) <= Len(heap')
    BY <1>5, <1>7, IndexFacts DEF Held, SlabOf, PosIn
  <1>9. ASSUME NEW j, Held(j)
        PROVE  Held(j)' /\ At(j)' = At(j)
    <2>1. j \in Nat
      BY <1>9 DEF Held
    <2>2. SlabOf(j) \in 1..Len(heap) /\ SlabOf(j) \in 1..Len(heap') /\ Len(heap) \in Nat
      BY <1>1, <1>5, <1>7, <1>9, HeldFacts
    <2>3. At(j)' = heap'[slabs'[SlabOf(j)]][PosIn(j)]
      BY <1>8, <2>1 DEF At
    <2>4. slabs'[SlabOf(j)] = SlabOf(j) /\ heap'[SlabOf(j)] = heap[SlabOf(j)]
      BY <1>5, <2>2
    <2>5. At(j) = heap[SlabOf(j)][PosIn(j)]
      BY <1>9, HeldFacts
    <2> QED
      BY <1>8, <2>1, <2>2, <2>3, <2>4, <2>5
  <1>10. ASSUME NEW j \in Nat, Held(j)', ~Held(j)
         PROVE  At(j)' = Blank
    <2>1. SlabOf(j) \in 1..Len(heap') /\ ~(SlabOf(j) <= Len(heap))
      BY <1>5, <1>7, <1>8, <1>10
    <2>2. At(j)' = heap'[slabs'[SlabOf(j)]][PosIn(j)]
      BY <1>8 DEF At
    <2>3. slabs'[SlabOf(j)] = SlabOf(j) /\ heap'[SlabOf(j)] = NewSlab
      BY <1>5, <2>1
    <2> QED
      BY <1>8, <2>2, <2>3 DEF NewSlab
  <1>11. Held(probe[w])'
    <2>1. Held(probe[w])' <=> m <= Len(heap')
      BY <1>2, <1>8
    <2>2. m <= Len(heap) + short
      BY <1>1, <1>7 DEF short
    <2> QED
      BY <1>5, <2>1, <2>2
  <1> QED
    BY <1>6, <1>9, <1>10, <1>11

-----------------------------------------------------------------------------
(***************************************************************************)
(* Probing, and growing a shard.                                           *)
(***************************************************************************)

\* A set of positions has a first one.
LEMMA First ==
  ASSUME NEW T, T \subseteq Nat, T # {}
  PROVE  \E x \in T : \A y \in T : x <= y
  <1> DEFINE R == {ss \in Nat \X Nat : ss[1] < ss[2]}
  <1>1. IsWellFoundedOn(R, Nat)
    BY NatLessThanWellFounded DEF OpToRel
  <1>2. \A x, y \in Nat : y < x => <<y, x>> \in R
    OBVIOUS
  <1> HIDE DEF R
  <1>3. PICK x \in T : \A y \in T : ~(<<y, x>> \in R)
    BY <1>1, WFMin
  <1>4. ASSUME NEW y \in T
        PROVE  x <= y
    <2>1. x \in Nat /\ y \in Nat /\ ~(y < x)
      BY <1>2, <1>3
    <2> QED
      BY <2>1
  <1> QED
    BY <1>4

\* The first place of a table's order that is in a set.
LEMMA FirstOnWay ==
  ASSUME NEW n \in Nat, NEW J, J \subseteq 1..n, J # {}
  PROVE  \E j \in 1..n : j \in J /\ \A i \in 1..(j - 1) : i \notin J
  <1>1. J \subseteq Nat
    OBVIOUS
  <1>2. PICK j \in J : \A y \in J : j <= y
    BY <1>1, First
  <1> QED
    BY <1>1, <1>2

LEMMA FilledFinite ==
  ASSUME NEW t \in Seq(Slot)
  PROVE  IsFiniteSet(Filled(t)) /\ Cardinality(Filled(t)) \in Nat
  <1>1. IsFiniteSet(1..Len(t)) /\ Filled(t) \subseteq 1..Len(t)
    BY FS_Interval DEF Filled
  <1>2. IsFiniteSet(Filled(t))
    BY <1>1, FS_Subset
  <1> QED
    BY <1>2, FS_CardinalityType

\* A table that is not full has an empty slot.
LEMMA SomeEmpty ==
  ASSUME NEW t \in Seq(Slot), Cardinality(Filled(t)) < Len(t)
  PROVE  \E p \in 1..Len(t) : t[p].idx = 0
  <1>1. Cardinality(1..Len(t)) = Len(t)
    <2>1. Len(t) \in Nat
      OBVIOUS
    <2>2. Cardinality(1..Len(t)) = IF 1 > Len(t) THEN 0 ELSE Len(t) - 1 + 1
      BY <2>1, FS_Interval
    <2> QED
      BY <2>1, <2>2
  <1>2. Filled(t) # 1..Len(t)
    BY <1>1
  <1> QED
    BY <1>2 DEF Filled

\* u is t with the slot s in the place p, which was empty, and without a gap.
PutAt(t, p, s, u) ==
  /\ p \in 1..Len(t) /\ p \notin Filled(t)
  /\ u \in Seq(Slot) /\ Len(u) = Len(t) /\ NoGap(u) /\ Filled(u) = Filled(t) \cup {p}
  /\ u[p] = s /\ \A q \in 1..Len(t) : q # p => u[q] = t[q]

\* A slot that is filled where its key first meets an empty one leaves no gap.
LEMMA FillNoGap ==
  ASSUME NEW t \in Seq(Slot), Len(t) # 0, NoGap(t), NEW s \in Slot, s.idx # 0,
         NEW j \in 1..Len(t), t[Way(s.key, Len(t))[j]].idx = 0,
         \A i \in 1..(j - 1) : t[Way(s.key, Len(t))[i]].idx # 0
  PROVE  PutAt(t, Way(s.key, Len(t))[j], s, [t EXCEPT ![Way(s.key, Len(t))[j]] = s])
  <1> DEFINE n == Len(t)
             p == Way(s.key, n)[j]
             u == [t EXCEPT ![p] = s]
  <1>1. n \in Nat \ {0} /\ s.key \in Nat
    BY DEF Slot
  <1>2. \A k \in Nat : \A i \in 1..n : Way(k, n)[i] \in 1..n
    BY <1>1, WayFacts
  <1>3. p \in 1..n /\ p \notin Filled(t)
    BY <1>1, <1>2 DEF Filled
  <1>4. u \in Seq(Slot) /\ Len(u) = n /\ u[p] = s /\ \A q \in 1..n : q # p => u[q] = t[q]
    BY <1>3
  <1> HIDE DEF p, u
  <1>5. Filled(u) = Filled(t) \cup {p}
    BY <1>3, <1>4 DEF Filled
  <1>6. NoGap(u)
    <2>1. SUFFICES ASSUME NEW q \in Filled(u), NEW m \in 1..n, Way(u[q].key, n)[m] = q, NEW i \in 1..(m - 1)
                   PROVE  u[Way(u[q].key, n)[i]].idx # 0
      BY <1>4 DEF NoGap
    <2>2. i \in 1..n /\ m \in Nat /\ i \in Nat
      BY <1>1
    <2>3. q \in 1..n /\ u[q] \in Slot /\ u[q].key \in Nat
      <3>1. q \in 1..n
        BY <1>4 DEF Filled
      <3>2. u[q] \in Slot
        BY <1>4, <3>1
      <3> QED
        BY <3>1, <3>2 DEF Slot
    <2>4. Way(u[q].key, n)[i] \in 1..n
      BY <1>2, <2>2, <2>3
    <2>5. CASE q = p
      <3>1. m = j
        <4>1. u[q] = s /\ Way(s.key, n)[m] = p
          BY <1>4, <2>1, <2>5
        <4>2. Way(s.key, n)[j] = p
          BY DEF p
        <4>3. Way(s.key, n)[m] = Way(s.key, n)[j] => m = j
          BY <1>1, WayFacts
        <4> QED
          BY <4>1, <4>2, <4>3
      <3>2. t[Way(s.key, n)[i]].idx # 0
        BY <2>2, <3>1
      <3> QED
        BY <1>4, <2>4, <2>5, <3>2
    <2>6. CASE q # p
      <3>1. q \in Filled(t) /\ u[q] = t[q]
        BY <1>4, <1>5, <2>3, <2>6
      <3>2. t[Way(t[q].key, n)[i]].idx # 0
        BY <2>1, <2>2, <3>1 DEF NoGap
      <3> QED
        BY <1>4, <2>4, <3>1, <3>2
    <2> QED
      BY <2>5, <2>6
  <1>7. PutAt(t, p, s, u)
    BY <1>3, <1>4, <1>5, <1>6 DEF PutAt
  <1> QED
    BY <1>7 DEF p, u

\* objShard.grow finds a place for a slot.
LEMMA PutBackFacts ==
  ASSUME NEW t \in Seq(Slot), NoGap(t), Cardinality(Filled(t)) < Len(t), NEW s \in Slot, s.idx # 0
  PROVE  \E p : PutAt(t, p, s, PutBack(t, s, Len(t)))
  <1> DEFINE n == Len(t)
             way == Way(s.key, n)
             J == {j \in 1..n : t[way[j]].idx = 0}
             Here(j) == t[way[j]].idx = 0 /\ \A i \in 1..(j - 1) : t[way[i]].idx # 0
             k == CHOOSE j \in 1..n : Here(j)
  <1>1. PICK p \in 1..n : t[p].idx = 0
    BY SomeEmpty
  <1>2. n \in Nat \ {0} /\ s.key \in Nat
    BY <1>1 DEF Slot
  <1>3. \E j \in 1..n : way[j] = p
    BY <1>2, WayFacts
  <1>4. J # {} /\ J \subseteq 1..n
    BY <1>1, <1>3
  <1>5. \E j \in 1..n : Here(j)
    <2>1. PICK j \in 1..n : j \in J /\ \A i \in 1..(j - 1) : i \notin J
      BY <1>2, <1>4, FirstOnWay
    <2>2. \A i \in 1..(j - 1) : i \in 1..n
      BY <1>2
    <2> QED
      BY <2>1, <2>2
  <1>6. k \in 1..n /\ Here(k)
    <2> HIDE DEF Here
    <2> QED
      BY <1>5
  <1>7. PutBack(t, s, n) = [t EXCEPT ![way[k]] = s]
    BY DEF PutBack
  <1> HIDE DEF k
  <1>8. PutAt(t, way[k], s, [t EXCEPT ![way[k]] = s])
    BY <1>2, <1>6, FillNoGap
  <1> QED
    BY <1>7, <1>8

Tables(n) == {t \in Seq(Slot) : Len(t) = n}

\* What grow has after each slot of the old table.
Regrown(sl, n, f, k) ==
  /\ f \in [0..k -> Tables(n)] /\ f[0] = [p \in 1..n |-> Empty]
  /\ \A q \in 1..k : f[q] = PutBack(f[q - 1], sl[q], n)

LEMMA PutBackStays ==
  ASSUME NEW n \in Nat, NEW t \in Tables(n), NEW s \in Slot
  PROVE  PutBack(t, s, n) \in Tables(n)
  <1> DEFINE way == Way(s.key, n)
             k == CHOOSE j \in 1..n : t[way[j]].idx = 0 /\ \A i \in 1..(j - 1) : t[way[i]].idx # 0
  <1>1. PutBack(t, s, n) = IF s.idx = 0 THEN t ELSE [t EXCEPT ![way[k]] = s]
    BY DEF PutBack
  <1> HIDE DEF way, k
  <1>2. ASSUME NEW x
        PROVE  [t EXCEPT ![x] = s] \in Tables(n)
    <2>1. t \in Seq(Slot) /\ Len(t) = n
      BY DEF Tables
    <2>2. CASE x \in 1..n
      BY <2>1, <2>2 DEF Tables
    <2>3. CASE x \notin 1..n
      <3>1. [t EXCEPT ![x] = s] = t
        BY <2>1, <2>3
      <3> QED
        BY <3>1
    <2> QED
      BY <2>2, <2>3
  <1> QED
    BY <1>1, <1>2

\* grow computes what it does step by step.
LEMMA RehashRegrows ==
  ASSUME NEW sl \in Seq(Slot), NEW n \in Nat
  PROVE  \E f : Regrown(sl, n, f, Len(sl)) /\ Rehash(sl, n) = f[Len(sl)]
  <1> DEFINE L == Len(sl)
             E(g) == [q \in 0..L |-> IF q = 0 THEN [p \in 1..n |-> Empty] ELSE PutBack(g[q - 1], sl[q], n)]
             T == {k \in Nat : k <= L /\ ~\E f : Regrown(sl, n, f, k)}
  <1>0. L \in Nat /\ \A q \in 1..L : sl[q] \in Slot
    OBVIOUS
  <1>1. [p \in 1..n |-> Empty] \in Tables(n)
    BY DEF Tables, Empty, Slot
  <1>2. Regrown(sl, n, [k \in 0..0 |-> [p \in 1..n |-> Empty]], 0)
    BY <1>1 DEF Regrown
  <1>3. ASSUME NEW k \in Nat \ {0}, k <= L, NEW g, Regrown(sl, n, g, k - 1)
        PROVE  \E f : Regrown(sl, n, f, k)
    <2> DEFINE t == PutBack(g[k - 1], sl[k], n)
               f == [d \in 0..k |-> IF d = k THEN t ELSE g[d]]
    <2>1. k \in 1..L /\ k - 1 \in 0..(k - 1) /\ g[k - 1] \in Tables(n)
      BY <1>0, <1>3 DEF Regrown
    <2>2. t \in Tables(n)
      BY <1>0, <2>1, PutBackStays
    <2> HIDE DEF t
    <2>3. f \in [0..k -> Tables(n)] /\ f[0] = [p \in 1..n |-> Empty]
      BY <1>3, <2>2 DEF Regrown
    <2>4. ASSUME NEW q \in 1..k
          PROVE  f[q] = PutBack(f[q - 1], sl[q], n)
      <3>1. f[q - 1] = g[q - 1]
        BY <1>3
      <3>2. CASE q = k
        BY <3>1, <3>2 DEF t
      <3>3. CASE q # k
        <4>1. q \in 1..(k - 1) /\ f[q] = g[q]
          BY <1>3, <3>3
        <4> QED
          BY <1>3, <3>1, <4>1 DEF Regrown
      <3> QED
        BY <3>2, <3>3
    <2> HIDE DEF f
    <2> QED
      BY <2>3, <2>4 DEF Regrown
  <1>4. ASSUME T # {}
        PROVE  FALSE
    <2>1. PICK k \in T : \A l \in T : k <= l
      BY <1>4, First
    <2>2. k # 0
      BY <1>2, <2>1
    <2>3. k \in Nat \ {0} /\ k <= L /\ k - 1 \in Nat /\ k - 1 <= L /\ k - 1 \notin T
      BY <1>0, <2>1, <2>2
    <2>4. PICK g : Regrown(sl, n, g, k - 1)
      BY <2>3
    <2>5. \E f : Regrown(sl, n, f, k)
      BY <1>3, <2>3, <2>4
    <2> QED
      BY <2>1, <2>5
  <1>5. PICK f : Regrown(sl, n, f, L)
    BY <1>0, <1>4
  <1>6. f = E(f)
    BY <1>0, <1>5 DEF Regrown
  <1> DEFINE d == CHOOSE g : g = E(g)
  <1>7. Rehash(sl, n) = d[L]
    BY DEF Rehash
  <1>8. d = E(d)
    <2> HIDE DEF E
    <2> QED
      BY <1>6
  <1> HIDE DEF d
  <1>9. Regrown(sl, n, d, L)
    <2> DEFINE U == {k \in Nat : k <= L /\ d[k] \notin Tables(n)}
    <2>1. d[0] = [p \in 1..n |-> Empty] /\ \A q \in 1..L : d[q] = PutBack(d[q - 1], sl[q], n)
      <3>1. \A q \in 0..L : d[q] = IF q = 0 THEN [p \in 1..n |-> Empty] ELSE PutBack(d[q - 1], sl[q], n)
        BY <1>8
      <3> QED
        BY <1>0, <3>1
    <2>2. ASSUME U # {}
          PROVE  FALSE
      <3>1. PICK k \in U : \A l \in U : k <= l
        BY <2>2, First
      <3>2. k # 0
        BY <1>1, <2>1, <3>1
      <3>3. k \in 1..L /\ d[k - 1] \in Tables(n)
        BY <1>0, <3>1, <3>2
      <3>4. d[k] \in Tables(n)
        BY <1>0, <2>1, <3>3, PutBackStays
      <3> QED
        BY <3>1, <3>4
    <2>3. \A k \in 0..L : d[k] \in Tables(n)
      BY <1>0, <2>2
    <2>4. d \in [0..L -> Tables(n)]
      BY <1>8, <2>3
    <2> QED
      BY <2>1, <2>4 DEF Regrown
  <1> QED
    BY <1>7, <1>9

\* The new table t has the first q slots of the old one, each once.
Moved(sl, t, q, n) ==
  /\ t \in Tables(n) /\ NoGap(t)
  /\ \A p \in Filled(t) : \E r \in Filled(sl) : r <= q /\ t[p] = sl[r]
  /\ \A r \in Filled(sl) : r <= q => \E p \in Filled(t) : t[p] = sl[r]
  /\ \A o, p \in Filled(t) : t[o].idx = t[p].idx => o = p
  /\ Cardinality(Filled(t)) = Cardinality(Filled(sl) \cap (1..q))

Distinct(sl) == \A p, q \in Filled(sl) : sl[p].idx = sl[q].idx => p = q

LEMMA MoveOne ==
  ASSUME NEW sl \in Seq(Slot), Distinct(sl), NEW n \in Nat, Len(sl) <= n,
         NEW q \in 1..Len(sl), NEW t, Moved(sl, t, q - 1, n)
  PROVE  Moved(sl, PutBack(t, sl[q], n), q, n)
  <1> DEFINE s == sl[q]
             D(k) == Filled(sl) \cap (1..k)
  <1>1. /\ t \in Seq(Slot) /\ Len(t) = n /\ NoGap(t) /\ s \in Slot
        /\ Cardinality(Filled(t)) = Cardinality(D(q - 1))
    BY DEF Moved, Tables
  <1>2. /\ IsFiniteSet(D(q - 1)) /\ Cardinality(D(q - 1)) <= q - 1
        /\ Cardinality(D(q - 1)) \in Nat /\ q \in Nat /\ q <= n
    <2>1. IsFiniteSet(1..(q - 1)) /\ Cardinality(1..(q - 1)) = q - 1
      <3>1. q - 1 \in Nat /\ 1 \in Int
        OBVIOUS
      <3>2. IsFiniteSet(1..(q - 1)) /\ Cardinality(1..(q - 1)) = IF 1 > q - 1 THEN 0 ELSE q - 1 - 1 + 1
        BY <3>1, FS_Interval
      <3> QED
        BY <3>1, <3>2
    <2>2. D(q - 1) \in SUBSET (1..(q - 1))
      OBVIOUS
    <2>3. q \in Nat /\ q <= n
      OBVIOUS
    <2> QED
      BY <2>1, <2>2, <2>3, FS_Subset, FS_CardinalityType
  <1>3. CASE s.idx = 0
    <2>1. PutBack(t, s, n) = t
      BY <1>3 DEF PutBack
    <2>2. q \notin Filled(sl)
      BY <1>3 DEF Filled
    <2>3. \A r \in Filled(sl) : r <= q <=> r <= q - 1
      BY <2>2 DEF Filled
    <2>4. D(q) = D(q - 1)
      BY <2>2
    <2> HIDE DEF D
    <2>5. Moved(sl, t, q, n)
      <3>1. \A p \in Filled(t) : \E r \in Filled(sl) : r <= q /\ t[p] = sl[r]
        BY <2>3 DEF Moved
      <3>2. \A r \in Filled(sl) : r <= q => \E p \in Filled(t) : t[p] = sl[r]
        BY <2>3 DEF Moved
      <3>3. Cardinality(Filled(t)) = Cardinality(Filled(sl) \cap (1..q))
        BY <1>1, <2>4 DEF D
      <3> QED
        BY <3>1, <3>2, <3>3 DEF Moved
    <2> QED
      BY <2>1, <2>5
  <1>4. CASE s.idx # 0
    <2> DEFINE u == PutBack(t, s, n)
    <2>1. Cardinality(Filled(t)) < n
      BY <1>1, <1>2
    <2>2. PICK p : PutAt(t, p, s, u)
      BY <1>1, <1>4, <2>1, PutBackFacts
    <2> HIDE DEF u
    <2>3. q \in Filled(sl)
      BY <1>4 DEF Filled
    <2>4. u \in Tables(n) /\ NoGap(u)
      BY <1>1, <2>2 DEF PutAt, Tables
    <2>5. /\ Filled(u) = Filled(t) \cup {p} /\ p \notin Filled(t) /\ u[p] = s
          /\ \A o \in Filled(t) : u[o] = t[o]
      BY <1>1, <2>2 DEF PutAt, Filled
    <2>6. \A r \in Filled(sl) : r \in Nat /\ (r <= q <=> (r <= q - 1 \/ r = q))
      BY DEF Filled
    <2>7. \A o \in Filled(u) : \E r \in Filled(sl) : r <= q /\ u[o] = sl[r]
      BY <2>3, <2>5, <2>6 DEF Moved
    <2>8. \A r \in Filled(sl) : r <= q => \E o \in Filled(u) : u[o] = sl[r]
      BY <2>5, <2>6 DEF Moved
    <2>9. \A o \in Filled(t) : t[o].idx # s.idx
      BY <2>3, <2>6 DEF Moved, Distinct
    <2>10. \A o, v \in Filled(u) : u[o].idx = u[v].idx => o = v
      BY <2>5, <2>9 DEF Moved
    <2>11. D(q) = D(q - 1) \cup {q} /\ q \notin D(q - 1)
      BY <2>3
    <2>12. Cardinality(D(q)) = Cardinality(D(q - 1)) + 1
      BY <1>2, <2>11, FS_AddElement
    <2>13. Cardinality(Filled(u)) = Cardinality(Filled(t)) + 1
      BY <1>1, <2>5, FilledFinite, FS_AddElement
    <2>14. Moved(sl, u, q, n)
      BY <1>1, <2>4, <2>7, <2>8, <2>10, <2>12, <2>13 DEF Moved
    <2> QED
      BY <2>14 DEF u
  <1> QED
    BY <1>3, <1>4

\* Growing a shard keeps every slot in use, once, and leaves no gap.
LEMMA RehashFacts ==
  ASSUME NEW sl \in Seq(Slot), Distinct(sl), NEW n \in Nat, Len(sl) <= n
  PROVE  Moved(sl, Rehash(sl, n), Len(sl), n)
  <1> DEFINE L == Len(sl)
  <1>0. L \in Nat
    OBVIOUS
  <1>1. PICK f : Regrown(sl, n, f, L) /\ Rehash(sl, n) = f[L]
    BY RehashRegrows
  <1> DEFINE T == {k \in Nat : k <= L /\ ~Moved(sl, f[k], k, n)}
  <1>2. Moved(sl, f[0], 0, n)
    <2> DEFINE t == [p \in 1..n |-> Empty]
    <2>1. t \in Seq(Slot) /\ Len(t) = n /\ \A p \in 1..n : t[p].idx = 0
      BY DEF Empty, Slot
    <2> HIDE DEF t
    <2>2. Filled(t) = {}
      BY <2>1 DEF Filled
    <2>3. Filled(sl) \cap (1..0) = {} /\ \A r \in Filled(sl) : ~(r <= 0)
      BY DEF Filled
    <2>4. Moved(sl, t, 0, n)
      BY <2>1, <2>2, <2>3 DEF Moved, Tables, NoGap
    <2> QED
      BY <1>1, <2>4 DEF Regrown, t
  <1>3. ASSUME T # {}
        PROVE  FALSE
    <2>1. PICK k \in T : \A l \in T : k <= l
      BY <1>3, First
    <2>2. k # 0
      BY <1>2, <2>1
    <2>3. k \in 1..L /\ k - 1 \in Nat /\ k - 1 <= L /\ k - 1 \notin T
      BY <1>0, <2>1, <2>2
    <2>4. Moved(sl, f[k - 1], k - 1, n)
      BY <2>3
    <2>5. Moved(sl, PutBack(f[k - 1], sl[k], n), k, n)
      BY <2>3, <2>4, MoveOne
    <2>6. f[k] = PutBack(f[k - 1], sl[k], n)
      BY <1>1, <2>3 DEF Regrown
    <2> QED
      BY <2>1, <2>5, <2>6
  <1> QED
    BY <1>0, <1>1, <1>3

-----------------------------------------------------------------------------
(***************************************************************************)
(* Looking an object up.                                                   *)
(***************************************************************************)
LEMMA SlotFacts ==
  ASSUME ShardsFit, NEW h \in Shards, NEW p \in Filled(slots[h])
  PROVE  /\ slots[h] \in Seq(Slot) /\ p \in 1..Len(slots[h]) /\ slots[h][p] \in Slot
         /\ slots[h][p].idx \in Nat \ {0} /\ slots[h][p].idx - 1 \in Nat
  <1>1. slots[h] \in Seq(Slot)
    BY DEF ShardsFit
  <1>2. p \in 1..Len(slots[h]) /\ slots[h][p].idx # 0
    BY DEF Filled
  <1>3. slots[h][p] \in Slot
    BY <1>1, <1>2
  <1>4. slots[h][p].idx \in Nat
    BY <1>3 DEF Slot
  <1> QED
    BY <1>1, <1>2, <1>3, <1>4

LEMMA InTableFacts ==
  ASSUME ShardsFit, NEW i
  PROVE  i \in InTable <=> i \in Nat /\ \E h \in Shards : \E p \in Filled(slots[h]) : slots[h][p].idx = i + 1
  <1>1. ASSUME i \in InTable
        PROVE  i \in Nat /\ \E h \in Shards : \E p \in Filled(slots[h]) : slots[h][p].idx = i + 1
    <2>0. PICK h \in Shards : \E p \in 1..Len(slots[h]) : i = slots[h][p].idx - 1 /\ i # -1
      BY <1>1 DEF InTable
    <2>1. PICK p \in 1..Len(slots[h]) : i = slots[h][p].idx - 1 /\ i # -1
      BY <2>0
    <2>2. slots[h][p].idx \in Nat
      <3>1. slots[h] \in Seq(Slot)
        BY DEF ShardsFit
      <3>2. slots[h][p] \in Slot
        BY <2>1, <3>1
      <3> QED
        BY <3>2 DEF Slot
    <2>3. p \in Filled(slots[h])
      BY <2>1, <2>2 DEF Filled
    <2> QED
      BY <2>1, <2>2, <2>3
  <1>2. ASSUME i \in Nat, NEW h \in Shards, NEW p \in Filled(slots[h]), slots[h][p].idx = i + 1
        PROVE  i \in InTable
    <2>1. p \in 1..Len(slots[h]) /\ i = slots[h][p].idx - 1 /\ i # -1
      BY <1>2, SlotFacts
    <2> QED
      BY <2>1 DEF InTable
  <1> QED
    BY <1>1, <1>2

\* An index in the table has a slot.
LEMMA SlotOfIndex ==
  ASSUME InOrder, NEW i \in InTable
  PROVE  \E h \in Shards : \E p \in Filled(slots[h]) :
           /\ slots[h][p].idx = i + 1 /\ slots[h][p].idx - 1 = i /\ NameAt(h, p) = At(i).hash
           /\ i \in Nat /\ i < created /\ Held(i) /\ At(i).hash \in Names
           /\ ShardOf[At(i).hash] = h /\ slots[h][p].key = Key[At(i).hash]
  <1>1. PICK h \in Shards : \E p \in Filled(slots[h]) : i \in Nat /\ slots[h][p].idx = i + 1
    BY InTableFacts DEF InOrder
  <1>2. PICK p \in Filled(slots[h]) : i \in Nat /\ slots[h][p].idx = i + 1
    BY <1>1
  <1>3. slots[h][p].idx - 1 = i
    BY <1>2
  <1> QED
    BY <1>2, <1>3 DEF InOrder, SlotsFit, SlotFits, NameAt

LEMMA IndexOfSlot ==
  ASSUME InOrder, NEW h \in Shards, NEW p \in Filled(slots[h])
  PROVE  slots[h][p].idx - 1 \in InTable
  <1> DEFINE i == slots[h][p].idx - 1
  <1>1. i \in Nat /\ slots[h][p].idx = i + 1
    BY SlotFacts DEF InOrder
  <1> QED
    BY <1>1, InTableFacts DEF InOrder

LEMMA NamesApart ==
  ASSUME InOrder, NEW i \in InTable, NEW j \in InTable, At(i).hash = At(j).hash
  PROVE  i = j
  <1>1. PICK h \in Shards : \E p \in Filled(slots[h]) :
           slots[h][p].idx - 1 = i /\ NameAt(h, p) = At(i).hash /\ ShardOf[At(i).hash] = h
    BY SlotOfIndex
  <1>2. PICK g \in Shards : \E q \in Filled(slots[g]) :
           slots[g][q].idx - 1 = j /\ NameAt(g, q) = At(j).hash /\ ShardOf[At(j).hash] = g
    BY SlotOfIndex
  <1>3. g = h
    BY <1>1, <1>2
  <1> QED
    BY <1>1, <1>2, <1>3 DEF InOrder, OneSlotEach

LEMMA SlotsDistinct ==
  ASSUME InOrder, NEW h \in Shards
  PROVE  Distinct(slots[h])
  BY DEF InOrder, OneSlotEach, Distinct, NameAt

\* What a probe for an object stops at.
EndsAt(o, p) ==
  LET s == slots[ShardOf[o]][p]
  IN  s.idx = 0 \/ (s.key = Key[o] /\ At(s.idx - 1).hash = o)

\* A probe stops, and where it first can.
LEMMA HitFacts ==
  ASSUME InOrder, NEW o \in Names, slots[ShardOf[o]] # << >>
  PROVE  \E j \in 1..Len(slots[ShardOf[o]]) :
           /\ Hit(o) = Way(Key[o], Len(slots[ShardOf[o]]))[j]
           /\ EndsAt(o, Way(Key[o], Len(slots[ShardOf[o]]))[j])
           /\ \A k \in 1..(j - 1) : ~EndsAt(o, Way(Key[o], Len(slots[ShardOf[o]]))[k])
  <1> DEFINE h == ShardOf[o]
             sl == slots[h]
             n == Len(sl)
             way == Way(Key[o], n)
             J == {j \in 1..n : EndsAt(o, way[j])}
             Here(j) == EndsAt(o, way[j]) /\ \A k \in 1..(j - 1) : ~EndsAt(o, way[k])
  <1>1. h \in Shards /\ sl \in Seq(Slot) /\ n \in Nat \ {0} /\ Key[o] \in Nat
    BY ObjTableAssumption DEF InOrder, ShardsFit
  <1>2. Cardinality(Filled(sl)) < n
    <2>1. used[h] = Cardinality(Filled(sl)) /\ 2 * used[h] < n /\ used[h] \in Nat
      BY <1>1 DEF InOrder, ShardsFit, ProbesEnd, Filled
    <2> QED
      BY <1>1, <2>1
  <1>3. PICK p \in 1..n : sl[p].idx = 0
    BY <1>1, <1>2, SomeEmpty
  <1>4. PICK m \in 1..n : way[m] = p
    BY <1>1, WayFacts
  <1>5. m \in J
    BY <1>3, <1>4 DEF EndsAt
  <1>6. \E j \in 1..n : Here(j)
    <2>1. PICK j \in 1..n : j \in J /\ \A i \in 1..(j - 1) : i \notin J
      BY <1>1, <1>5, FirstOnWay
    <2>2. \A i \in 1..(j - 1) : i \in 1..n
      BY <1>1
    <2> QED
      BY <2>1, <2>2
  <1>7. Len(way) = n
    BY <1>1 DEF Way
  <1> DEFINE k == CHOOSE j \in 1..n : Here(j)
  <1>8. Hit(o) = way[k]
    BY <1>7 DEF Hit, EndsAt
  <1>9. k \in 1..n /\ Here(k)
    <2> HIDE DEF Here
    <2> QED
      BY <1>6
  <1> HIDE DEF k
  <1> QED
    BY <1>8, <1>9

\* Every index is the one its object is found under.
LEMMA GetThat ==
  ASSUME InOrder, NEW i \in InTable
  PROVE  Get(At(i).hash) = i
  <1> DEFINE o == At(i).hash
  <1>1. PICK h \in Shards : \E p \in Filled(slots[h]) :
           /\ slots[h][p].idx = i + 1 /\ slots[h][p].idx - 1 = i /\ NameAt(h, p) = o
           /\ i \in Nat /\ o \in Names /\ ShardOf[o] = h /\ slots[h][p].key = Key[o]
    BY SlotOfIndex
  <1>2. PICK p \in Filled(slots[h]) :
           /\ slots[h][p].idx = i + 1 /\ slots[h][p].idx - 1 = i /\ NameAt(h, p) = o
           /\ i \in Nat /\ o \in Names /\ ShardOf[o] = h /\ slots[h][p].key = Key[o]
    BY <1>1
  <1> HIDE DEF o
  <1> DEFINE n == Len(slots[h])
             way == Way(Key[o], n)
  <1>3. p \in 1..n /\ n \in Nat \ {0} /\ slots[h] # << >> /\ Key[o] \in Nat
    BY <1>2, SlotFacts, ObjTableAssumption DEF InOrder
  <1>4. PICK m \in 1..n : way[m] = p
    BY <1>3, WayFacts
  <1>5. PICK j \in 1..n : /\ Hit(o) = way[j] /\ EndsAt(o, way[j])
                          /\ \A k \in 1..(j - 1) : ~EndsAt(o, way[k])
    BY <1>2, <1>3, HitFacts
  <1>6. EndsAt(o, p)
    BY <1>2 DEF EndsAt, NameAt
  <1>7. ~(m < j)
    BY <1>3, <1>4, <1>5, <1>6
  <1>8. j = m
    <2>1. SUFFICES ASSUME j < m PROVE FALSE
      BY <1>3, <1>7
    <2>2. slots[h][way[j]].idx # 0
      BY <1>2, <1>3, <1>4, <2>1 DEF InOrder, NoGaps, NoGap
    <2>3. way[j] \in 1..n
      BY <1>3, WayFacts
    <2>4. way[j] \in Filled(slots[h]) /\ NameAt(h, way[j]) = o
      BY <1>2, <1>5, <2>2, <2>3 DEF EndsAt, NameAt, Filled
    <2>5. way[j] = way[m]
      BY <1>2, <1>4, <2>4 DEF InOrder, OneSlotEach
    <2>6. j = m
      BY <1>3, <2>5, WayFacts
    <2> QED
      BY <1>3, <2>1, <2>6
  <1>9. Hit(o) = p
    BY <1>4, <1>5, <1>8
  <1>10. Get(o) = i
    BY <1>2, <1>3, <1>9 DEF Get
  <1> QED
    BY <1>10 DEF o

\* What is found is in the table, under its name.
LEMMA GetFound ==
  ASSUME InOrder, NEW o \in Names, Get(o) # Nil
  PROVE  Get(o) \in InTable /\ At(Get(o)).hash = o
  <1> DEFINE h == ShardOf[o]
             n == Len(slots[h])
             way == Way(Key[o], n)
  <1>1. slots[h] # << >> /\ slots[h][Hit(o)].idx # 0 /\ Get(o) = slots[h][Hit(o)].idx - 1
    BY DEF Get
  <1>2. h \in Shards /\ n \in Nat /\ slots[h] \in Seq(Slot) /\ Key[o] \in Nat
    BY ObjTableAssumption DEF InOrder, ShardsFit
  <1>3. PICK j \in 1..n : Hit(o) = way[j] /\ EndsAt(o, way[j])
    BY <1>1, HitFacts
  <1>4. Hit(o) \in 1..n
    <2>1. n \in Nat \ {0}
      BY <1>2, <1>3
    <2>2. way[j] \in 1..n
      BY <1>2, <2>1, WayFacts
    <2> QED
      BY <1>3, <2>2
  <1>5. Hit(o) \in Filled(slots[h])
    BY <1>1, <1>4 DEF Filled
  <1>6. Get(o) \in InTable
    BY <1>1, <1>2, <1>5, IndexOfSlot
  <1> QED
    BY <1>1, <1>3, <1>6 DEF EndsAt

\* What is not found has no slot.
LEMMA GetNothing ==
  ASSUME InOrder, NEW o \in Names, Get(o) = Nil
  PROVE  \A p \in Filled(slots[ShardOf[o]]) : NameAt(ShardOf[o], p) # o
  <1>1. SUFFICES ASSUME NEW p \in Filled(slots[ShardOf[o]]), NameAt(ShardOf[o], p) = o
                 PROVE  FALSE
    OBVIOUS
  <1> DEFINE i == slots[ShardOf[o]][p].idx - 1
  <1>2. ShardOf[o] \in Shards
    BY ObjTableAssumption
  <1>3. i \in InTable /\ i \in Nat /\ At(i).hash = o
    BY <1>1, <1>2, IndexOfSlot, SlotFacts DEF InOrder, NameAt
  <1>4. Get(o) = i
    BY <1>3, GetThat
  <1> QED
    BY <1>3, <1>4, ObjTableAssumption

\* A probe for what has no slot ends at an empty one, and meets none before it.
LEMMA HitEmpty ==
  ASSUME InOrder, NEW o \in Names, slots[ShardOf[o]] # << >>,
         \A p \in Filled(slots[ShardOf[o]]) : NameAt(ShardOf[o], p) # o
  PROVE  \E j \in 1..Len(slots[ShardOf[o]]) :
           /\ Hit(o) = Way(Key[o], Len(slots[ShardOf[o]]))[j]
           /\ slots[ShardOf[o]][Hit(o)].idx = 0
           /\ \A k \in 1..(j - 1) : slots[ShardOf[o]][Way(Key[o], Len(slots[ShardOf[o]]))[k]].idx # 0
  <1> DEFINE h == ShardOf[o]
             n == Len(slots[h])
             way == Way(Key[o], n)
  <1>1. PICK j \in 1..n : /\ Hit(o) = way[j] /\ EndsAt(o, way[j])
                          /\ \A k \in 1..(j - 1) : ~EndsAt(o, way[k])
    BY HitFacts
  <1>2. n \in Nat \ {0} /\ Key[o] \in Nat
    BY <1>1, ObjTableAssumption DEF InOrder, ShardsFit
  <1>3. \A k \in 1..n : way[k] \in 1..n
    BY <1>2, WayFacts
  <1>4. slots[h][way[j]].idx = 0
    BY <1>1, <1>3 DEF EndsAt, NameAt, Filled
  <1>5. \A k \in 1..(j - 1) : slots[h][way[k]].idx # 0
    BY <1>1 DEF EndsAt
  <1> QED
    BY <1>1, <1>4, <1>5

-----------------------------------------------------------------------------
(***************************************************************************)
(* Each step keeps the table in order.                                     *)
(***************************************************************************)

\* The steps that claim no index, fill no slot and take no lock.
NobodyClaims ==
  \A v \in Checkers :
    /\ Locking(v)' => Locking(v) /\ want'[v] = want[v]
    /\ stage'[v] \in {"load", "grow", "insert"} <=> stage[v] \in {"load", "grow", "insert"}
    /\ stage'[v] = "insert" => stage[v] = "insert" \/ Held(probe[v])'

\* The entries have the names they had.
NamesKept == SlabsListed' /\ \A i : Held(i) => Held(i)' /\ At(i)'.hash = At(i).hash

LEMMA InTableStays ==
  ASSUME UNCHANGED slots
  PROVE  InTable' = InTable
  BY DEF InTable

LEMMA InOrderFrame ==
  ASSUME InOrder, NamesKept, UNCHANGED <<slots, used>>, holder' \in [Shards -> Checkers \cup {Nobody}],
         created \in Nat, created' \in Nat, created <= created'
  PROVE  /\ InOrder'
         /\ \A h \in Shards : \A p \in Filled(slots[h]) : NameAt(h, p)' = NameAt(h, p)
  <1>1. ASSUME NEW h \in Shards, NEW p \in Filled(slots[h])
        PROVE  SlotFits(h, p)' /\ NameAt(h, p)' = NameAt(h, p)
    <2> DEFINE i == slots[h][p].idx - 1
    <2>1. SlotFits(h, p) /\ Held(i) /\ i \in Nat
      BY SlotFacts DEF InOrder, SlotsFit, SlotFits
    <2>2. Held(i)' /\ At(i)'.hash = At(i).hash
      BY <2>1 DEF NamesKept
    <2>3. i < created'
      BY <2>1 DEF SlotFits
    <2>4. SlotFits(h, p)'
      BY <2>1, <2>2, <2>3 DEF SlotFits
    <2> QED
      BY <2>2, <2>4 DEF NameAt
  <1>2. ShardsFit'
    BY DEF InOrder, ShardsFit
  <1>3. SlotsFit'
    BY <1>1 DEF SlotsFit
  <1>4. OneSlotEach'
    BY <1>1 DEF InOrder, OneSlotEach
  <1>5. NoGaps' /\ ProbesEnd'
    BY DEF InOrder, NoGaps, ProbesEnd
  <1> QED
    BY <1>1, <1>2, <1>3, <1>4, <1>5 DEF InOrder, NamesKept

LEMMA TableFrame ==
  ASSUME TableHalf, NamesKept, NobodyClaims,
         UNCHANGED <<slots, used, holder, created, probe, crashed>>,
         \A i \in Nat : Held(i)' /\ i \notin InTable => At(i)' = Blank
  PROVE  TableHalf' /\ InTable' = InTable
  <1>1. InTable' = InTable
    BY InTableStays
  <1>2. /\ InOrder'
        /\ \A h \in Shards : \A p \in Filled(slots[h]) : NameAt(h, p)' = NameAt(h, p)
    BY InOrderFrame DEF TableHalf, InOrder, ShardsFit, Numbered
  <1>3. NewToShard'
    <2>1. SUFFICES ASSUME NEW w \in Checkers, Locking(w)', NEW o, o = want'[w].oid, NEW h, h = ShardOf[o]
                   PROVE  /\ o \in Names /\ holder[h] = w /\ slots[h] # << >>
                          /\ \A p \in Filled(slots[h]) : NameAt(h, p)' # o
      BY DEF NewToShard, NameAt
    <2>2. /\ o \in Names /\ holder[h] = w /\ slots[h] # << >>
          /\ \A p \in Filled(slots[h]) : NameAt(h, p) # o
      BY <2>1 DEF TableHalf, NewToShard, NobodyClaims, NameAt
    <2>3. h \in Shards
      BY <2>1, <2>2, ObjTableAssumption
    <2> QED
      BY <1>2, <2>2, <2>3
  <1>4. Numbered'
    <2>1. Claimers' = Claimers
      BY DEF NobodyClaims, Claimers
    <2>2. \A w \in Claimers : stage'[w] = "insert" => Held(probe[w])'
      BY DEF NobodyClaims, Claimers, TableHalf, Numbered, NamesKept
    <2> QED
      BY <1>1, <2>1, <2>2 DEF TableHalf, Numbered
  <1>5. Untouched'
    BY <1>1 DEF Untouched
  <1> QED
    BY <1>1, <1>2, <1>3, <1>4, <1>5 DEF TableHalf

LEMMA NewToShardNext ==
  ASSUME \A v \in Checkers : \A x, g : Locking(v)' /\ x = want'[v].oid /\ g = ShardOf[x] =>
           /\ x \in Names /\ holder'[g] = v /\ slots'[g] # << >>
           /\ \A p \in Filled(slots'[g]) : NameAt(g, p)' # x
  PROVE  NewToShard'
  BY Zenon DEF NewToShard

LEMMA QuietTable ==
  ASSUME TableHalf, NobodyClaims, UNCHANGED <<slots, used, holder, created, slabs, heap, probe, crashed>>
  PROVE  TableHalf' /\ InTable' = InTable /\ \A i : At(i)' = At(i)
  <1>1. \A i : At(i)' = At(i) /\ (Held(i)' <=> Held(i))
    BY DEF At, Held, SlabOf, PosIn
  <1>2. NamesKept
    BY <1>1 DEF NamesKept, SlabsListed, TableHalf, InOrder
  <1>3. \A i \in Nat : Held(i)' /\ i \notin InTable => At(i)' = Blank
    BY <1>1 DEF TableHalf, Untouched
  <1> QED
    BY <1>1, <1>2, <1>3, TableFrame

\* An entry in the table changes, and keeps its name (SetType, SetFlag, SetEdges).
LEMMA EntryChanges ==
  ASSUME TableHalf, NobodyClaims, NEW i \in InTable, NEW e \in Entry, e.hash = At(i).hash, SetEntry(i, e),
         UNCHANGED <<slots, used, holder, created, slabs, probe, crashed>>
  PROVE  TableHalf' /\ InTable' = InTable /\ \A j \in InTable : At(j)' = IF j = i THEN e ELSE At(j)
  <1>1. Held(i) /\ \A j \in InTable : Held(j)
    BY SlotOfIndex DEF TableHalf
  <1>2. /\ SlabsListed' /\ \A j : Held(j) <=> Held(j)'
        /\ \A j : Held(j) => At(j)' = IF j = i THEN e ELSE At(j)
    BY <1>1, SetEntryFacts DEF TableHalf, InOrder
  <1>3. NamesKept
    BY <1>2 DEF NamesKept
  <1>4. \A j \in Nat : Held(j)' /\ j \notin InTable => At(j)' = Blank
    BY <1>2 DEF TableHalf, Untouched
  <1> QED
    BY <1>1, <1>2, <1>3, <1>4, TableFrame

LEMMA GrowSlabsTable ==
  ASSUME Still, TableHalf, NEW w \in Checkers, GrowSlabs(w)
  PROVE  TableHalf' /\ InTable' = InTable /\ \A i \in InTable : At(i)' = At(i)
  <1>1. w \in Claimers /\ probe[w] \in Nat
    BY DEF GrowSlabs, Claimers, TableHalf, Numbered
  <1>2. /\ SlabsListed' /\ Held(probe[w])'
        /\ \A j : Held(j) => Held(j)' /\ At(j)' = At(j)
        /\ \A j \in Nat : Held(j)' /\ ~Held(j) => At(j)' = Blank
    BY <1>1, GrowSlabsFacts DEF TableHalf, InOrder
  <1>3. NamesKept
    BY <1>2 DEF NamesKept
  <1>4. \A j \in Nat : Held(j)' /\ j \notin InTable => At(j)' = Blank
    BY <1>2 DEF TableHalf, Untouched
  <1>5. NobodyClaims
    BY <1>2 DEF GrowSlabs, NobodyClaims, Locking, Still
  <1>6. \A i \in InTable : Held(i)
    BY SlotOfIndex DEF TableHalf
  <1>7. UNCHANGED <<slots, used, holder, created, probe, crashed>>
    BY DEF GrowSlabs
  <1> QED
    BY <1>2, <1>3, <1>4, <1>5, <1>6, <1>7, TableFrame

LEMMA LoadSlabsTable ==
  ASSUME Still, TableHalf, NEW w \in Checkers, LoadSlabs(w)
  PROVE  TableHalf' /\ InTable' = InTable /\ \A i : At(i)' = At(i)
  <1>1. w \in Claimers /\ probe[w] \in Nat
    BY DEF LoadSlabs, Claimers, TableHalf, Numbered
  <1>2. UNCHANGED <<slots, used, holder, created, slabs, heap, probe, crashed>>
    BY DEF LoadSlabs, tableState
  <1>3. stage'[w] = "insert" => Held(probe[w])'
    BY <1>1, <1>2 DEF LoadSlabs, Held, SlabOf, Still
  <1>4. NobodyClaims
    BY <1>3 DEF LoadSlabs, NobodyClaims, Locking, Still
  <1> QED
    BY <1>2, <1>4, QuietTable

\* newEntry claims an index nobody has.
LEMMA ClaimTable ==
  ASSUME Still, TableHalf, ~crashed, NEW w \in Checkers, Claim(w)
  PROVE  TableHalf' /\ InTable' = InTable /\ \A i : At(i)' = At(i)
  <1>1. \A i : At(i)' = At(i) /\ (Held(i)' <=> Held(i))
    BY DEF Claim, At, Held, SlabOf, PosIn
  <1>2. InTable' = InTable
    BY InTableStays DEF Claim
  <1>3. created \in Nat /\ created' = created + 1 /\ created <= MaxIndex + 1 /\ MaxIndex \in Nat
    BY SizeFacts DEF Claim, TableHalf, Numbered
  <1>4. \A i \in InTable : i \in Nat /\ i < created
    BY SlotOfIndex DEF TableHalf
  <1>5. NamesKept
    BY <1>1 DEF Claim, NamesKept, SlabsListed, TableHalf, InOrder
  <1>6. InOrder' /\ \A h \in Shards : \A p \in Filled(slots[h]) : NameAt(h, p)' = NameAt(h, p)
    <2>1. holder' \in [Shards -> Checkers \cup {Nobody}] /\ UNCHANGED <<slots, used>>
      BY DEF Claim, TableHalf, InOrder, ShardsFit
    <2>2. created' \in Nat /\ created <= created'
      BY <1>3
    <2> QED
      BY <1>3, <1>5, <2>1, <2>2, InOrderFrame DEF TableHalf
  <1>7. NewToShard'
    <2>1. /\ \A v \in Checkers : Locking(v)' => Locking(v)
          /\ want' = want /\ holder' = holder /\ slots' = slots
      BY DEF Claim, Locking, Still
    <2>2. SUFFICES ASSUME NEW v \in Checkers, Locking(v)', NEW o, o = want'[v].oid, NEW h, h = ShardOf[o]
                   PROVE  /\ o \in Names /\ holder'[h] = v /\ slots'[h] # << >>
                          /\ \A p \in Filled(slots'[h]) : NameAt(h, p)' # o
      BY NewToShardNext
    <2>3. /\ o \in Names /\ holder[h] = v /\ slots[h] # << >>
          /\ \A p \in Filled(slots[h]) : NameAt(h, p) # o
      BY <2>1, <2>2 DEF TableHalf, NewToShard, NameAt
    <2>4. h \in Shards
      BY <2>2, <2>3, ObjTableAssumption
    <2> QED
      BY <1>6, <2>1, <2>3, <2>4
  <1>8. Numbered'
    <2>1. Claimers' = Claimers \cup {w} /\ w \notin Claimers
      BY DEF Claim, Claimers, Still
    <2>2. /\ probe'[w] = created /\ stage'[w] = "load"
          /\ \A v \in Claimers : probe'[v] = probe[v] /\ stage'[v] = stage[v]
      BY <2>1 DEF Claim, Claimers, Still
    <2>3. \A v \in Claimers : /\ probe[v] \in Nat /\ probe[v] < created /\ probe[v] \notin InTable
                              /\ stage[v] = "insert" => Held(probe[v])
      BY DEF TableHalf, Numbered
    <2>4. \A v \in Claimers' : /\ probe'[v] \in Nat /\ probe'[v] < created' /\ probe'[v] \notin InTable'
                               /\ stage'[v] = "insert" => Held(probe'[v])
      BY <1>2, <1>3, <1>4, <2>1, <2>2, <2>3
    <2>5. \A u, v \in Claimers' : probe'[u] = probe'[v] => u = v
      BY <1>3, <2>1, <2>2, <2>3 DEF TableHalf, Numbered
    <2>6. ASSUME NEW i \in Nat, i < created'
          PROVE  i \in InTable' \/ \E v \in Claimers' : probe'[v] = i
      <3>1. CASE i = created
        BY <2>1, <2>2, <3>1
      <3>2. CASE i < created
        BY <1>2, <2>1, <2>2, <3>2 DEF TableHalf, Numbered
      <3> QED
        BY <1>3, <2>6, <3>1, <3>2
    <2>7. created' \in Nat /\ created' <= MaxIndex + 2 /\ (~crashed' => created' <= MaxIndex + 1)
      <3>1. ~crashed' => ~(created > MaxIndex)
        BY DEF Claim
      <3> QED
        BY <1>3, <3>1
    <2>8. slabs' = slabs
      BY DEF Claim
    <2> QED
      BY <2>4, <2>5, <2>6, <2>7, <2>8 DEF Numbered, Held, SlabOf
  <1>9. Untouched'
    BY <1>1, <1>2 DEF TableHalf, Untouched
  <1> QED
    BY <1>1, <1>2, <1>6, <1>7, <1>8, <1>9 DEF TableHalf

\* The same of the state a step leads to.
LEMMA InTableNow ==
  ShardsFit =>
    \A i : i \in InTable <=> i \in Nat /\ \E g \in Shards : \E p \in Filled(slots[g]) : slots[g][p].idx = i + 1
  BY InTableFacts

LEMMA InTableNext ==
  ASSUME ShardsFit'
  PROVE  \A i : i \in InTable' <=> i \in Nat /\ \E g \in Shards : \E p \in Filled(slots'[g]) : slots'[g][p].idx = i + 1
  <1>1. (\A i : i \in InTable <=> i \in Nat /\ \E g \in Shards : \E p \in Filled(slots[g]) : slots[g][p].idx = i + 1)'
    BY InTableNow, PTL
  <1> QED
    BY <1>1

\* The lock is taken and the shard has its slots, none of them filled.
LEMMA LookupNewTable ==
  ASSUME Still, TableHalf, NEW w \in Checkers, LookupNew(w), want[w].oid \in Names
  PROVE  TableHalf' /\ InTable' = InTable /\ \A i : At(i)' = At(i)
  <1> DEFINE o == want[w].oid
             h == ShardOf[o]
             blank == [p \in 1..Start |-> Empty]
  <1>1. /\ stage[w] = "lookup" /\ holder[h] = Nobody /\ Get(o) = Nil
        /\ holder' = [holder EXCEPT ![h] = w]
        /\ slots' = IF slots[h] # << >> THEN slots ELSE [slots EXCEPT ![h] = blank]
        /\ stage' = [stage EXCEPT ![w] = "claim"]
        /\ UNCHANGED <<used, created, slabs, heap, want, probe, crashed>>
    BY DEF LookupNew
  <1>2. o \in Names /\ h \in Shards
    BY ObjTableAssumption
  <1>3. \A p \in Filled(slots[h]) : NameAt(h, p) # o
    BY <1>1, <1>2, GetNothing DEF TableHalf
  <1> HIDE DEF o, h
  <1>4. \A i : At(i)' = At(i) /\ (Held(i)' <=> Held(i))
    BY <1>1 DEF At, Held, SlabOf, PosIn
  <1>5. blank \in Seq(Slot) /\ Len(blank) = Start /\ Start \in Nat /\ Start >= 2 /\ Filled(blank) = {}
    <2>1. Start \in Nat /\ Start >= 2
      BY SizeFacts
    <2>2. blank \in Seq(Slot) /\ Len(blank) = Start /\ \A p \in 1..Start : blank[p].idx = 0
      BY <2>1 DEF Empty, Slot
    <2> QED
      BY <2>1, <2>2 DEF Filled
  <1> HIDE DEF blank
  <1>6. ASSUME NEW g \in Shards
        PROVE  /\ slots'[g] \in Seq(Slot) /\ Filled(slots'[g]) = Filled(slots[g])
               /\ slots'[g] # << >> => Len(slots'[g]) >= 2
               /\ slots[g] # << >> => slots'[g] = slots[g] /\ slots'[g] # << >>
               /\ slots'[g] = slots[g] \/ (slots[g] = << >> /\ slots'[g] = blank)
    <2>1. slots[g] \in Seq(Slot) /\ (slots[g] # << >> => Len(slots[g]) >= 2) /\ slots \in [Shards -> Seq(Slot)]
      BY DEF TableHalf, InOrder, ShardsFit
    <2>2. Filled(<< >>) = {}
      BY DEF Filled
    <2>3. CASE slots[h] = << >> /\ g = h
      <3>1. slots'[g] = blank
        BY <1>1, <1>2, <2>1, <2>3
      <3> QED
        BY <1>5, <2>2, <2>3, <3>1
    <2>4. CASE ~(slots[h] = << >> /\ g = h)
      <3>1. slots'[g] = slots[g]
        BY <1>1, <1>2, <2>1, <2>4
      <3> QED
        BY <2>1, <3>1
    <2> QED
      BY <2>3, <2>4
  <1>7. \A g \in Shards : \A p \in Filled(slots[g]) : slots'[g] = slots[g]
    <2>1. Filled(<< >>) = {}
      BY DEF Filled
    <2> QED
      BY <1>6, <2>1
  <1>8. \A g \in Shards : \A p \in Filled(slots[g]) : NameAt(g, p)' = NameAt(g, p)
    <2>1. SUFFICES ASSUME NEW g \in Shards, NEW p \in Filled(slots[g])
                   PROVE  NameAt(g, p)' = NameAt(g, p)
      OBVIOUS
    <2>2. slots'[g] = slots[g]
      BY <1>7
    <2> QED
      BY <1>4, <2>2 DEF NameAt
  <1>9. slots' \in [Shards -> Seq(Slot)]
    <2>1. slots' = [g \in Shards |-> slots'[g]]
      BY <1>1 DEF TableHalf, InOrder, ShardsFit
    <2> QED
      BY <1>6, <2>1
  <1>10. ShardsFit'
    <2>1. holder' \in [Shards -> Checkers \cup {Nobody}] /\ used' \in [Shards -> Nat]
      BY <1>1 DEF TableHalf, InOrder, ShardsFit
    <2> QED
      BY <1>6, <1>9, <2>1 DEF ShardsFit
  <1>11. InTable' = InTable
    <2>1. \A i : i \in InTable <=> i \in Nat /\ \E g \in Shards : \E p \in Filled(slots[g]) : slots[g][p].idx = i + 1
      BY InTableFacts DEF TableHalf, InOrder
    <2>2. \A i : i \in InTable' <=> i \in Nat /\ \E g \in Shards : \E p \in Filled(slots'[g]) : slots'[g][p].idx = i + 1
      BY <1>10, InTableNext
    <2>3. \A i : i \in InTable' <=> i \in InTable
      BY <1>6, <1>7, <2>1, <2>2
    <2> QED
      BY <2>3
  <1>12. SlotsFit'
    <2>1. SUFFICES ASSUME NEW g \in Shards, NEW p \in Filled(slots[g])
                   PROVE  SlotFits(g, p)'
      BY <1>6 DEF SlotsFit
    <2>2. slots'[g] = slots[g] /\ SlotFits(g, p)
      BY <1>7 DEF TableHalf, InOrder, SlotsFit
    <2> QED
      BY <1>1, <1>4, <2>2 DEF SlotFits
  <1>13. OneSlotEach'
    BY <1>6, <1>8 DEF TableHalf, InOrder, OneSlotEach
  <1>14. NoGaps'
    <2>1. SUFFICES ASSUME NEW g \in Shards PROVE NoGap(slots'[g])
      BY DEF NoGaps
    <2>2. CASE slots'[g] = slots[g]
      BY <2>2 DEF TableHalf, InOrder, NoGaps
    <2>3. CASE slots'[g] = blank
      BY <1>5, <2>3 DEF NoGap
    <2> QED
      BY <1>6, <2>2, <2>3
  <1>15. ProbesEnd'
    <2>1. SUFFICES ASSUME NEW g \in Shards
                   PROVE  /\ used[g] = Cardinality(Filled(slots'[g]))
                          /\ (slots'[g] # << >> => 2 * used[g] < Len(slots'[g]))
      BY <1>1 DEF ProbesEnd, Filled
    <2>2. used[g] = Cardinality(Filled(slots[g])) /\ (slots[g] # << >> => 2 * used[g] < Len(slots[g]))
      BY DEF TableHalf, InOrder, ProbesEnd, Filled
    <2>3. CASE slots'[g] = slots[g]
      BY <2>2, <2>3
    <2>4. CASE slots'[g] = blank
      <3>1. Filled(slots'[g]) = {} /\ Filled(slots[g]) = {}
        BY <1>5, <1>6, <2>4
      <3>2. used[g] = 0
        BY <2>2, <3>1, FS_EmptySet
      <3>3. used[g] = Cardinality(Filled(slots'[g]))
        BY <3>1, <3>2, FS_EmptySet, Zenon
      <3>4. 2 * used[g] < Len(slots'[g])
        BY <1>5, <2>4, <3>2
      <3> QED
        BY <3>3, <3>4
    <2> QED
      BY <1>6, <2>3, <2>4
  <1>16. InOrder'
    <2>1. SlabsListed'
      BY <1>1 DEF SlabsListed, TableHalf, InOrder
    <2> QED
      BY <1>10, <1>12, <1>13, <1>14, <1>15, <2>1 DEF InOrder
  <1>17. NewToShard'
    <2>1. SUFFICES ASSUME NEW v \in Checkers, Locking(v)', NEW x, x = want'[v].oid, NEW g, g = ShardOf[x]
                   PROVE  /\ x \in Names /\ holder'[g] = v /\ slots'[g] # << >>
                          /\ \A p \in Filled(slots'[g]) : NameAt(g, p)' # x
      BY NewToShardNext
    <2>2. holder \in [Shards -> Checkers \cup {Nobody}] /\ stage \in [Checkers -> {"idle", "lookup", "claim", "load", "grow", "insert",
                             "clear", "seen", "alloc", "cut", "link"}]
      BY DEF TableHalf, InOrder, ShardsFit, Still
    <2>3. CASE v = w
      <3>1. x = o /\ g = h
        BY <1>1, <2>1, <2>3 DEF o, h
      <3>2. holder'[g] = v /\ slots'[g] # << >>
        <4>1. Len(blank) >= 2 /\ blank # << >>
          BY <1>5
        <4> QED
          BY <1>1, <1>2, <1>6, <2>2, <2>3, <3>1, <4>1 DEF TableHalf, InOrder, ShardsFit
      <3> QED
        BY <1>2, <1>3, <1>6, <1>8, <3>1, <3>2
    <2>4. CASE v # w
      <3>1. Locking(v) /\ want[v].oid = x
        BY <1>1, <2>1, <2>2, <2>4 DEF Locking
      <3>2. x \in Names /\ holder[g] = v /\ slots[g] # << >> /\ \A p \in Filled(slots[g]) : NameAt(g, p) # x
        BY <2>1, <3>1 DEF TableHalf, NewToShard
      <3>3. g \in Shards /\ g # h
        BY <1>1, <2>1, <3>2, ObjTableAssumption
      <3>4. holder'[g] = v
        BY <1>1, <2>2, <3>2, <3>3
      <3> QED
        BY <1>6, <1>8, <3>2, <3>3, <3>4
    <2> QED
      BY <2>3, <2>4
  <1>18. Numbered'
    <2>1. Claimers' = Claimers /\ \A v \in Claimers : stage'[v] = stage[v]
      BY <1>1 DEF Claimers, Still
    <2> QED
      BY <1>1, <1>4, <1>11, <2>1 DEF TableHalf, Numbered
  <1>19. Untouched'
    BY <1>4, <1>11 DEF TableHalf, Untouched
  <1> QED
    BY <1>4, <1>11, <1>16, <1>17, <1>18, <1>19 DEF TableHalf

\* A slot s has joined those of a table, in a table that is less than half full.
Joined(t, s, u) ==
  /\ u \in Seq(Slot) /\ Len(u) >= 2 /\ NoGap(u) /\ Distinct(u)
  /\ Cardinality(Filled(u)) = Cardinality(Filled(t)) + 1
  /\ 2 * Cardinality(Filled(u)) < Len(u)
  /\ \A p \in Filled(u) : u[p] = s \/ \E r \in Filled(t) : u[p] = t[r]
  /\ \A r \in Filled(t) : \E p \in Filled(u) : u[p] = t[r]
  /\ \E p \in Filled(u) : u[p] = s

LEMMA SlotJoins ==
  ASSUME NEW t \in Seq(Slot), Len(t) >= 2, NoGap(t), Distinct(t), 2 * Cardinality(Filled(t)) < Len(t),
         NEW s \in Slot, s.idx # 0, \A r \in Filled(t) : t[r].idx # s.idx,
         NEW p, NEW set, PutAt(t, p, s, set)
  PROVE  Joined(t, s, IF MustGrow(Cardinality(Filled(t)) + 1, Len(set)) THEN Rehash(set, 2 * Len(set)) ELSE set)
  <1> DEFINE n == Cardinality(Filled(t))
             L == Len(t)
  <1>1. n \in Nat /\ L \in Nat /\ IsFiniteSet(Filled(t)) /\ 2 * n < L /\ L >= 2
    BY FilledFinite
  <1>2. /\ p \in 1..L /\ p \notin Filled(t)
        /\ set \in Seq(Slot) /\ Len(set) = L /\ NoGap(set) /\ Filled(set) = Filled(t) \cup {p}
        /\ set[p] = s /\ \A q \in 1..L : q # p => set[q] = t[q]
    BY DEF PutAt
  <1>3. Cardinality(Filled(set)) = n + 1
    BY <1>1, <1>2, FS_AddElement
  <1>4. \A q \in Filled(set) : set[q] = s \/ \E r \in Filled(t) : set[q] = t[r]
    BY <1>2 DEF Filled
  <1>5. \A r \in Filled(t) : r \in Filled(set) /\ set[r] = t[r]
    BY <1>2 DEF Filled
  <1>6. Distinct(set)
    <2>1. \A q, r \in Filled(set) : set[q].idx = set[r].idx => q = r
      BY <1>2, <1>5 DEF Distinct
    <2> QED
      BY <2>1 DEF Distinct
  <1> HIDE DEF n, L
  <1>7. CASE MustGrow(n + 1, Len(set))
    <2> DEFINE u == Rehash(set, 2 * Len(set))
    <2>1. 2 * L \in Nat /\ L <= 2 * L /\ 2 * (n + 1) < 2 * L /\ 2 * L >= 2
      BY <1>1
    <2>2. Moved(set, u, L, 2 * L)
      BY <1>2, <1>6, <2>1, RehashFacts
    <2>3. /\ u \in Seq(Slot) /\ Len(u) = 2 * L /\ NoGap(u) /\ Distinct(u)
          /\ \A q \in Filled(u) : \E r \in Filled(set) : u[q] = set[r]
          /\ \A r \in Filled(set) : \E q \in Filled(u) : u[q] = set[r]
          /\ Cardinality(Filled(u)) = Cardinality(Filled(set))
      <3>1. \A r \in Filled(set) : r <= L
        BY <1>1, <1>2 DEF Filled
      <3>2. Filled(set) \cap (1..L) = Filled(set)
        BY <1>2 DEF Filled
      <3> QED
        BY <2>2, <3>1, <3>2 DEF Moved, Tables, Distinct
    <2> HIDE DEF u
    <2>4. \A q \in Filled(u) : u[q] = s \/ \E r \in Filled(t) : u[q] = t[r]
      BY <1>4, <2>3
    <2>5. \A r \in Filled(t) : \E q \in Filled(u) : u[q] = t[r]
      BY <1>5, <2>3
    <2>6. \E q \in Filled(u) : u[q] = s
      BY <1>2, <2>3
    <2>7. Joined(t, s, u)
      BY <1>3, <2>1, <2>3, <2>4, <2>5, <2>6 DEF Joined, n
    <2> QED
      BY <1>7, <2>7 DEF u, n
  <1>8. CASE ~MustGrow(n + 1, Len(set))
    <2>1. 2 * (n + 1) < L
      BY <1>1, <1>2, <1>8 DEF MustGrow
    <2>2. \E q \in Filled(set) : set[q] = s
      BY <1>2
    <2>3. Joined(t, s, set)
      BY <1>1, <1>2, <1>3, <1>4, <1>5, <1>6, <2>1, <2>2 DEF Joined, n
    <2> QED
      BY <1>8, <2>3 DEF n
  <1> QED
    BY <1>7, <1>8 DEF n

\* The entry that is filled in, when nothing was known of the object.
NewEntry(l) == [hash |-> l.oid, typ |-> Settle(NoType, l.typ), seen |-> FALSE, edges |-> Nil]

\* What Insert has before it.
LEMMA InsertFacts ==
  ASSUME Still, TableHalf, NEW w \in Checkers, Insert(w), want[w] \in Link
  PROVE  /\ want[w].oid \in Names /\ ShardOf[want[w].oid] \in Shards
         /\ holder[ShardOf[want[w].oid]] = w
         /\ probe[w] \in Nat /\ probe[w] < created /\ probe[w] \notin InTable /\ Held(probe[w])
         /\ NewEntry(want[w]) \in Entry /\ NewEntry(want[w]).hash = want[w].oid
         /\ SetEntry(probe[w], NewEntry(want[w]))
         /\ Joined(slots[ShardOf[want[w].oid]], [key |-> Key[want[w].oid], idx |-> probe[w] + 1],
                   slots'[ShardOf[want[w].oid]])
         /\ \A g \in Shards : g # ShardOf[want[w].oid] => slots'[g] = slots[g]
         /\ slots' = [g \in Shards |-> slots'[g]]
  <1> DEFINE o == want[w].oid
             h == ShardOf[o]
             i == probe[w]
             s == [key |-> Key[o], idx |-> i + 1]
             t == slots[h]
             set == [t EXCEPT ![Hit(o)] = s]
  <1>1. /\ stage[w] = "insert" /\ w \in Claimers /\ Locking(w)
        /\ SetEntry(i, [At(i) EXCEPT !.hash = o, !.typ = Settle(@, want[w].typ)])
        /\ slots' = [slots EXCEPT ![h] =
             IF MustGrow(used[h] + 1, Len(set)) THEN Rehash(set, 2 * Len(set)) ELSE set]
    BY DEF Insert, Claimers, Locking
  <1>2. o \in Names /\ h \in Shards /\ want[w].typ \in Kinds \cup {AnyType} /\ Key[o] \in Nat
    BY ObjTableAssumption DEF Link
  <1>3. holder[h] = w /\ t # << >> /\ \A p \in Filled(t) : NameAt(h, p) # o
    BY <1>1 DEF TableHalf, NewToShard
  <1>4. i \in Nat /\ i < created /\ i \notin InTable /\ Held(i)
    BY <1>1 DEF TableHalf, Numbered
  <1>5. At(i) = Blank
    BY <1>4 DEF TableHalf, Untouched
  <1>6. [At(i) EXCEPT !.hash = o, !.typ = Settle(@, want[w].typ)] = NewEntry(want[w])
    <2>1. PICK e, f, y : /\ e = Blank /\ y = Settle(NoType, want[w].typ)
                         /\ f = [e EXCEPT !.hash = o, !.typ = y]
      OBVIOUS
    <2>2. DOMAIN f = {"hash", "typ", "seen", "edges"}
      BY <2>1 DEF Blank
    <2>3. f.hash = o /\ f.typ = y /\ f.seen = FALSE /\ f.edges = Nil
      BY <2>1 DEF Blank
    <2>4. f = NewEntry(want[w])
      BY <2>1, <2>2, <2>3 DEF NewEntry
    <2>5. e.typ = NoType
      BY <2>1 DEF Blank
    <2> QED
      BY <1>5, <2>1, <2>4, <2>5, Zenon
  <1>7. NewEntry(want[w]) \in Entry /\ NewEntry(want[w]).hash = o
    BY <1>2 DEF NewEntry, Entry, Settle
  <1>8. /\ t \in Seq(Slot) /\ Len(t) >= 2 /\ NoGap(t) /\ Distinct(t)
        /\ used[h] = Cardinality(Filled(t)) /\ 2 * Cardinality(Filled(t)) < Len(t)
        /\ slots \in [Shards -> Seq(Slot)]
    <2>1. used[h] = Cardinality(Filled(t)) /\ 2 * used[h] < Len(t)
      BY <1>2, <1>3 DEF TableHalf, InOrder, ProbesEnd, Filled
    <2>2. t \in Seq(Slot) /\ Len(t) >= 2 /\ NoGap(t) /\ slots \in [Shards -> Seq(Slot)]
      BY <1>2, <1>3 DEF TableHalf, InOrder, ShardsFit, NoGaps
    <2> QED
      BY <1>2, <2>1, <2>2, SlotsDistinct DEF TableHalf
  <1>9. s \in Slot /\ s.idx # 0 /\ \A r \in Filled(t) : t[r].idx # s.idx
    <2>1. s \in Slot /\ s.idx = i + 1 /\ s.key = Key[o] /\ s.idx # 0
      BY <1>2, <1>4 DEF Slot
    <2>2. ASSUME NEW r \in Filled(t), t[r].idx = s.idx PROVE FALSE
      <3>1. t[r].idx - 1 \in InTable
        BY <1>2, IndexOfSlot DEF TableHalf
      <3> QED
        BY <1>4, <2>1, <2>2, <3>1
    <2> QED
      BY <2>1, <2>2
  <1>10. PutAt(t, Hit(o), s, set)
    <2>1. PICK j \in 1..Len(t) : /\ Hit(o) = Way(Key[o], Len(t))[j] /\ t[Hit(o)].idx = 0
                                 /\ \A k \in 1..(j - 1) : t[Way(Key[o], Len(t))[k]].idx # 0
      BY <1>2, <1>3, HitEmpty DEF TableHalf
    <2>2. s.key = Key[o] /\ Len(t) # 0
      BY <1>8
    <2> HIDE DEF s, t, o
    <2>3. PutAt(t, Way(s.key, Len(t))[j], s, [t EXCEPT ![Way(s.key, Len(t))[j]] = s])
      BY <1>8, <1>9, <2>1, <2>2, FillNoGap
    <2> QED
      BY <2>1, <2>2, <2>3
  <1> HIDE DEF set, s, t, o, h, i
  <1>11. Joined(t, s, IF MustGrow(Cardinality(Filled(t)) + 1, Len(set)) THEN Rehash(set, 2 * Len(set)) ELSE set)
    BY <1>8, <1>9, <1>10, SlotJoins
  <1>12. Joined(t, s, slots'[h])
    BY <1>1, <1>2, <1>8, <1>11
  <1>13. /\ \A g \in Shards : g # h => slots'[g] = slots[g]
         /\ slots' = [g \in Shards |-> slots'[g]]
    BY <1>1, <1>2, <1>8
  <1> QED
    BY <1>1, <1>2, <1>3, <1>4, <1>6, <1>7, <1>12, <1>13 DEF s, t, o, h, i

\* The slots and entries of one shard change for one object, and the rest stay.
Inserted(w) ==
  LET h == ShardOf[want[w].oid]
      s == [key |-> Key[want[w].oid], idx |-> probe[w] + 1]
  IN  /\ \A g \in Shards : \A p \in Filled(slots'[g]) :
           \/ g = h /\ slots'[g][p] = s /\ NameAt(g, p)' = want[w].oid
           \/ \E r \in Filled(slots[g]) : slots'[g][p] = slots[g][r] /\ NameAt(g, p)' = NameAt(g, r)
      /\ \A g \in Shards : \A r \in Filled(slots[g]) : \E p \in Filled(slots'[g]) : slots'[g][p] = slots[g][r]
      /\ \E p \in Filled(slots'[h]) : slots'[h][p] = s

LEMMA InsertedFacts ==
  ASSUME Still, TableHalf, NEW w \in Checkers, Insert(w), want[w] \in Link
  PROVE  /\ Inserted(w) /\ SlabsListed' /\ \A j : Held(j) <=> Held(j)'
         /\ \A j : Held(j) => At(j)' = IF j = probe[w] THEN NewEntry(want[w]) ELSE At(j)
  <1> DEFINE o == want[w].oid
             h == ShardOf[o]
             i == probe[w]
             s == [key |-> Key[o], idx |-> i + 1]
  <1>1. /\ o \in Names /\ h \in Shards /\ i \in Nat /\ i \notin InTable /\ Held(i)
        /\ NewEntry(want[w]) \in Entry /\ NewEntry(want[w]).hash = o /\ SetEntry(i, NewEntry(want[w]))
        /\ Joined(slots[h], s, slots'[h]) /\ \A g \in Shards : g # h => slots'[g] = slots[g]
    BY InsertFacts
  <1>2. /\ SlabsListed' /\ \A j : Held(j) <=> Held(j)'
        /\ \A j : Held(j) => At(j)' = IF j = i THEN NewEntry(want[w]) ELSE At(j)
    <2>1. slabs' = slabs
      BY DEF Insert
    <2> QED
      BY <1>1, <2>1, SetEntryFacts DEF TableHalf, InOrder
  <1>3. s.idx - 1 = i
    BY <1>1
  <1> HIDE DEF s, o, h, i
  <1>4. /\ \A p \in Filled(slots'[h]) : slots'[h][p] = s \/ \E r \in Filled(slots[h]) : slots'[h][p] = slots[h][r]
        /\ \A r \in Filled(slots[h]) : \E p \in Filled(slots'[h]) : slots'[h][p] = slots[h][r]
        /\ \E p \in Filled(slots'[h]) : slots'[h][p] = s
    BY <1>1 DEF Joined
  <1>5. ASSUME NEW g \in Shards, NEW p, NEW r \in Filled(slots[g]), slots'[g][p] = slots[g][r]
        PROVE  NameAt(g, p)' = NameAt(g, r)
    <2>1. slots[g][r].idx - 1 \in InTable
      BY IndexOfSlot DEF TableHalf
    <2>2. slots[g][r].idx - 1 # i /\ Held(slots[g][r].idx - 1)
      BY <1>1, <2>1, SlotOfIndex DEF TableHalf
    <2> QED
      BY <1>2, <1>5, <2>2 DEF NameAt
  <1>6. ASSUME NEW g \in Shards, NEW p, slots'[g][p] = s
        PROVE  NameAt(g, p)' = o
    BY <1>1, <1>2, <1>3, <1>6 DEF NameAt
  <1>7. \A g \in Shards : \A p \in Filled(slots'[g]) :
           \/ g = h /\ slots'[g][p] = s /\ NameAt(g, p)' = o
           \/ \E r \in Filled(slots[g]) : slots'[g][p] = slots[g][r] /\ NameAt(g, p)' = NameAt(g, r)
    <2>1. SUFFICES ASSUME NEW g \in Shards, NEW p \in Filled(slots'[g]), ~(g = h /\ slots'[g][p] = s)
                   PROVE  \E r \in Filled(slots[g]) : slots'[g][p] = slots[g][r] /\ NameAt(g, p)' = NameAt(g, r)
      BY <1>6
    <2>2. \E r \in Filled(slots[g]) : slots'[g][p] = slots[g][r]
      BY <1>1, <1>4, <2>1
    <2> QED
      BY <1>5, <2>2
  <1>8. \A g \in Shards : \A r \in Filled(slots[g]) : \E p \in Filled(slots'[g]) : slots'[g][p] = slots[g][r]
    BY <1>1, <1>4
  <1> QED
    BY <1>2, <1>4, <1>6, <1>7, <1>8 DEF Inserted, s, o, h, i

LEMMA InsertTable ==
  ASSUME Still, TableHalf, NEW w \in Checkers, Insert(w), want[w] \in Link
  PROVE  /\ TableHalf' /\ InTable' = InTable \cup {probe[w]} /\ probe[w] \notin InTable
         /\ \A i \in InTable : At(i)' = At(i)
         /\ \A i : i = probe[w] => At(i)' = NewEntry(want[w])
  <1> DEFINE o == want[w].oid
             h == ShardOf[o]
             i == probe[w]
             s == [key |-> Key[o], idx |-> i + 1]
  <1>1. /\ o \in Names /\ h \in Shards /\ i \in Nat /\ i < created /\ i \notin InTable /\ Held(i)
        /\ holder[h] = w /\ NewEntry(want[w]).hash = o
        /\ Joined(slots[h], s, slots'[h]) /\ \A g \in Shards : g # h => slots'[g] = slots[g]
        /\ slots' = [g \in Shards |-> slots'[g]]
    BY InsertFacts
  <1>2. /\ SlabsListed' /\ \A j : Held(j) <=> Held(j)'
        /\ \A j : Held(j) => At(j)' = IF j = i THEN NewEntry(want[w]) ELSE At(j)
    BY InsertedFacts
  <1>3. /\ \A g \in Shards : \A p \in Filled(slots'[g]) :
             \/ g = h /\ slots'[g][p] = s /\ NameAt(g, p)' = o
             \/ \E r \in Filled(slots[g]) : slots'[g][p] = slots[g][r] /\ NameAt(g, p)' = NameAt(g, r)
        /\ \A g \in Shards : \A r \in Filled(slots[g]) : \E p \in Filled(slots'[g]) : slots'[g][p] = slots[g][r]
        /\ \E p \in Filled(slots'[h]) : slots'[h][p] = s
    BY InsertedFacts DEF Inserted
  <1>4. /\ stage[w] = "insert" /\ stage'[w] \in {"clear", "link"}
        /\ \A v \in Checkers : v # w => stage'[v] = stage[v]
        /\ used' = [used EXCEPT ![h] = @ + 1] /\ holder' = [holder EXCEPT ![h] = Nobody]
        /\ UNCHANGED <<created, want, probe, crashed>>
    BY DEF Insert, Answer, Still
  <1>5. s.idx = i + 1 /\ s.idx - 1 = i /\ s.key = Key[o] /\ s \in Slot /\ s.idx # 0
    BY <1>1, ObjTableAssumption DEF Slot
  <1> HIDE DEF s, o, h, i
  <1>6. \A p \in Filled(slots[h]) : NameAt(h, p) # o
    <2>1. Locking(w)
      BY <1>4 DEF Locking
    <2> QED
      BY <2>1 DEF TableHalf, NewToShard, o, h
  <1>7. ShardsFit'
    <2>1. \A g \in Shards : slots'[g] \in Seq(Slot) /\ (slots'[g] # << >> => Len(slots'[g]) >= 2)
      BY <1>1 DEF Joined, TableHalf, InOrder, ShardsFit
    <2>2. used' \in [Shards -> Nat] /\ holder' \in [Shards -> Checkers \cup {Nobody}]
      BY <1>1, <1>4 DEF TableHalf, InOrder, ShardsFit
    <2> QED
      BY <1>1, <2>1, <2>2 DEF ShardsFit
  <1>8. InTable' = InTable \cup {i}
    <2>1. \A x : x \in InTable' <=> x \in Nat /\ \E g \in Shards : \E p \in Filled(slots'[g]) : slots'[g][p].idx = x + 1
      BY <1>7, InTableNext
    <2>2. \A x : x \in InTable <=> x \in Nat /\ \E g \in Shards : \E p \in Filled(slots[g]) : slots[g][p].idx = x + 1
      BY InTableFacts DEF TableHalf, InOrder
    <2>3. ASSUME NEW x \in InTable' PROVE x \in InTable \cup {i}
      <3>1. PICK g \in Shards : \E p \in Filled(slots'[g]) : x \in Nat /\ slots'[g][p].idx = x + 1
        BY <2>1, <2>3
      <3>2. PICK p \in Filled(slots'[g]) : x \in Nat /\ slots'[g][p].idx = x + 1
        BY <3>1
      <3>3. CASE slots'[g][p] = s
        BY <1>1, <1>5, <3>2, <3>3
      <3>4. CASE \E r \in Filled(slots[g]) : slots'[g][p] = slots[g][r]
        BY <2>2, <3>2, <3>4
      <3> QED
        BY <1>3, <3>3, <3>4
    <2>4. \A x \in InTable : x \in InTable'
      BY <1>3, <2>1, <2>2
    <2>5. i \in InTable'
      BY <1>1, <1>3, <1>5, <2>1
    <2> QED
      BY <2>3, <2>4, <2>5
  <1>9. SlotsFit'
    <2>0. SUFFICES ASSUME NEW g \in Shards, NEW p \in Filled(slots'[g])
                   PROVE  SlotFits(g, p)'
      BY DEF SlotsFit
    <2>1. SUFFICES ASSUME NEW x, x = slots'[g][p].idx - 1
                   PROVE  /\ x < created' /\ Held(x)' /\ At(x)'.hash \in Names
                          /\ ShardOf[At(x)'.hash] = g /\ slots'[g][p].key = Key[At(x)'.hash]
      BY DEF SlotFits
    <2>2. SUFFICES /\ x < created /\ Held(x) /\ At(x)'.hash \in Names
                   /\ ShardOf[At(x)'.hash] = g /\ slots'[g][p].key = Key[At(x)'.hash]
      BY <1>2, <1>4
    <2>3. CASE g = h /\ slots'[g][p] = s
      <3>1. x = i /\ At(x)'.hash = o
        BY <1>1, <1>2, <1>5, <2>1, <2>3
      <3> QED
        BY <1>1, <1>5, <2>3, <3>1 DEF h
    <2>4. ASSUME NEW r \in Filled(slots[g]), slots'[g][p] = slots[g][r]
          PROVE  /\ x < created /\ Held(x) /\ At(x)'.hash \in Names
                 /\ ShardOf[At(x)'.hash] = g /\ slots'[g][p].key = Key[At(x)'.hash]
      <3>1. x \in InTable /\ SlotFits(g, r)
        BY <2>1, <2>4, IndexOfSlot DEF TableHalf, InOrder, SlotsFit
      <3>2. x # i /\ Held(x)
        BY <1>1, <2>1, <2>4, <3>1 DEF SlotFits
      <3>3. At(x)' = At(x)
        BY <1>2, <3>2
      <3>4. x = slots[g][r].idx - 1
        BY <2>1, <2>4
      <3> QED
        BY <2>4, <3>1, <3>3, <3>4 DEF SlotFits
    <2> QED
      BY <1>3, <2>3, <2>4
  <1>10. \A g \in Shards : Distinct(slots'[g])
    <2>1. ASSUME NEW g \in Shards PROVE Distinct(slots'[g])
      <3>1. CASE g = h
        BY <1>1, <3>1 DEF Joined
      <3>2. CASE g # h
        BY <1>1, <3>2, SlotsDistinct DEF TableHalf
      <3> QED
        BY <3>1, <3>2
    <2> QED
      BY <2>1
  <1>11. OneSlotEach'
    <2>1. SUFFICES ASSUME NEW g \in Shards, NEW p \in Filled(slots'[g]), NEW q \in Filled(slots'[g]),
                          NameAt(g, p)' = NameAt(g, q)'
                   PROVE  slots'[g][p] = slots'[g][q]
      BY <1>10 DEF OneSlotEach, Distinct
    <2>2. CASE g = h /\ slots'[g][p] = s /\ slots'[g][q] = s
      BY <2>2
    <2>3. ASSUME g = h, slots'[g][p] = s, NameAt(g, p)' = o, NEW r \in Filled(slots[g]),
                 slots'[g][q] = slots[g][r], NameAt(g, q)' = NameAt(g, r)
          PROVE  FALSE
      BY <1>3, <1>6, <2>1, <2>3
    <2>4. ASSUME g = h, slots'[g][q] = s, NameAt(g, q)' = o, NEW r \in Filled(slots[g]),
                 slots'[g][p] = slots[g][r], NameAt(g, p)' = NameAt(g, r)
          PROVE  FALSE
      BY <1>3, <1>6, <2>1, <2>4
    <2>5. ASSUME NEW r \in Filled(slots[g]), slots'[g][p] = slots[g][r], NameAt(g, p)' = NameAt(g, r),
                 NEW t \in Filled(slots[g]), slots'[g][q] = slots[g][t], NameAt(g, q)' = NameAt(g, t)
          PROVE  slots'[g][p] = slots'[g][q]
      <3>1. r = t
        BY <2>1, <2>5 DEF TableHalf, InOrder, OneSlotEach
      <3> QED
        BY <2>5, <3>1
    <2> QED
      BY <1>3, <2>2, <2>3, <2>4, <2>5
  <1>12. NoGaps'
    BY <1>1 DEF Joined, TableHalf, InOrder, NoGaps
  <1>13. ProbesEnd'
    <2>1. SUFFICES ASSUME NEW g \in Shards
                   PROVE  /\ used'[g] = Cardinality(Filled(slots'[g]))
                          /\ (slots'[g] # << >> => 2 * used'[g] < Len(slots'[g]))
      BY DEF ProbesEnd, Filled
    <2>2. used[g] = Cardinality(Filled(slots[g])) /\ (slots[g] # << >> => 2 * used[g] < Len(slots[g]))
      BY DEF TableHalf, InOrder, ProbesEnd, Filled
    <2>3. used \in [Shards -> Nat]
      BY DEF TableHalf, InOrder, ShardsFit
    <2>4. CASE g = h
      <3>1. used'[g] = used[g] + 1
        BY <1>4, <2>3, <2>4
      <3>2. /\ Cardinality(Filled(slots'[g])) = Cardinality(Filled(slots[g])) + 1
            /\ 2 * Cardinality(Filled(slots'[g])) < Len(slots'[g])
        BY <1>1, <2>4 DEF Joined
      <3> QED
        BY <2>2, <3>1, <3>2
    <2>5. CASE g # h
      BY <1>1, <1>4, <2>2, <2>3, <2>5
    <2> QED
      BY <2>4, <2>5
  <1>14. InOrder'
    BY <1>2, <1>7, <1>9, <1>11, <1>12, <1>13 DEF InOrder
  <1>15. NewToShard'
    <2>1. SUFFICES ASSUME NEW v \in Checkers, Locking(v)', NEW x, x = want'[v].oid, NEW g, g = ShardOf[x]
                   PROVE  /\ x \in Names /\ holder'[g] = v /\ slots'[g] # << >>
                          /\ \A p \in Filled(slots'[g]) : NameAt(g, p)' # x
      BY NewToShardNext
    <2>2. v # w
      BY <1>4, <2>1 DEF Locking
    <2>3. Locking(v) /\ want[v].oid = x
      BY <1>4, <2>1, <2>2 DEF Locking
    <2>4. x \in Names /\ holder[g] = v /\ slots[g] # << >> /\ \A p \in Filled(slots[g]) : NameAt(g, p) # x
      BY <2>1, <2>3 DEF TableHalf, NewToShard
    <2>5. g \in Shards /\ g # h
      BY <1>1, <2>1, <2>2, <2>4, ObjTableAssumption
    <2>6. holder'[g] = v
      BY <1>4, <2>4, <2>5 DEF TableHalf, InOrder, ShardsFit
    <2> QED
      BY <1>1, <1>3, <2>4, <2>5, <2>6
  <1>16. Numbered'
    <2>1. Claimers' = Claimers \ {w} /\ w \in Claimers /\ \A v \in Claimers : v # w => stage'[v] = stage[v]
      BY <1>4 DEF Claimers
    <2>2. \A v \in Claimers : v # w => probe[v] # i
      BY <2>1 DEF TableHalf, Numbered, i
    <2>3. \A v \in Claimers' : /\ probe[v] \in Nat /\ probe[v] < created /\ probe[v] \notin InTable'
                               /\ stage'[v] = "insert" => Held(probe[v])
      BY <1>8, <2>1, <2>2 DEF TableHalf, Numbered
    <2>6. \A v \in Claimers' : Held(probe[v]) => Held(probe[v])'
      BY DEF Insert, Held, SlabOf
    <2>4. \A u, v \in Claimers' : probe[u] = probe[v] => u = v
      BY <2>1 DEF TableHalf, Numbered
    <2>5. \A x \in Nat : x < created => x \in InTable' \/ \E v \in Claimers' : probe[v] = x
      BY <1>8, <2>1 DEF TableHalf, Numbered, i
    <2> QED
      BY <1>4, <2>3, <2>4, <2>5, <2>6 DEF TableHalf, Numbered
  <1>17. Untouched'
    BY <1>2, <1>8 DEF TableHalf, Untouched
  <1>18. \A x \in InTable : At(x)' = At(x)
    BY <1>1, <1>2, SlotOfIndex DEF TableHalf
  <1> QED
    BY <1>1, <1>2, <1>8, <1>14, <1>15, <1>16, <1>17, <1>18 DEF TableHalf, i

-----------------------------------------------------------------------------
(***************************************************************************)
(* The edges.                                                              *)
(***************************************************************************)

\* A sequence has a length, and its elements are of its set.
LEMMA LenFacts ==
  ASSUME NEW S, NEW q \in Seq(S)
  PROVE  Len(q) \in Nat /\ \A k \in 1..Len(q) : q[k] \in S
  OBVIOUS

\* What the table holds stays in it, under its name and its type.
Grows ==
  \A i \in InTable : /\ i \in InTable' /\ At(i)'.hash = At(i).hash
                     /\ At(i).typ # NoType => At(i)'.typ = At(i).typ

\* An edge that leads where its link asks goes on doing so.
LEMMA LeadsStay ==
  ASSUME Grows, NEW l \in Link, NEW v, Leads(l, v)
  PROVE  Leads(l, v)'
  <1>1. l.typ # NoType
    BY ObjTableAssumption DEF Link
  <1>2. CASE v = Unresolved
    <2>1. PICK i \in InTable : l.typ # AnyType /\ At(i).hash = l.oid /\ At(i).typ \notin {NoType, l.typ}
      BY <1>2 DEF Leads
    <2>2. i \in InTable' /\ At(i)'.hash = l.oid /\ At(i)'.typ \notin {NoType, l.typ}
      BY <2>1 DEF Grows
    <2> QED
      BY <1>2, <2>1, <2>2 DEF Leads
  <1>3. CASE v # Unresolved
    BY <1>1, <1>3 DEF Leads, Grows
  <1> QED
    BY <1>2, <1>3

\* The entries in the table are entries.
LEMMA EntryTypes ==
  ASSUME InOrder, NEW i \in InTable
  PROVE  /\ i \in Nat /\ Held(i) /\ At(i) \in Entry /\ At(i).hash \in Names
         /\ At(i).edges # Nil => At(i).edges \in Edged
  <1>1. i \in Nat /\ Held(i) /\ At(i).hash \in Names
    BY SlotOfIndex
  <1>2. At(i) \in Entry
    BY <1>1, HeldFacts DEF InOrder
  <1> QED
    BY <1>1, <1>2 DEF Entry

\* A worker that links has room for its edges.
LEMMA LinkingTypes ==
  ASSUME Still, Jobs, NEW v \in Checkers, Linking(v)
  PROVE  /\ job[v] \in JobType /\ job[v].oid \in Names /\ job[v].n \in Nat
         /\ job[v].span \in [slab : Nat, pos : Nat] /\ job[v].span.slab \in Nat /\ job[v].span.pos \in Nat
         /\ store.links[job[v].oid] \in Seq(Link) /\ Len(store.links[job[v].oid]) \in Nat
         /\ job[v].n <= Len(store.links[job[v].oid])
         /\ Room(v) \in Nat /\ Len(store.links[job[v].oid]) <= Room(v)
         /\ job[v].idx \in InTable /\ At(job[v].idx).hash = job[v].oid
  <1>1. JobFits(v) /\ job[v] \in JobType /\ job[v].span # Nil
    BY DEF Jobs, JobFits, Linking, Seeking, Locking
  <1>2. job[v].oid \in Names /\ job[v].n \in Nat /\ job[v].span \in [slab : Nat, pos : Nat]
    BY <1>1 DEF JobType
  <1>3. store.links[job[v].oid] \in Seq(Link) /\ store.gitlinks[job[v].oid] \in Nat
    BY <1>2 DEF Still, Store
  <1>4. job[v].n <= Len(store.links[job[v].oid])
    BY <1>1, <1>2, <1>3 DEF JobFits, Linking, Seeking
  <1>5. job[v].idx \in InTable /\ At(job[v].idx).hash = job[v].oid
    BY <1>1 DEF JobFits, Linking, Placed
  <1>6. Len(store.links[job[v].oid]) \in Nat
    BY <1>3, LenFacts
  <1>7. Room(v) \in Nat /\ Len(store.links[job[v].oid]) <= Room(v)
    <2>1. store.gitlinks[job[v].oid] \in Nat
      BY <1>3
    <2>2. \A a, b \in Nat : a + b \in Nat /\ a <= a + b
      OBVIOUS
    <2> QED
      BY <1>6, <2>1, <2>2, Zenon DEF Room
  <1> QED
    BY <1>1, <1>2, <1>3, <1>4, <1>5, <1>6, <1>7

\* What a worker has in hand stays right while others work.
LEMMA JobStays ==
  ASSUME NEW v \in Checkers, JobFits(v), Grows, UNCHANGED store,
         stage'[v] = stage[v], job'[v] = job[v], want'[v] = want[v]
  PROVE  JobFits(v)'
  <1>1. (Placed(v)' <=> Placed(v)) /\ (Seeking(v)' <=> Seeking(v))
    BY DEF Placed, Seeking, Locking
  <1>2. Placed(v)' => job'[v].idx \in InTable' /\ \A i : i = job'[v].idx => At(i)'.hash = job'[v].oid
    BY <1>1 DEF JobFits, Grows
  <1>3. Placed(v)' => job'[v].idx \in InTable' /\ At(job[v].idx)'.hash = job'[v].oid
    BY <1>2
  <1> QED
    BY <1>1, <1>3 DEF JobFits, Room

-----------------------------------------------------------------------------
\* The chunks there are, in the pool and in hand.
Open == pool \cup {chunk[v] : v \in {u \in Checkers : chunk[u] # Nil}}

\* The slabs of edges keep their lengths.
ArenaKept ==
  \A s \in 1..Len(arena) : s \in 1..Len(arena') /\ Len(arena'[s]) = Len(arena[s])

\* A chunk is one there was, with no less cut from it, or of a new slab.
ChunksGrow ==
  \A c \in Open' : c.slab \in 1..Len(arena) => \E d \in Open : d.slab = c.slab /\ d.used <= c.used

\* The edges of a span are not written to.
Intact(s, n) == \A k \in 1..n : arena'[s.slab][s.pos + k] = arena[s.slab][s.pos + k]

PastAll(s, n) == \A c \in Open : CutPast(c, s, n)

LEMMA OpenTypes ==
  ASSUME Chunks
  PROVE  \A c \in Open : c.slab \in Nat /\ c.used \in Nat
  BY DEF Chunks, ChunkFits, Chunk, Open

LEMMA PastAllFacts ==
  ASSUME NEW s, NEW n
  PROVE  PastAll(s, n) <=> /\ \A c \in pool : CutPast(c, s, n)
                           /\ \A v \in Checkers : chunk[v] # Nil => CutPast(chunk[v], s, n)
  BY DEF PastAll, Open

\* Room that was made stays room: inside its slab, and behind what the chunks cut next.
LEMMA SpanStays ==
  ASSUME Chunks, Chunks', ArenaKept, ChunksGrow, NEW s, NEW n \in Nat, s.pos \in Nat, s.slab \in Nat,
         Inside(s, n), PastAll(s, n)
  PROVE  Inside(s, n)' /\ PastAll(s, n)'
  <1>1. Inside(s, n)'
    BY DEF Inside, ArenaKept
  <1>2. \A c \in Open' : c.slab \in Nat /\ c.used \in Nat
    BY DEF Chunks, ChunkFits, Chunk, Open
  <1>3. ASSUME NEW c \in Open', n > 0, c.slab = s.slab
        PROVE  s.pos + n <= c.used
    <2>1. PICK d \in Open : d.slab = c.slab /\ d.used <= c.used
      BY <1>3 DEF Inside, ChunksGrow
    <2>2. s.pos + n <= d.used
      BY <1>3, <2>1 DEF PastAll, CutPast
    <2> QED
      BY <1>2, <2>1, <2>2, OpenTypes
  <1>4. PastAll(s, n)'
    BY <1>3 DEF PastAll, CutPast
  <1> QED
    BY <1>1, <1>4

\* A worker works on its own edges and makes nothing but room of its own.
Else(w) ==
  \A v \in Checkers \ {w} : stage'[v] = stage[v] /\ job'[v] = job[v] /\ want'[v] = want[v]

\* What one worker's step may do to the edges of the others.
Careful(w) ==
  /\ Grows /\ Else(w) /\ UNCHANGED store /\ Chunks' /\ ArenaKept /\ ChunksGrow /\ JobFits(w)'
  /\ \A v \in Checkers \ {w} : Linking(v) => Intact(job[v].span, job[v].n)
  /\ \A i \in InTable : At(i).edges # Nil => Intact(At(i).edges, At(i).edges.n)

\* It records no edges.
EdgesSame ==
  \A i \in InTable' : At(i)'.edges # Nil => i \in InTable /\ At(i)'.edges = At(i).edges

\* The room of a worker and what it has written, but for the other workers'.
Alone(v) ==
  /\ Inside(job[v].span, Room(v)) /\ PastAll(job[v].span, Room(v))
  /\ \A i \in InTable : At(i).edges # Nil => Apart(job[v].span, Room(v), At(i).edges, At(i).edges.n)
RightlyWritten(v) ==
  \A k \in 1..job[v].n : Leads(store.links[job[v].oid][k], arena[job[v].span.slab][job[v].span.pos + k])

LEMMA RoomParts ==
  ASSUME NEW v \in Checkers
  PROVE  RoomFits(v) <=> /\ Alone(v)
                         /\ \A u \in Checkers \ {v} : Linking(u) => Apart(job[v].span, Room(v), job[u].span, Room(u))
  BY PastAllFacts DEF RoomFits, Alone

\* The room of a worker stays its own, when no edges are recorded but its own.
LEMMA AloneStays ==
  ASSUME Still, InOrder, EdgeHalf, Chunks', ArenaKept, ChunksGrow, NEW v \in Checkers, Linking(v),
         job'[v].span = job[v].span, Room(v)' = Room(v),
         \A i \in InTable' : At(i)'.edges # Nil =>
           \/ i \in InTable /\ At(i)'.edges = At(i).edges
           \/ Apart(job[v].span, Room(v), At(i)'.edges, At(i)'.edges.n)
  PROVE  Alone(v)'
  <1> DEFINE s == job[v].span
             n == Room(v)
  <1>1. n \in Nat /\ s.pos \in Nat /\ s.slab \in Nat
    BY LinkingTypes DEF EdgeHalf
  <1>2. Inside(s, n) /\ PastAll(s, n) /\ \A i \in InTable : At(i).edges # Nil => Apart(s, n, At(i).edges, At(i).edges.n)
    BY RoomParts DEF EdgeHalf, Rooms, Alone
  <1>3. s' = s /\ n' = n
    OBVIOUS
  <1> HIDE DEF s, n
  <1>4. \A t, m : t = s /\ m = n => Inside(t, m)' /\ PastAll(t, m)'
    BY <1>1, <1>2, SpanStays DEF EdgeHalf
  <1>5. Inside(s, n)' /\ PastAll(s, n)'
    BY <1>3, <1>4 DEF Inside, PastAll, CutPast
  <1>6. \A i \in InTable' : At(i)'.edges # Nil => Apart(s, n, At(i)'.edges, At(i)'.edges.n)
    BY <1>2 DEF s, n
  <1>7. (\A i \in InTable : At(i).edges # Nil => Apart(s, n, At(i).edges, At(i).edges.n))'
    BY <1>3, <1>6 DEF Apart
  <1> QED
    BY <1>5, <1>7 DEF Alone, s, n

\* What a worker has written stays, and leads where it led.
LEMMA WrittenStays ==
  ASSUME Still, EdgeHalf, Grows, UNCHANGED store, NEW v \in Checkers, Linking(v), job'[v] = job[v],
         Intact(job[v].span, job[v].n)
  PROVE  RightlyWritten(v)'
  <1>1. /\ store.links[job[v].oid] \in Seq(Link) /\ job[v].n \in Nat
        /\ job[v].n <= Len(store.links[job[v].oid])
    BY LinkingTypes DEF EdgeHalf
  <1>2. SUFFICES ASSUME NEW k \in 1..job[v].n, NEW l, l = store.links[job[v].oid][k],
                        NEW x, x = arena'[job[v].span.slab][job[v].span.pos + k]
                 PROVE  Leads(l, x)'
    BY DEF RightlyWritten
  <1>3. x = arena[job[v].span.slab][job[v].span.pos + k] /\ l \in Link
    <2>1. k \in 1..Len(store.links[job[v].oid])
      BY <1>1, LenFacts
    <2> QED
      BY <1>1, <1>2, <2>1, LenFacts DEF Intact
  <1>4. Leads(l, x)
    BY <1>2, <1>3 DEF EdgeHalf, WrittenLead
  <1> QED
    BY <1>3, <1>4, LeadsStay

\* So do the edges recorded for an object.
LEMMA RecordedStay ==
  ASSUME Still, InOrder, EdgeHalf, Chunks', Grows, ArenaKept, ChunksGrow, UNCHANGED store,
         NEW i \in InTable, At(i).edges # Nil, At(i)'.edges = At(i).edges,
         Intact(At(i).edges, At(i).edges.n)
  PROVE  EdgesFit(i)'
  <1>1. EdgesFit(i) /\ At(i).edges \in Edged /\ At(i).hash \in Names /\ At(i)'.hash = At(i).hash
    BY EntryTypes DEF EdgeHalf, RecordedLead, Grows
  <1>2. PICK s, o : s = At(i).edges /\ o = At(i).hash
    OBVIOUS
  <1>3. s \in Edged /\ s.slab \in Nat /\ s.pos \in Nat /\ s.n \in Nat /\ store.links[o] \in Seq(Link)
    BY <1>1, <1>2 DEF Edged, Still, Store
  <1>4. /\ s.n = Len(store.links[o]) /\ Inside(s, s.n) /\ PastAll(s, s.n)
        /\ \A k \in 1..s.n : Leads(store.links[o][k], arena[s.slab][s.pos + k])
    BY <1>1, <1>2, PastAllFacts DEF EdgesFit
  <1>5. Inside(s, s.n)' /\ PastAll(s, s.n)'
    BY <1>3, <1>4, SpanStays DEF EdgeHalf
  <1>6. ASSUME NEW k \in 1..s.n, NEW l, l = store.links[o][k], NEW x, x = arena'[s.slab][s.pos + k]
        PROVE  Leads(l, x)'
    <2>1. l \in Link /\ x = arena[s.slab][s.pos + k]
      BY <1>2, <1>3, <1>4, <1>6 DEF Intact
    <2> QED
      BY <1>4, <1>6, <2>1, LeadsStay
  <1>7. /\ \A c \in pool' : CutPast(c, s, s.n)
        /\ \A v \in Checkers : chunk'[v] # Nil => CutPast(chunk'[v], s, s.n)
    BY <1>5 DEF PastAll, Open, CutPast
  <1>8. At(i)'.edges = s /\ At(i)'.hash = o
    BY <1>1, <1>2
  <1> QED
    BY <1>3, <1>4, <1>5, <1>6, <1>7, <1>8 DEF EdgesFit, CutPast

\* A careful step of one worker keeps the edges of everyone.
LEMMA EdgeStep ==
  ASSUME Still, InOrder, EdgeHalf, NEW w \in Checkers, Careful(w),
         Linking(w)' => /\ Alone(w)' /\ RightlyWritten(w)'
                        /\ \A v \in Checkers \ {w} : Linking(v) => Apart(job'[w].span, Room(w)', job[v].span, Room(v)),
         \A i \in InTable' : At(i)'.edges # Nil =>
           \/ i \in InTable /\ At(i)'.edges = At(i).edges
           \/ /\ EdgesFit(i)'
              /\ \A v \in Checkers \ {w} : Linking(v) => Apart(job[v].span, Room(v), At(i)'.edges, At(i)'.edges.n)
  PROVE  EdgeHalf'
  <1>1. \A v \in Checkers \ {w} : /\ stage'[v] = stage[v] /\ job'[v] = job[v] /\ want'[v] = want[v]
                                  /\ Room(v)' = Room(v) /\ (Linking(v)' <=> Linking(v))
    BY DEF Careful, Else, Room, Linking, Seeking, Locking
  <1>2. Jobs'
    <2>1. SUFFICES ASSUME NEW v \in Checkers PROVE JobFits(v)'
      BY DEF Jobs
    <2>2. CASE v = w
      BY <2>2 DEF Careful
    <2>3. CASE v # w
      BY <1>1, <2>3, JobStays DEF Careful, EdgeHalf, Jobs
    <2> QED
      BY <2>2, <2>3
  <1>3. Chunks'
    BY DEF Careful
  <1>4. ASSUME NEW v \in Checkers \ {w}, Linking(v)
        PROVE  Alone(v)' /\ RightlyWritten(v)'
    <2>1. Alone(v)'
      BY <1>1, <1>3, <1>4, AloneStays DEF Careful
    <2>2. RightlyWritten(v)'
      BY <1>1, <1>4, WrittenStays DEF Careful
    <2> QED
      BY <2>1, <2>2
  <1>5. Rooms'
    <2>1. SUFFICES ASSUME NEW v \in Checkers, Linking(v)' PROVE RoomFits(v)'
      BY DEF Rooms
    <2>2. Alone(v)'
      BY <1>1, <1>4, <2>1
    <2>3. ASSUME NEW u \in Checkers \ {v}, Linking(u)'
          PROVE  Apart(job'[v].span, Room(v)', job'[u].span, Room(u)')
      <3>1. CASE v = w
        BY <1>1, <2>1, <2>3, <3>1
      <3>2. CASE u = w
        BY <1>1, <2>1, <2>3, <3>2 DEF Apart
      <3>3. CASE v # w /\ u # w
        <4>1. Apart(job[v].span, Room(v), job[u].span, Room(u))
          BY <1>1, <2>1, <2>3, <3>3 DEF EdgeHalf, Rooms, RoomFits
        <4> QED
          BY <1>1, <3>3, <4>1
      <3> QED
        BY <3>1, <3>2, <3>3
    <2>4. \A u \in Checkers \ {v} : Linking(u)' => Apart(job[v].span, Room(v), job[u].span, Room(u))'
      BY <2>3 DEF Apart
    <2>5. (/\ \A c \in pool : CutPast(c, job[v].span, Room(v))
           /\ \A u \in Checkers : chunk[u] # Nil => CutPast(chunk[u], job[v].span, Room(v)))'
      BY <2>2 DEF Alone, PastAll, Open, CutPast
    <2> QED
      BY <2>2, <2>4, <2>5 DEF RoomFits, Alone
  <1>6. WrittenLead'
    BY <1>1, <1>4 DEF WrittenLead, RightlyWritten
  <1>7. RecordedLead'
    <2>1. SUFFICES ASSUME NEW i \in InTable', At(i)'.edges # Nil PROVE EdgesFit(i)'
      BY DEF RecordedLead
    <2>2. CASE i \in InTable /\ At(i)'.edges = At(i).edges
      BY <1>3, <2>1, <2>2, RecordedStay DEF Careful
    <2> QED
      BY <2>1, <2>2
  <1> QED
    BY <1>2, <1>3, <1>5, <1>6, <1>7 DEF EdgeHalf

\* A step that leaves the arena, and neither makes room nor records edges.
LEMMA QuietEdges ==
  ASSUME Still, InOrder, EdgeHalf, NEW w \in Checkers, Grows, Else(w), EdgesSame,
         UNCHANGED <<store, arena, pool, chunk>>, JobFits(w)',
         chunk[w] # Nil => stage'[w] = "cut",
         Linking(w)' => Linking(w) /\ job'[w] = job[w]
  PROVE  EdgeHalf'
  <1>1. Chunks'
    BY DEF Else, EdgeHalf, Chunks, ChunkFits, Still
  <1>2. ArenaKept /\ ChunksGrow /\ \A s, n : Intact(s, n)
    <2>1. \A c \in Open : c.used <= c.used
      BY OpenTypes DEF EdgeHalf
    <2> QED
      BY <2>1 DEF ArenaKept, ChunksGrow, Intact, Open
  <1>3. Careful(w)
    BY <1>1, <1>2 DEF Careful
  <1>4. ASSUME Linking(w)'
        PROVE  /\ Alone(w)' /\ RightlyWritten(w)'
               /\ \A v \in Checkers \ {w} : Linking(v) => Apart(job'[w].span, Room(w)', job[v].span, Room(v))
    <2>1. Linking(w) /\ job'[w] = job[w]
      BY <1>4
    <2>2. Room(w)' = Room(w)
      BY <2>1 DEF Room
    <2>3. Alone(w)'
      BY <1>1, <1>2, <2>1, <2>2, AloneStays DEF EdgesSame
    <2>4. RightlyWritten(w)'
      BY <1>2, <2>1, WrittenStays
    <2> QED
      BY <2>1, <2>2, <2>3, <2>4 DEF EdgeHalf, Rooms, RoomFits
  <1> QED
    BY <1>3, <1>4, EdgeStep DEF EdgesSame

-----------------------------------------------------------------------------
(***************************************************************************)
(* Each step keeps the edges.                                              *)
(***************************************************************************)

\* The edges recorded under an index lead on to what they led to.
EdgesKept ==
  \A i \in InTable : At(i).edges # Nil =>
    /\ At(i)'.edges # Nil /\ At(i)'.edges.n = At(i).edges.n
    /\ \A k \in 1..At(i).edges.n :
         arena'[At(i)'.edges.slab][At(i)'.edges.pos + k] = arena[At(i).edges.slab][At(i).edges.pos + k]

\* What each step does to the table.
Lasting == TableHalf' /\ EdgeHalf' /\ Grows /\ EdgesKept

LEMMA QuietLasting ==
  ASSUME Still, TableHalf, TableHalf', EdgeHalf, NEW w \in Checkers, Else(w), Grows,
         \A i \in InTable : At(i)'.edges = At(i).edges,
         \A i \in InTable' : i \notin InTable => At(i)'.edges = Nil,
         UNCHANGED <<store, arena, pool, chunk>>, JobFits(w)',
         stage[w] # "cut" \/ stage'[w] = "cut",
         Linking(w)' => Linking(w) /\ job'[w] = job[w]
  PROVE  Lasting
  <1>1. EdgesSame
    BY DEF EdgesSame
  <1>2. chunk[w] # Nil => stage'[w] = "cut"
    BY DEF EdgeHalf, Chunks
  <1>3. EdgeHalf'
    BY <1>1, <1>2, QuietEdges DEF TableHalf
  <1>4. EdgesKept
    BY DEF EdgesKept
  <1> QED
    BY <1>3, <1>4 DEF Lasting

\* The same, of a step that leaves the entries.
LEMMA EntriesSame ==
  ASSUME InTable' = InTable, \A i \in InTable : At(i)' = At(i)
  PROVE  /\ Grows /\ \A i \in InTable : At(i)'.edges = At(i).edges
         /\ \A i \in InTable' : i \notin InTable => At(i)'.edges = Nil
  BY DEF Grows

\* A worker in Lookup goes on with what it has in hand.
LEMMA SeekingOn ==
  ASSUME NEW w \in Checkers, JobFits(w), Grows, UNCHANGED store, Seeking(w), Seeking(w)',
         job'[w] = job[w], want'[w] = want[w], stage[w] # "link", stage'[w] # "link"
  PROVE  JobFits(w)' /\ (Linking(w)' => Linking(w))
  <1>1. (Placed(w)' => Placed(w)) /\ (Linking(w)' => Linking(w)) /\ stage[w] # "idle"
    BY DEF Placed, Linking, Seeking, Locking
  <1>2. Placed(w)' => job'[w].idx \in InTable' /\ At(job[w].idx)'.hash = job'[w].oid
    BY <1>1 DEF JobFits, Grows
  <1> QED
    BY <1>1, <1>2 DEF JobFits, Seeking, Locking

LEMMA TakeLasting ==
  ASSUME Still, TableHalf, EdgeHalf, NEW w \in Checkers, Take(w)
  PROVE  Lasting
  <1>1. /\ stage[w] = "idle" /\ stage'[w] = "lookup"
        /\ job'[w] = [oid |-> Head(Head(queue)), idx |-> 0, span |-> Nil, n |-> 0]
        /\ want'[w] = [oid |-> Head(Head(queue)), typ |-> store.typ[Head(Head(queue))]]
        /\ Else(w) /\ UNCHANGED <<store, tableState, arena, pool, probe, chunk, crashed>>
    BY DEF Take, Still, Else
  <1>2. Head(Head(queue)) \in Names
    <2>1. Head(queue) \in Seq(Names) /\ Head(queue) # << >>
      BY DEF Take, Still
    <2> QED
      BY <2>1
  <1>3. NobodyClaims
    BY <1>1 DEF NobodyClaims, Locking, Else
  <1>4. TableHalf' /\ InTable' = InTable /\ \A i : At(i)' = At(i)
    BY <1>1, <1>3, QuietTable DEF tableState
  <1>5. JobFits(w)' /\ ~Linking(w)'
    <2>1. store.typ[Head(Head(queue))] \in Kinds
      BY <1>2 DEF Still, Store
    <2>2. job'[w] \in JobType /\ want'[w] \in Link
      BY <1>1, <1>2, <2>1 DEF JobType, Link
    <2> QED
      BY <1>1, <2>2 DEF JobFits, Placed, Linking, Seeking
  <1> QED
    BY <1>1, <1>4, <1>5, EntriesSame, QuietLasting

LEMMA LookupNewLasting ==
  ASSUME Still, TableHalf, EdgeHalf, NEW w \in Checkers, LookupNew(w)
  PROVE  Lasting
  <1>1. /\ stage[w] = "lookup" /\ stage'[w] = "claim" /\ Else(w) /\ job'[w] = job[w] /\ want'[w] = want[w]
        /\ UNCHANGED <<store, arena, pool, chunk>>
    BY DEF LookupNew, Still, Else
  <1>2. want[w].oid \in Names
    BY <1>1 DEF EdgeHalf, Jobs, JobFits, Seeking, Link
  <1>3. TableHalf' /\ InTable' = InTable /\ \A i : At(i)' = At(i)
    BY <1>2, LookupNewTable
  <1>4. JobFits(w)' /\ (Linking(w)' => Linking(w))
    BY <1>1, <1>3, EntriesSame, SeekingOn DEF EdgeHalf, Jobs, Seeking, Locking
  <1> QED
    BY <1>1, <1>3, <1>4, EntriesSame, QuietLasting

LEMMA ClaimLasting ==
  ASSUME Still, TableHalf, EdgeHalf, ~crashed, NEW w \in Checkers, Claim(w)
  PROVE  Lasting
  <1>1. /\ stage[w] = "claim" /\ stage'[w] = "load" /\ Else(w) /\ job'[w] = job[w] /\ want'[w] = want[w]
        /\ UNCHANGED <<store, arena, pool, chunk>>
    BY DEF Claim, Still, Else
  <1>2. TableHalf' /\ InTable' = InTable /\ \A i : At(i)' = At(i)
    BY ClaimTable
  <1>3. JobFits(w)' /\ (Linking(w)' => Linking(w))
    BY <1>1, <1>2, EntriesSame, SeekingOn DEF EdgeHalf, Jobs, Seeking, Locking
  <1> QED
    BY <1>1, <1>2, <1>3, EntriesSame, QuietLasting

LEMMA LoadSlabsLasting ==
  ASSUME Still, TableHalf, EdgeHalf, NEW w \in Checkers, LoadSlabs(w)
  PROVE  Lasting
  <1>1. /\ stage[w] = "load" /\ stage'[w] \in {"insert", "grow"} /\ Else(w)
        /\ job'[w] = job[w] /\ want'[w] = want[w] /\ UNCHANGED <<store, arena, pool, chunk>>
    BY DEF LoadSlabs, Still, Else
  <1>2. TableHalf' /\ InTable' = InTable /\ \A i : At(i)' = At(i)
    BY LoadSlabsTable
  <1>3. JobFits(w)' /\ (Linking(w)' => Linking(w))
    BY <1>1, <1>2, EntriesSame, SeekingOn DEF EdgeHalf, Jobs, Seeking, Locking
  <1> QED
    BY <1>1, <1>2, <1>3, EntriesSame, QuietLasting

LEMMA GrowSlabsLasting ==
  ASSUME Still, TableHalf, EdgeHalf, NEW w \in Checkers, GrowSlabs(w)
  PROVE  Lasting
  <1>1. /\ stage[w] = "grow" /\ stage'[w] = "insert" /\ Else(w)
        /\ job'[w] = job[w] /\ want'[w] = want[w] /\ UNCHANGED <<store, arena, pool, chunk>>
    BY DEF GrowSlabs, Still, Else
  <1>2. TableHalf' /\ InTable' = InTable /\ \A i \in InTable : At(i)' = At(i)
    BY GrowSlabsTable
  <1>3. JobFits(w)' /\ (Linking(w)' => Linking(w))
    BY <1>1, <1>2, EntriesSame, SeekingOn DEF EdgeHalf, Jobs, Seeking, Locking
  <1> QED
    BY <1>1, <1>2, <1>3, EntriesSame, QuietLasting

\* Whether an object has been seen says nothing of its edges.
LEMMA FlagLasting ==
  ASSUME Still, TableHalf, EdgeHalf, NEW w \in Checkers, Else(w), NEW i \in InTable, NEW b \in BOOLEAN,
         SetEntry(i, [At(i) EXCEPT !.seen = b]), stage[w] # "cut", ~Seeking(w)', stage'[w] # "link",
         stage[w] \notin {"load", "grow", "insert"}, want' = want,
         JobFits(w), job'[w] = job[w], stage'[w] \in {"idle", "seen", "alloc"},
         Placed(w), job[w].span = Nil,
         UNCHANGED <<store, slots, used, holder, created, slabs, probe, crashed, arena, pool, chunk>>
  PROVE  Lasting
  <1> DEFINE e == [At(i) EXCEPT !.seen = b]
  <1>1. e \in Entry /\ e.hash = At(i).hash /\ e.typ = At(i).typ /\ e.edges = At(i).edges
    BY EntryTypes DEF TableHalf, Entry
  <1>2. NobodyClaims
    BY DEF NobodyClaims, Else, Locking, Seeking
  <1>3. TableHalf' /\ InTable' = InTable /\ \A j \in InTable : At(j)' = IF j = i THEN e ELSE At(j)
    BY <1>1, <1>2, EntryChanges
  <1> HIDE DEF e
  <1>4. Grows /\ \A j \in InTable : At(j)'.edges = At(j).edges
    BY <1>1, <1>3 DEF Grows
  <1>5. Placed(w)' => job'[w].idx \in InTable' /\ At(job[w].idx)'.hash = job'[w].oid
    BY <1>4 DEF JobFits, Grows
  <1>6. JobFits(w)' /\ ~Linking(w)'
    BY <1>5 DEF JobFits, Linking, Seeking, Locking, Placed
  <1>7. \A j \in InTable' : j \notin InTable => At(j)'.edges = Nil
    BY <1>3
  <1> QED
    BY <1>3, <1>4, <1>6, <1>7, QuietLasting

LEMMA ClearSeenLasting ==
  ASSUME Still, TableHalf, EdgeHalf, NEW w \in Checkers, ClearSeen(w)
  PROVE  Lasting
  <1>1. /\ stage[w] = "clear" /\ stage'[w] = "seen" /\ Else(w) /\ job'[w] = job[w] /\ want' = want
        /\ SetEntry(job[w].idx, [At(job[w].idx) EXCEPT !.seen = FALSE])
        /\ UNCHANGED <<store, slots, used, holder, created, slabs, probe, crashed, arena, pool, chunk>>
    BY DEF ClearSeen, Still, Else
  <1>2. JobFits(w) /\ Placed(w) /\ job[w].idx \in InTable /\ job[w].span = Nil
    BY <1>1 DEF EdgeHalf, Jobs, JobFits, Placed
  <1>3. ~Seeking(w)'
    BY <1>1 DEF Seeking, Locking
  <1> QED
    BY <1>1, <1>2, <1>3, FlagLasting

LEMMA SetSeenLasting ==
  ASSUME Still, TableHalf, EdgeHalf, NEW w \in Checkers, SetSeen(w)
  PROVE  Lasting
  <1>1. /\ stage[w] = "seen" /\ stage'[w] \in {"idle", "alloc"} /\ Else(w) /\ job'[w] = job[w] /\ want' = want
        /\ SetEntry(job[w].idx, [At(job[w].idx) EXCEPT !.seen = TRUE])
        /\ UNCHANGED <<store, slots, used, holder, created, slabs, probe, crashed, arena, pool, chunk>>
    BY DEF SetSeen, Still, Else
  <1>2. JobFits(w) /\ Placed(w) /\ job[w].idx \in InTable /\ job[w].span = Nil
    BY <1>1 DEF EdgeHalf, Jobs, JobFits, Placed
  <1>3. ~Seeking(w)'
    BY <1>1 DEF Seeking, Locking
  <1> QED
    BY <1>1, <1>2, <1>3, FlagLasting

\* A link leads to one thing.
LEMMA LeadsUnique ==
  ASSUME InOrder, NEW l \in Link, NEW u, NEW v, Leads(l, u), Leads(l, v)
  PROVE  u = v
  <1>1. \A i, j \in InTable : At(i).hash = l.oid /\ At(j).hash = l.oid => i = j
    BY NamesApart
  <1> QED
    BY <1>1 DEF Leads

\* The next link is looked up.
LEMMA NextLinkLasting ==
  ASSUME Still, TableHalf, EdgeHalf, NEW w \in Checkers, NextLink(w), stage'[w] = "lookup"
  PROVE  Lasting
  <1>1. /\ stage[w] = "link" /\ Else(w) /\ job'[w] = job[w]
        /\ job[w].n < Len(store.links[job[w].oid])
        /\ want'[w] = store.links[job[w].oid][job[w].n + 1]
        /\ UNCHANGED <<store, slots, used, holder, created, slabs, heap, probe, crashed, arena, pool, chunk>>
    BY DEF NextLink, Still, Else
  <1>2. Linking(w) /\ JobFits(w) /\ job[w].span # Nil
    BY <1>1 DEF Linking, EdgeHalf, Jobs, JobFits
  <1>3. want'[w] \in Link
    <2>1. job[w].n \in Nat /\ store.links[job[w].oid] \in Seq(Link) /\ Len(store.links[job[w].oid]) \in Nat
      BY <1>2, LinkingTypes DEF EdgeHalf
    <2>2. job[w].n + 1 \in 1..Len(store.links[job[w].oid])
      <3>1. \A a, b \in Nat : a < b => a + 1 \in 1..b
        OBVIOUS
      <3> QED
        BY <1>1, <2>1, <3>1, Zenon
    <2> QED
      BY <1>1, <2>1, <2>2, LenFacts
  <1>4. NobodyClaims
    BY <1>1 DEF NobodyClaims, Locking, Else
  <1>5. TableHalf' /\ InTable' = InTable /\ \A i : At(i)' = At(i)
    BY <1>1, <1>4, QuietTable
  <1>6. JobFits(w)' /\ Linking(w)'
    BY <1>1, <1>2, <1>3, <1>5 DEF JobFits, Linking, Seeking, Placed
  <1> QED
    BY <1>1, <1>2, <1>5, <1>6, EntriesSame, QuietLasting

\* Part of a room is as far from another, and as well inside its slab.
LEMMA ApartLess ==
  ASSUME NEW s, NEW r, NEW t, s.pos \in Nat, r.slab = s.slab, r.pos = s.pos, t.pos \in Nat,
         NEW m \in Nat, NEW n \in Nat, NEW k \in Nat, n <= m, Apart(s, m, t, k)
  PROVE  Apart(t, k, r, n)
  BY DEF Apart

LEMMA InsideLess ==
  ASSUME arena \in Seq(Seq(Int)), NEW s, NEW r, s.pos \in Nat, r.slab = s.slab, r.pos = s.pos,
         NEW m \in Nat, NEW n \in Nat, n <= m, Inside(s, m)
  PROVE  Inside(r, n)
  <1>1. SUFFICES ASSUME n > 0 PROVE r.slab \in 1..Len(arena) /\ r.pos + n <= Len(arena[r.slab])
    BY DEF Inside
  <1>2. s.slab \in 1..Len(arena) /\ s.pos + m <= Len(arena[s.slab])
    BY <1>1 DEF Inside
  <1>3. Len(arena[s.slab]) \in Nat
    BY <1>2, LenFacts
  <1>4. \A a, z \in Nat : a + m <= z => a + n <= z
    OBVIOUS
  <1> QED
    BY <1>2, <1>3, <1>4, Zenon

\* All links are in, and SetEdges records where they are.
LEMMA RecordLasting ==
  ASSUME Still, TableHalf, EdgeHalf, NEW w \in Checkers, NextLink(w), stage'[w] # "lookup"
  PROVE  Lasting
  <1>1. PICK i, o, l, s, n : i = job[w].idx /\ o = job[w].oid /\ l = store.links[o] /\ s = job[w].span /\ n = job[w].n
    OBVIOUS
  <1> DEFINE t == [slab |-> s.slab, pos |-> s.pos, n |-> n]
             e == [At(i) EXCEPT !.edges = t]
  <1>2. /\ stage[w] = "link" /\ stage'[w] = "idle" /\ Else(w) /\ job'[w] = job[w] /\ n = Len(l)
        /\ SetEntry(i, e)
        /\ UNCHANGED <<store, slots, used, holder, created, slabs, probe, crashed, want, arena, pool, chunk>>
    BY <1>1 DEF NextLink, Still, Else
  <1>3. Linking(w)
    BY <1>2 DEF Linking
  <1>4. /\ o \in Names /\ n \in Nat /\ s.slab \in Nat /\ s.pos \in Nat /\ l \in Seq(Link)
        /\ Room(w) \in Nat /\ n <= Room(w) /\ i \in InTable /\ At(i).hash = o
    BY <1>1, <1>2, <1>3, LinkingTypes DEF EdgeHalf
  <1>5. e \in Entry /\ e.hash = o /\ e.typ = At(i).typ /\ e.edges = t /\ t \in Edged
    BY <1>4, EntryTypes DEF TableHalf, Entry, Edged
  <1>6. NobodyClaims
    BY <1>2 DEF NobodyClaims, Locking, Else
  <1>7. TableHalf' /\ InTable' = InTable /\ \A j \in InTable : At(j)' = IF j = i THEN e ELSE At(j)
    BY <1>2, <1>4, <1>5, <1>6, EntryChanges
  <1> HIDE DEF e
  <1>8. Grows
    BY <1>4, <1>5, <1>7 DEF Grows
  <1>9. t # Nil /\ t.slab = s.slab /\ t.pos = s.pos /\ t.n = n
    BY <1>5, ObjTableAssumption DEF Edged
  <1>10. ~Linking(w)' /\ JobFits(w)'
    BY <1>2 DEF JobFits, Linking, Seeking, Locking, Placed
  <1>11. Chunks'
    BY <1>2 DEF Else, EdgeHalf, Chunks, ChunkFits, Still
  <1>12. ArenaKept /\ ChunksGrow /\ \A x, m : Intact(x, m)
    <2>1. \A c \in Open : c.used <= c.used
      BY OpenTypes DEF EdgeHalf
    <2> QED
      BY <1>2, <2>1 DEF ArenaKept, ChunksGrow, Intact, Open
  <1>13. Careful(w)
    BY <1>2, <1>8, <1>10, <1>11, <1>12 DEF Careful
  <1> HIDE DEF t
  <1>14. /\ Inside(s, Room(w)) /\ PastAll(s, Room(w))
         /\ \A v \in Checkers \ {w} : Linking(v) => Apart(s, Room(w), job[v].span, Room(v))
    BY <1>1, <1>3, PastAllFacts DEF EdgeHalf, Rooms, RoomFits
  <1>15. EdgesFit(i)'
    <2>1. Inside(t, n)
      BY <1>4, <1>9, <1>14, InsideLess DEF EdgeHalf, Chunks
    <2>2. \A c \in Open : CutPast(c, t, n)
      <3>1. \A c \in Open : c.used \in Nat
        BY OpenTypes DEF EdgeHalf
      <3> QED
        BY <1>4, <1>9, <1>14, <3>1 DEF PastAll, CutPast
    <2>3. \A k \in 1..n : Leads(l[k], arena[t.slab][t.pos + k])
      BY <1>1, <1>3, <1>9 DEF EdgeHalf, WrittenLead
    <2>4. ASSUME NEW k \in 1..n, NEW x, x = l[k], NEW y, y = arena'[t.slab][t.pos + k]
          PROVE  Leads(x, y)'
      <3>1. x \in Link
        BY <1>2, <1>4, <2>4, LenFacts
      <3> QED
        BY <1>2, <1>8, <2>3, <2>4, <3>1, LeadsStay
    <2>5. At(i)'.edges = t /\ At(i)'.hash = o
      BY <1>4, <1>5, <1>7
    <2>6. /\ \A c \in pool' : CutPast(c, t, n)
          /\ \A v \in Checkers : chunk'[v] # Nil => CutPast(chunk'[v], t, n)
      BY <1>2, <2>2 DEF Open
    <2>7. store'.links[o] = l
      BY <1>1, <1>2
    <2>8. Inside(t, n)'
      BY <1>2, <2>1 DEF Inside
    <2> QED
      BY <1>2, <1>9, <2>4, <2>5, <2>6, <2>7, <2>8 DEF EdgesFit, CutPast, Inside
  <1>16. ASSUME NEW v \in Checkers \ {w}, Linking(v)
         PROVE  Apart(job[v].span, Room(v), t, n)
    <2>1. /\ Apart(s, Room(w), job[v].span, Room(v)) /\ Room(v) \in Nat
          /\ job[v].span.pos \in Nat /\ job[v].span.slab \in Nat
      BY <1>14, <1>16, LinkingTypes DEF EdgeHalf
    <2> QED
      BY <1>4, <1>9, <2>1, ApartLess
  <1>17. EdgeHalf'
    <2>1. \A j \in InTable' : At(j)'.edges # Nil =>
           \/ j \in InTable /\ At(j)'.edges = At(j).edges
           \/ /\ EdgesFit(j)'
              /\ \A v \in Checkers \ {w} : Linking(v) => Apart(job[v].span, Room(v), At(j)'.edges, At(j)'.edges.n)
      <3>1. At(i)'.edges = t /\ t.n = n
        BY <1>4, <1>5, <1>7, <1>9
      <3> QED
        BY <1>7, <1>15, <1>16, <3>1
    <2> QED
      BY <1>10, <1>13, <2>1, EdgeStep DEF TableHalf
  <1>18. EdgesKept
    <2>1. SUFFICES ASSUME NEW j \in InTable, At(j).edges # Nil
                   PROVE  /\ At(j)'.edges # Nil /\ At(j)'.edges.n = At(j).edges.n
                          /\ \A k \in 1..At(j).edges.n :
                               arena'[At(j)'.edges.slab][At(j)'.edges.pos + k]
                                 = arena[At(j).edges.slab][At(j).edges.pos + k]
      BY DEF EdgesKept
    <2>2. CASE j # i
      BY <1>2, <1>7, <2>1, <2>2
    <2>3. CASE j = i
      <3>1. At(i)'.edges = t
        BY <1>4, <1>5, <1>7
      <3>2. /\ At(i).edges.n = n
            /\ \A k \in 1..n : Leads(l[k], arena[At(i).edges.slab][At(i).edges.pos + k])
        BY <1>1, <1>2, <1>4, <2>1, <2>3 DEF EdgeHalf, RecordedLead, EdgesFit
      <3>3. \A k \in 1..n : Leads(l[k], arena[t.slab][t.pos + k])
        BY <1>1, <1>3, <1>9 DEF EdgeHalf, WrittenLead
      <3>4. \A k \in 1..n : l[k] \in Link
        BY <1>2, <1>4, LenFacts
      <3>5. \A k \in 1..n : arena[t.slab][t.pos + k] = arena[At(i).edges.slab][At(i).edges.pos + k]
        BY <3>2, <3>3, <3>4, LeadsUnique DEF TableHalf
      <3> QED
        BY <1>2, <1>9, <2>1, <2>3, <3>1, <3>2, <3>5
    <2> QED
      BY <2>2, <2>3
  <1> QED
    BY <1>7, <1>8, <1>17, <1>18 DEF Lasting

-----------------------------------------------------------------------------
\* An element of a sequence is replaced.
LEMMA PutFacts ==
  ASSUME NEW S, NEW q \in Seq(S), NEW b \in 1..Len(q), NEW x \in S
  PROVE  /\ [q EXCEPT ![b] = x] \in Seq(S) /\ Len([q EXCEPT ![b] = x]) = Len(q)
         /\ \A d \in 1..Len(q) : [q EXCEPT ![b] = x][d] = IF d = b THEN x ELSE q[d]
  OBVIOUS

EdgeLists == arena \in Seq(Seq(Int))

LEMMA EdgeListFacts ==
  ASSUME EdgeLists, NEW a \in 1..Len(arena)
  PROVE  arena[a] \in Seq(Int) /\ Len(arena[a]) \in Nat
  BY LenFacts DEF EdgeLists

\* One edge is written.
Wrote(a, b, x) == arena' = [arena EXCEPT ![a][b] = x]
OneWritten(a, b, x) ==
  /\ EdgeLists' /\ Len(arena') = Len(arena) /\ ArenaKept
  /\ \A c \in 1..Len(arena) : \A d \in 1..Len(arena[c]) :
       arena'[c][d] = IF c = a /\ d = b THEN x ELSE arena[c][d]

LEMMA WriteFacts ==
  ASSUME EdgeLists, NEW a, NEW b, NEW x, a \in 1..Len(arena), b \in 1..Len(arena[a]), x \in Int, Wrote(a, b, x)
  PROVE  OneWritten(a, b, x)
  <1> DEFINE r == [arena[a] EXCEPT ![b] = x]
  <1>1. arena[a] \in Seq(Int)
    BY EdgeListFacts
  <1>2. r \in Seq(Int) /\ Len(r) = Len(arena[a]) /\ \A d \in 1..Len(arena[a]) : r[d] = IF d = b THEN x ELSE arena[a][d]
    BY <1>1, PutFacts
  <1>3. arena' = [arena EXCEPT ![a] = r]
    BY DEF Wrote
  <1> HIDE DEF r
  <1>4. /\ arena' \in Seq(Seq(Int)) /\ Len(arena') = Len(arena)
        /\ \A c \in 1..Len(arena) : arena'[c] = IF c = a THEN r ELSE arena[c]
    <2>1. \A S : arena \in Seq(S) /\ r \in S =>
             /\ arena' \in Seq(S) /\ Len(arena') = Len(arena)
             /\ \A c \in 1..Len(arena) : arena'[c] = IF c = a THEN r ELSE arena[c]
      BY <1>3, PutFacts
    <2>2. arena \in Seq(Seq(Int))
      BY DEF EdgeLists
    <2> QED
      BY <1>2, <2>1, <2>2, Zenon
  <1> QED
    BY <1>2, <1>4 DEF OneWritten, ArenaKept, EdgeLists

\* What is written to the room of a worker is not written to what is apart from it.
LEMMA WriteApart ==
  ASSUME EdgeLists, NEW s, NEW m \in Nat, s.pos \in Nat, s.slab \in Nat, Inside(s, m),
         NEW j \in 1..m, NEW x \in Int, Wrote(s.slab, s.pos + j, x),
         NEW t, NEW n \in Nat, NEW k \in Nat, k <= n, t.pos \in Nat, t.slab \in Nat, Inside(t, n), Apart(s, m, t, n)
  PROVE  Intact(t, k)
  <1>1. SUFFICES ASSUME NEW q \in 1..k PROVE arena'[t.slab][t.pos + q] = arena[t.slab][t.pos + q]
    BY DEF Intact
  <1>2. n > 0 /\ m > 0 /\ q \in Nat /\ q > 0 /\ q <= n
    OBVIOUS
  <1>3. /\ s.slab \in 1..Len(arena) /\ s.pos + m <= Len(arena[s.slab])
        /\ t.slab \in 1..Len(arena) /\ t.pos + n <= Len(arena[t.slab])
    BY <1>2 DEF Inside
  <1>4. Len(arena[s.slab]) \in Nat /\ Len(arena[t.slab]) \in Nat
    BY <1>3, EdgeListFacts
  <1>5. \A p, z \in Nat : \A u, y \in Nat : u <= y /\ u > 0 /\ p + y <= z => p + u \in 1..z
    OBVIOUS
  <1>6. s.pos + j \in 1..Len(arena[s.slab]) /\ t.pos + q \in 1..Len(arena[t.slab])
    <2>1. j \in Nat /\ j > 0 /\ j <= m
      OBVIOUS
    <2> QED
      BY <1>2, <1>3, <1>4, <1>5, <2>1, Zenon
  <1>7. ~(t.slab = s.slab /\ t.pos + q = s.pos + j)
    BY <1>2 DEF Apart
  <1>8. x \in Int
    OBVIOUS
  <1>9. OneWritten(s.slab, s.pos + j, x)
    BY <1>3, <1>6, <1>8, WriteFacts, Zenon
  <1> QED
    BY <1>3, <1>6, <1>7, <1>9 DEF OneWritten

\* Where a worker writes its next edge, the ones before it stay.
LEMMA WriteNext ==
  ASSUME EdgeLists, NEW s, NEW m \in Nat, s.pos \in Nat, s.slab \in Nat, Inside(s, m),
         NEW n \in Nat, n < m, NEW x \in Int, Wrote(s.slab, s.pos + n + 1, x)
  PROVE  /\ EdgeLists' /\ Len(arena') = Len(arena) /\ ArenaKept
         /\ Intact(s, n) /\ arena'[s.slab][s.pos + n + 1] = x
  <1>1. s.slab \in 1..Len(arena) /\ s.pos + m <= Len(arena[s.slab])
    BY DEF Inside
  <1>2. Len(arena[s.slab]) \in Nat
    BY <1>1, EdgeListFacts
  <1>3. \A p, z \in Nat : \A u \in Nat : u <= n + 1 /\ u > 0 /\ p + m <= z => p + u \in 1..z
    OBVIOUS
  <1>4. s.pos + n + 1 = s.pos + (n + 1) /\ n + 1 \in Nat /\ n + 1 > 0 /\ n + 1 <= n + 1
    OBVIOUS
  <1>5. s.pos + n + 1 \in 1..Len(arena[s.slab]) /\ \A k \in 1..n : s.pos + k \in 1..Len(arena[s.slab]) /\ s.pos + k # s.pos + n + 1
    <2>1. \A k \in 1..n : k \in Nat /\ k <= n + 1 /\ k > 0 /\ s.pos + k # s.pos + n + 1
      OBVIOUS
    <2> QED
      <3>1. s.pos + (n + 1) \in 1..Len(arena[s.slab])
        BY <1>1, <1>2, <1>3, <1>4, Zenon
      <3>2. \A k \in 1..n : s.pos + k \in 1..Len(arena[s.slab])
        BY <1>1, <1>2, <1>3, <2>1, Zenon
      <3> QED
        BY <1>4, <2>1, <3>1, <3>2, Zenon
  <1>6. /\ EdgeLists' /\ Len(arena') = Len(arena) /\ ArenaKept
        /\ \A d \in 1..Len(arena[s.slab]) :
             arena'[s.slab][d] = IF d = s.pos + n + 1 THEN x ELSE arena[s.slab][d]
    <2>1. PICK a, b : a = s.slab /\ b = s.pos + n + 1
      OBVIOUS
    <2>2. a \in 1..Len(arena) /\ b \in 1..Len(arena[a]) /\ x \in Int /\ Wrote(a, b, x)
      BY <1>1, <1>5, <2>1
    <2>3. OneWritten(a, b, x)
      BY <2>2, WriteFacts, Zenon
    <2> QED
      BY <2>1, <2>2, <2>3 DEF OneWritten
  <1> QED
    BY <1>5, <1>6 DEF Intact

\* Lookup answers: with the entry of the object, or with the target of an edge.
AnswerRight(w, i, ok) ==
  /\ i \in Nat /\ i \in InTable' /\ At(i)'.hash = want[w].oid
  /\ IF ok THEN want[w].typ \in {AnyType, At(i)'.typ}
     ELSE want[w].typ # AnyType /\ At(i)'.typ \notin {NoType, want[w].typ}

\* What the table may have done before a worker is answered.
Ready(w) ==
  /\ TableHalf' /\ Grows /\ (\A i \in InTable : At(i)'.edges = At(i).edges)
  /\ (\A i \in InTable' : i \notin InTable => At(i)'.edges = Nil)
  /\ UNCHANGED <<store, pool, chunk, want>> /\ Seeking(w)

LEMMA AnswerFirst ==
  ASSUME Still, TableHalf, EdgeHalf, NEW w \in Checkers, NEW i, NEW ok \in BOOLEAN,
         Answer(w, i, ok), Ready(w), AnswerRight(w, i, ok), job[w].span = Nil
  PROVE  Lasting
  <1>1. /\ stage'[w] \in {"clear", "idle"} /\ Else(w) /\ job'[w] = [job[w] EXCEPT !.idx = i]
        /\ arena' = arena
    BY DEF Answer, Still, Else, Ready
  <1>2. JobFits(w) /\ job[w] \in JobType /\ want[w].oid = job[w].oid /\ job[w].n = 0
    BY DEF Ready, EdgeHalf, Jobs, JobFits, Seeking, Locking
  <1>3. job'[w] \in JobType /\ job'[w].idx = i /\ job'[w].oid = job[w].oid /\ job'[w].span = Nil /\ job'[w].n = 0
    BY <1>1, <1>2 DEF JobType, AnswerRight
  <1>4. job'[w].idx \in InTable' /\ \A j : j = job'[w].idx => At(j)'.hash = job'[w].oid
    BY <1>2, <1>3 DEF AnswerRight
  <1>5. ~Linking(w)' /\ ~Seeking(w)'
    BY <1>1 DEF Linking, Seeking, Locking
  <1>6. (At(job[w].idx).hash = job[w].oid)'
    BY <1>4
  <1>7. JobFits(w)'
    BY <1>1, <1>3, <1>4, <1>5, <1>6 DEF JobFits
  <1>8. stage[w] # "cut"
    BY DEF Ready, Seeking, Locking
  <1> QED
    BY <1>1, <1>5, <1>7, <1>8, QuietLasting DEF Ready

LEMMA AnswerNext ==
  ASSUME Still, TableHalf, EdgeHalf, NEW w \in Checkers, NEW i, NEW ok \in BOOLEAN,
         Answer(w, i, ok), Ready(w), AnswerRight(w, i, ok), job[w].span # Nil
  PROVE  Lasting
  <1>1. PICK s, n, m, o, x : s = job[w].span /\ n = job[w].n /\ m = Room(w) /\ o = job[w].oid
                          /\ x = IF ok THEN i ELSE Unresolved
    OBVIOUS
  <1>2. /\ stage'[w] = "link" /\ Else(w) /\ job'[w] = [job[w] EXCEPT !.n = n + 1]
        /\ Wrote(s.slab, s.pos + n + 1, x)
    BY <1>1 DEF Answer, Still, Else, Ready, Wrote
  <1>3. Linking(w)
    BY DEF Ready, Linking
  <1>4. /\ job[w] \in JobType /\ o \in Names /\ n \in Nat /\ s.slab \in Nat /\ s.pos \in Nat
        /\ s \in [slab : Nat, pos : Nat] /\ store.links[o] \in Seq(Link) /\ Len(store.links[o]) \in Nat
        /\ m \in Nat /\ Len(store.links[o]) <= m /\ job[w].idx \in InTable /\ At(job[w].idx).hash = o
    BY <1>1, <1>3, LinkingTypes DEF EdgeHalf
  <1>5. n < Len(store.links[o]) /\ n < m /\ want[w] = store.links[o][n + 1] /\ want[w] \in Link
    <2>1. n < Len(store.links[o]) /\ want[w] = store.links[o][n + 1] /\ want[w] \in Link
      BY <1>1 DEF Ready, EdgeHalf, Jobs, JobFits
    <2>2. \A a, b \in Nat : n < a /\ a <= b => n < b
      BY <1>4
    <2> QED
      BY <1>4, <2>1, <2>2, Zenon
  <1>6. /\ Inside(s, m) /\ PastAll(s, m)
        /\ \A v \in Checkers \ {w} : Linking(v) => Apart(s, m, job[v].span, Room(v))
        /\ \A j \in InTable : At(j).edges # Nil => Apart(s, m, At(j).edges, At(j).edges.n)
    BY <1>1, <1>3, PastAllFacts DEF EdgeHalf, Rooms, RoomFits
  <1>7. EdgeLists /\ x \in Int
    BY <1>1 DEF EdgeHalf, Chunks, EdgeLists, AnswerRight, Unresolved
  <1>8. /\ EdgeLists' /\ Len(arena') = Len(arena) /\ ArenaKept
        /\ Intact(s, n) /\ arena'[s.slab][s.pos + n + 1] = x
    BY <1>2, <1>4, <1>5, <1>6, <1>7, WriteNext
  <1>9. n + 1 \in 1..m /\ s.pos + n + 1 = s.pos + (n + 1)
    BY <1>4, <1>5
  <1>10. Wrote(s.slab, s.pos + (n + 1), x)
    BY <1>2, <1>9
  <1>11. ASSUME NEW v \in Checkers \ {w}, Linking(v)
         PROVE  Intact(job[v].span, job[v].n)
    <2>1. /\ job[v].span.slab \in Nat /\ job[v].span.pos \in Nat /\ Room(v) \in Nat /\ job[v].n \in Nat
          /\ job[v].n <= Len(store.links[job[v].oid]) /\ Len(store.links[job[v].oid]) <= Room(v)
          /\ Len(store.links[job[v].oid]) \in Nat
      BY <1>11, LinkingTypes DEF EdgeHalf
    <2>2. \A a, b, c \in Nat : a <= b /\ b <= c => a <= c
      OBVIOUS
    <2>3. job[v].n <= Room(v)
      BY <2>1, <2>2, Zenon
    <2>4. Inside(job[v].span, Room(v)) /\ Apart(s, m, job[v].span, Room(v))
      BY <1>6, <1>11 DEF EdgeHalf, Rooms, RoomFits
    <2> QED
      BY <1>4, <1>6, <1>7, <1>9, <1>10, <2>1, <2>3, <2>4, WriteApart
  <1>12. ASSUME NEW j \in InTable, At(j).edges # Nil
         PROVE  Intact(At(j).edges, At(j).edges.n)
    <2>1. At(j).edges \in Edged
      BY <1>12, EntryTypes DEF TableHalf
    <2>2. At(j).edges.slab \in Nat /\ At(j).edges.pos \in Nat /\ At(j).edges.n \in Nat
      BY <2>1 DEF Edged
    <2>3. Inside(At(j).edges, At(j).edges.n) /\ Apart(s, m, At(j).edges, At(j).edges.n)
      BY <1>6, <1>12 DEF EdgeHalf, RecordedLead, EdgesFit
    <2>4. At(j).edges.n <= At(j).edges.n
      BY <2>2
    <2> QED
      BY <1>4, <1>6, <1>7, <1>9, <1>10, <2>2, <2>3, <2>4, WriteApart
  <1>13. Chunks'
    <2>1. stage[w] # "cut" /\ chunk[w] = Nil
      BY DEF Ready, Seeking, Locking, EdgeHalf, Chunks
    <2>2. UNCHANGED <<pool, chunk>>
      BY DEF Ready
    <2>3. \A c \in Chunk : ChunkFits(c) => ChunkFits(c)'
      BY <1>8 DEF ChunkFits, ArenaKept
    <2>4. \A c \in pool : ChunkFits(c)'
      BY <2>3 DEF EdgeHalf, Chunks, ChunkFits
    <2>5. \A v \in Checkers : chunk[v] # Nil => stage'[v] = "cut" /\ ChunkFits(chunk[v])'
      <3>1. ASSUME NEW v \in Checkers, chunk[v] # Nil, NEW c, c = chunk[v]
            PROVE  stage'[v] = "cut" /\ ChunkFits(c)'
        <4>1. stage[v] = "cut" /\ ChunkFits(c) /\ c \in Chunk
          BY <3>1 DEF EdgeHalf, Chunks, ChunkFits
        <4> QED
          BY <1>2, <2>1, <2>3, <3>1, <4>1 DEF Else
      <3> QED
        BY <2>2, <3>1 DEF ChunkFits
    <2>6. arena' \in Seq(Seq(Int))
      BY <1>8 DEF EdgeLists
    <2> QED
      BY <2>2, <2>4, <2>5, <2>6 DEF EdgeHalf, Chunks, ChunkFits
  <1>14. ChunksGrow
    <2>1. \A c \in Open : c.used <= c.used
      BY OpenTypes DEF EdgeHalf
    <2> QED
      BY <2>1 DEF Ready, ChunksGrow, Open
  <1>15. /\ job'[w].span = s /\ job'[w].n = n + 1 /\ job'[w].oid = o /\ job'[w].idx = job[w].idx
         /\ job'[w] \in JobType
    BY <1>1, <1>2, <1>4 DEF JobType
  <1>16. Linking(w)' /\ ~Seeking(w)'
    BY <1>2 DEF Linking, Seeking, Locking
  <1>17. JobFits(w)'
    <2>1. n + 1 <= Len(store.links[o])
      <3>1. \A a \in Nat : n < a => n + 1 <= a
        BY <1>4
      <3> QED
        BY <1>4, <1>5, <3>1, Zenon
    <2>2. job'[w].idx \in InTable' /\ \A j : j = job'[w].idx => At(j)'.hash = o
      BY <1>4, <1>15 DEF Ready, Grows
    <2>3. (At(job[w].idx).hash = job[w].oid)'
      BY <1>15, <2>2
    <2>4. store' = store /\ s # Nil
      BY <1>1 DEF Ready
    <2> QED
      BY <1>2, <1>15, <1>16, <2>1, <2>2, <2>3, <2>4 DEF JobFits
  <1>18. Careful(w)
    BY <1>2, <1>8, <1>11, <1>12, <1>13, <1>14, <1>17 DEF Careful, Ready
  <1>19. Room(w)' = m
    BY <1>1, <1>15 DEF Room, Ready
  <1>20. Alone(w)'
    BY <1>1, <1>3, <1>8, <1>13, <1>14, <1>15, <1>19, AloneStays DEF Ready, TableHalf
  <1>21. Leads(want[w], x)'
    <2>1. i # Unresolved
      BY DEF AnswerRight, Unresolved
    <2>2. \A l : l = want[w] => Leads(l, x)'
      BY <1>1, <2>1 DEF Leads, AnswerRight
    <2> QED
      BY <2>2 DEF Ready, Leads
  <1>22. RightlyWritten(w)'
    <2>1. SUFFICES ASSUME NEW k \in 1..(n + 1), NEW l, l = store.links[o][k],
                          NEW y, y = arena'[s.slab][s.pos + k]
                   PROVE  Leads(l, y)'
      BY <1>15 DEF RightlyWritten, Ready
    <2>2. CASE k = n + 1
      <3>1. l = want[w] /\ y = x
        BY <1>5, <1>8, <1>9, <2>1, <2>2
      <3>2. want' = want
        BY DEF Ready
      <3> QED
        BY <1>21, <3>1, <3>2
    <2>3. CASE k \in 1..n
      <3>1. Leads(l, y)
        BY <1>1, <1>3, <1>8, <2>1, <2>3 DEF EdgeHalf, WrittenLead, Intact
      <3>2. k \in 1..Len(store.links[o])
        <4>1. \A a \in Nat : n < a => k \in 1..a
          BY <1>4, <2>3
        <4> QED
          BY <1>4, <1>5, <4>1, Zenon
      <3> QED
        BY <1>4, <2>1, <3>1, <3>2, LenFacts, LeadsStay DEF Ready
    <2> QED
      BY <1>4, <2>2, <2>3
  <1>23. EdgeHalf'
    <2>1. \A v \in Checkers \ {w} : Linking(v) => Apart(job'[w].span, Room(w)', job[v].span, Room(v))
      BY <1>6, <1>15, <1>19
    <2> QED
      BY <1>18, <1>20, <1>22, <2>1, EdgeStep DEF Ready, TableHalf
  <1>24. EdgesKept
    BY <1>12 DEF EdgesKept, Intact, Ready
  <1> QED
    BY <1>23, <1>24 DEF Lasting, Ready

LEMMA AnswerLasting ==
  ASSUME Still, TableHalf, EdgeHalf, NEW w \in Checkers, NEW i, NEW ok \in BOOLEAN,
         Answer(w, i, ok), Ready(w), AnswerRight(w, i, ok)
  PROVE  Lasting
  BY AnswerFirst, AnswerNext

LEMMA LookupOldLasting ==
  ASSUME Still, TableHalf, EdgeHalf, NEW w \in Checkers, LookupOld(w)
  PROVE  Lasting
  <1>1. PICK i, o, t : i = Get(want[w].oid) /\ o = want[w].oid /\ t = want[w].typ
    OBVIOUS
  <1> DEFINE e == [At(i) EXCEPT !.typ = Settle(@, t)]
             ok == t \in {AnyType, Settle(At(i).typ, t)}
  <1>2. /\ stage[w] = "lookup" /\ Get(o) # Nil /\ SetEntry(i, e) /\ Answer(w, i, ok)
        /\ UNCHANGED <<store, slots, used, holder, created, slabs, pool, want, probe, chunk, crashed>>
    BY <1>1 DEF LookupOld
  <1>3. Seeking(w) /\ o \in Names /\ t \in Kinds \cup {AnyType}
    BY <1>1, <1>2 DEF EdgeHalf, Jobs, JobFits, Seeking, Link
  <1>4. i \in InTable /\ At(i).hash = o
    BY <1>1, <1>2, <1>3, GetFound DEF TableHalf
  <1>5. i \in Nat /\ At(i) \in Entry /\ At(i).typ \in Kinds \cup {NoType}
    BY <1>4, EntryTypes DEF TableHalf, Entry
  <1>6. t # NoType
    BY <1>3, ObjTableAssumption
  <1>7. /\ e \in Entry /\ e.hash = At(i).hash /\ e.edges = At(i).edges /\ e.typ = Settle(At(i).typ, t)
        /\ At(i).typ # NoType => e.typ = At(i).typ
        /\ t # AnyType => e.typ # NoType
    BY <1>3, <1>5, <1>6 DEF Entry, Settle
  <1>8. NobodyClaims
    BY <1>2 DEF NobodyClaims, Locking, Answer, Still
  <1>9. TableHalf' /\ InTable' = InTable /\ \A j \in InTable : At(j)' = IF j = i THEN e ELSE At(j)
    BY <1>2, <1>4, <1>7, <1>8, EntryChanges
  <1> HIDE DEF e
  <1>10. Grows /\ \A j \in InTable : At(j)'.edges = At(j).edges
    BY <1>7, <1>9 DEF Grows
  <1>11. At(i)' = e
    BY <1>4, <1>9
  <1>12. Ready(w)
    BY <1>2, <1>3, <1>9, <1>10 DEF Ready
  <1>13. AnswerRight(w, i, ok)
    BY <1>1, <1>4, <1>5, <1>7, <1>9, <1>11 DEF AnswerRight
  <1>14. ok \in BOOLEAN
    OBVIOUS
  <1> HIDE DEF ok
  <1> QED
    BY <1>2, <1>12, <1>13, <1>14, AnswerLasting

LEMMA InsertLasting ==
  ASSUME Still, TableHalf, EdgeHalf, NEW w \in Checkers, Insert(w)
  PROVE  Lasting
  <1>1. PICK i, t : i = probe[w] /\ t = want[w].typ
    OBVIOUS
  <1>2. /\ stage[w] = "insert" /\ Answer(w, i, TRUE)
        /\ UNCHANGED <<store, pool, chunk, want>>
    BY <1>1 DEF Insert
  <1>3. Seeking(w) /\ want[w] \in Link
    BY <1>2 DEF EdgeHalf, Jobs, JobFits, Seeking, Locking
  <1>4. t \in Kinds \cup {AnyType} /\ t # NoType
    BY <1>1, <1>3, ObjTableAssumption DEF Link
  <1>5. /\ TableHalf' /\ InTable' = InTable \cup {i} /\ i \notin InTable
        /\ \A j \in InTable : At(j)' = At(j)
        /\ At(i)' = NewEntry(want[w])
    BY <1>1, <1>3, InsertTable
  <1>6. /\ NewEntry(want[w]).hash = want[w].oid /\ NewEntry(want[w]).edges = Nil
        /\ NewEntry(want[w]).typ = IF t # AnyType THEN t ELSE NoType
    BY <1>1 DEF NewEntry, Settle
  <1>7. i \in Nat
    BY <1>1, <1>3, InsertFacts
  <1>8. Ready(w)
    BY <1>2, <1>3, <1>5, <1>6 DEF Ready, Grows
  <1>9. AnswerRight(w, i, TRUE)
    BY <1>1, <1>5, <1>6, <1>7 DEF AnswerRight
  <1> QED
    BY <1>2, <1>8, <1>9, AnswerLasting

-----------------------------------------------------------------------------
\* A worker has been given room t in the arena, apart from all the room there is.
NewRoom(w, t) ==
  /\ stage'[w] = "link" /\ t \in [slab : Nat, pos : Nat] /\ job'[w] = [job[w] EXCEPT !.span = t] /\ Else(w)
  /\ Chunks' /\ ArenaKept /\ ChunksGrow /\ (\A s \in 1..Len(arena) : arena'[s] = arena[s])
  /\ Inside(t, Room(w))' /\ (\A c \in Open' : CutPast(c, t, Room(w)))
  /\ \A s : \A m \in Nat : s.slab \in Nat /\ s.pos \in Nat /\ Inside(s, m) /\ PastAll(s, m) => Apart(t, Room(w), s, m)

LEMMA NewRoomLasting ==
  ASSUME Still, TableHalf, EdgeHalf, NEW w \in Checkers, stage[w] \in {"alloc", "cut"}, NEW t, NewRoom(w, t),
         UNCHANGED <<store, slots, used, holder, created, slabs, heap, want, probe, crashed>>
  PROVE  Lasting
  <1>1. JobFits(w) /\ job[w] \in JobType /\ job[w].n = 0 /\ job[w].idx \in InTable /\ At(job[w].idx).hash = job[w].oid
    BY DEF EdgeHalf, Jobs, JobFits, Placed
  <1>2. t # Nil
    BY ObjTableAssumption DEF NewRoom
  <1>3. /\ job'[w] \in JobType /\ job'[w].span = t /\ job'[w].n = 0 /\ job'[w].oid = job[w].oid
        /\ job'[w].idx = job[w].idx
    BY <1>1 DEF NewRoom, JobType
  <1>4. NobodyClaims
    BY DEF NobodyClaims, Locking, NewRoom, Else
  <1>5. TableHalf' /\ InTable' = InTable /\ \A i : At(i)' = At(i)
    BY <1>4, QuietTable
  <1>6. /\ Grows /\ (\A i \in InTable : At(i)'.edges = At(i).edges)
        /\ \A i \in InTable' : i \notin InTable => At(i)'.edges = Nil
    BY <1>5, EntriesSame
  <1>7. Linking(w)' /\ ~Seeking(w)'
    BY DEF NewRoom, Linking, Seeking, Locking
  <1>8. Room(w)' = Room(w)
    BY <1>3 DEF Room
  <1>9. JobFits(w)'
    <2>1. \A i : i = job'[w].idx => i \in InTable' /\ At(i)'.hash = job'[w].oid
      BY <1>1, <1>3, <1>5
    <2>2. (job[w].idx \in InTable /\ At(job[w].idx).hash = job[w].oid)'
      BY <2>1
    <2>3. store.links[job[w].oid] \in Seq(Link)
      BY <1>1 DEF JobType, Still, Store
    <2>4. 0 <= Len(store.links[job[w].oid])
      <3>1. \A a \in Nat : 0 <= a
        OBVIOUS
      <3> QED
        BY <2>3, <3>1, LenFacts, Zenon
    <2>5. stage'[w] = "link"
      BY DEF NewRoom
    <2> QED
      BY <1>2, <1>3, <1>7, <2>2, <2>4, <2>5 DEF JobFits
  <1>10. \A s : \A n, m \in Nat : n <= m /\ Inside(s, m) => Intact(s, n)
    BY DEF Inside, Intact, NewRoom
  <1>11. ASSUME NEW v \in Checkers \ {w}, Linking(v)
         PROVE  /\ Intact(job[v].span, job[v].n)
                /\ Apart(t, Room(w), job[v].span, Room(v))
    <2>1. /\ job[v].span.slab \in Nat /\ job[v].span.pos \in Nat /\ Room(v) \in Nat /\ job[v].n \in Nat
          /\ job[v].n <= Len(store.links[job[v].oid]) /\ Len(store.links[job[v].oid]) <= Room(v)
          /\ Len(store.links[job[v].oid]) \in Nat
      BY <1>11, LinkingTypes DEF EdgeHalf
    <2>2. \A a, b, c \in Nat : a <= b /\ b <= c => a <= c
      OBVIOUS
    <2>3. job[v].n <= Room(v)
      BY <2>1, <2>2, Zenon
    <2>4. Inside(job[v].span, Room(v)) /\ PastAll(job[v].span, Room(v))
      BY <1>11, PastAllFacts DEF EdgeHalf, Rooms, RoomFits
    <2> QED
      BY <1>10, <2>1, <2>3, <2>4 DEF NewRoom
  <1>12. ASSUME NEW i \in InTable, At(i).edges # Nil
         PROVE  /\ Intact(At(i).edges, At(i).edges.n)
                /\ Apart(t, Room(w), At(i).edges, At(i).edges.n)
    <2>1. At(i).edges \in Edged
      BY <1>12, EntryTypes DEF TableHalf
    <2>2. At(i).edges.slab \in Nat /\ At(i).edges.pos \in Nat /\ At(i).edges.n \in Nat /\ At(i).edges.n <= At(i).edges.n
      BY <2>1 DEF Edged
    <2>3. Inside(At(i).edges, At(i).edges.n) /\ PastAll(At(i).edges, At(i).edges.n)
      BY <1>12, PastAllFacts DEF EdgeHalf, RecordedLead, EdgesFit
    <2> QED
      BY <1>10, <2>2, <2>3 DEF NewRoom
  <1>13. Careful(w)
    BY <1>6, <1>9, <1>11, <1>12 DEF Careful, NewRoom
  <1>14. Alone(w)'
    <2>1. \A i \in InTable' : At(i)'.edges # Nil => Apart(t, Room(w), At(i)'.edges, At(i)'.edges.n)
      BY <1>5, <1>12
    <2>2. Inside(t, Room(w))' /\ \A c \in Open' : CutPast(c, t, Room(w))
      BY DEF NewRoom
    <2> QED
      BY <1>3, <1>8, <2>1, <2>2 DEF Alone, PastAll, CutPast, Apart, Inside
  <1>15. RightlyWritten(w)'
    BY <1>3 DEF RightlyWritten
  <1>16. EdgeHalf'
    <2>1. \A v \in Checkers \ {w} : Linking(v) => Apart(job'[w].span, Room(w)', job[v].span, Room(v))
      BY <1>3, <1>8, <1>11
    <2> QED
      BY <1>6, <1>13, <1>14, <1>15, <2>1, EdgeStep DEF TableHalf
  <1>17. EdgesKept
    BY <1>6, <1>12 DEF EdgesKept, Intact
  <1> QED
    BY <1>5, <1>6, <1>16, <1>17 DEF Lasting

\* Nothing to make room for.
LEMMA AllocNothing ==
  ASSUME Still, TableHalf, EdgeHalf, NEW w \in Checkers, Alloc(w), stage'[w] = "link", Room(w) = 0
  PROVE  Lasting
  <1> DEFINE t == [slab |-> 0, pos |-> 0]
  <1>1. /\ stage[w] = "alloc" /\ job'[w] = [job[w] EXCEPT !.span = t] /\ Else(w)
        /\ UNCHANGED <<arena, pool, chunk>>
        /\ UNCHANGED <<store, slots, used, holder, created, slabs, heap, want, probe, crashed>>
    BY SizeFacts DEF Alloc, tableState, Still, Else
  <1>2. Chunks'
    BY <1>1 DEF Else, EdgeHalf, Chunks, ChunkFits
  <1>3. ArenaKept /\ ChunksGrow
    <2>1. \A c \in Open : c.used <= c.used
      BY OpenTypes DEF EdgeHalf
    <2> QED
      BY <1>1, <2>1 DEF ArenaKept, ChunksGrow, Open
  <1>4. Room(w)' = 0
    BY <1>1 DEF Room, EdgeHalf, Jobs, JobFits, JobType
  <1>5. NewRoom(w, t)
    BY <1>1, <1>2, <1>3, <1>4 DEF NewRoom, Inside, CutPast, Apart
  <1> QED
    BY <1>1, <1>5, NewRoomLasting

\* A new slab of edges.
LEMMA AppendSlab ==
  ASSUME EdgeLists, NEW k \in Nat, arena' = Append(arena, [p \in 1..k |-> 0])
  PROVE  /\ EdgeLists' /\ Len(arena) \in Nat /\ Len(arena') = Len(arena) + 1
         /\ (\A s \in 1..Len(arena) : s \in 1..Len(arena') /\ arena'[s] = arena[s])
         /\ ArenaKept /\ Len(arena) + 1 \in 1..Len(arena') /\ Len(arena'[Len(arena) + 1]) = k
         /\ \A c : c.slab \in 1..Len(arena) => c.slab # Len(arena) + 1
  <1> DEFINE r == [p \in 1..k |-> 0]
  <1>1. r \in Seq(Int) /\ Len(r) = k
    OBVIOUS
  <1> HIDE DEF r
  <1>2. \A S : arena \in Seq(S) /\ r \in S =>
          /\ arena' \in Seq(S) /\ Len(arena) \in Nat /\ Len(arena') = Len(arena) + 1
          /\ \A s \in 1..Len(arena) : s \in 1..Len(arena') /\ arena'[s] = arena[s]
          /\ Len(arena) + 1 \in 1..Len(arena') /\ arena'[Len(arena) + 1] = r
    BY DEF r
  <1>3. arena \in Seq(Seq(Int))
    BY DEF EdgeLists
  <1>4. /\ arena' \in Seq(Seq(Int)) /\ Len(arena) \in Nat /\ Len(arena') = Len(arena) + 1
        /\ \A s \in 1..Len(arena) : s \in 1..Len(arena') /\ arena'[s] = arena[s]
        /\ Len(arena) + 1 \in 1..Len(arena') /\ arena'[Len(arena) + 1] = r
    BY <1>1, <1>2, <1>3, Zenon
  <1>5. \A z \in Nat : \A y \in 1..z : y # z + 1
    OBVIOUS
  <1> QED
    BY <1>1, <1>4, <1>5, Zenon DEF EdgeLists, ArenaKept

\* Room in a new slab is apart from all there was.
LEMMA SlabApart ==
  ASSUME EdgeLists, NEW k \in Nat, arena' = Append(arena, [p \in 1..k |-> 0]),
         NEW t, t.slab = Len(arena) + 1, NEW n
  PROVE  \A s : \A m \in Nat : Inside(s, m) => Apart(t, n, s, m)
  <1>1. \A c : c.slab \in 1..Len(arena) => c.slab # Len(arena) + 1
    BY AppendSlab
  <1> QED
    BY <1>1 DEF Inside, Apart

\* Chunks that fitted fit in a longer arena.
LEMMA ChunksLonger ==
  ASSUME Chunks, ArenaKept, EdgeLists', NEW w \in Checkers, Else(w), chunk' = chunk, pool' = pool, chunk[w] = Nil
  PROVE  Chunks'
  <1>1. \A c \in Chunk : ChunkFits(c) => ChunkFits(c)'
    BY DEF ChunkFits, ArenaKept
  <1>2. \A c \in pool : ChunkFits(c)'
    BY <1>1 DEF Chunks, ChunkFits
  <1>3. \A v \in Checkers : chunk[v] # Nil => stage'[v] = "cut" /\ ChunkFits(chunk[v])'
    <2>1. ASSUME NEW v \in Checkers, chunk[v] # Nil, NEW c, c = chunk[v]
          PROVE  stage'[v] = "cut" /\ ChunkFits(c)'
      <3>1. stage[v] = "cut" /\ ChunkFits(c) /\ c \in Chunk
        BY <2>1 DEF Chunks, ChunkFits
      <3> QED
        BY <1>1, <2>1, <3>1 DEF Else
    <2> QED
      BY <2>1 DEF ChunkFits
  <1>4. arena' \in Seq(Seq(Int))
    BY DEF EdgeLists
  <1> QED
    BY <1>2, <1>3, <1>4 DEF Chunks, ChunkFits

\* More than a slab holds: a slab of its own.
LEMMA AllocSlab ==
  ASSUME Still, TableHalf, EdgeHalf, NEW w \in Checkers, Alloc(w), stage'[w] = "link", Room(w) # 0
  PROVE  Lasting
  <1>0. PICK t, n : t = [slab |-> Len(arena) + 1, pos |-> 0] /\ n = Room(w)
    OBVIOUS
  <1>1. /\ stage[w] = "alloc" /\ job'[w] = [job[w] EXCEPT !.span = t] /\ Else(w)
        /\ arena' = Append(arena, [p \in 1..n |-> 0]) /\ UNCHANGED <<pool, chunk>>
        /\ UNCHANGED <<store, slots, used, holder, created, slabs, heap, want, probe, crashed>>
    BY <1>0 DEF Alloc, tableState, Still, Else
  <1>2. EdgeLists /\ chunk[w] = Nil
    BY <1>1 DEF EdgeHalf, Chunks, EdgeLists
  <1>3. job[w] \in JobType /\ job[w].oid \in Names
    BY <1>1 DEF EdgeHalf, Jobs, JobFits, JobType
  <1>4. n \in Nat
    <2>1. store.links[job[w].oid] \in Seq(Link) /\ store.gitlinks[job[w].oid] \in Nat
      BY <1>3 DEF Still, Store
    <2>2. \A a, b \in Nat : a + b \in Nat
      OBVIOUS
    <2> QED
      BY <1>0, <2>1, <2>2, LenFacts, Zenon DEF Room
  <1>5. Room(w)' = n
    BY <1>0, <1>1, <1>3 DEF Room, JobType
  <1>6. /\ EdgeLists' /\ Len(arena) \in Nat /\ Len(arena') = Len(arena) + 1
        /\ (\A s \in 1..Len(arena) : s \in 1..Len(arena') /\ arena'[s] = arena[s])
        /\ ArenaKept /\ Len(arena) + 1 \in 1..Len(arena') /\ Len(arena'[Len(arena) + 1]) = n
        /\ \A c : c.slab \in 1..Len(arena) => c.slab # Len(arena) + 1
    BY <1>1, <1>2, <1>4, AppendSlab
  <1>7. Chunks'
    BY <1>1, <1>2, <1>6, ChunksLonger DEF EdgeHalf
  <1>8. ChunksGrow
    <2>1. \A c \in Open : c.used <= c.used
      BY OpenTypes DEF EdgeHalf
    <2> QED
      BY <1>1, <2>1 DEF ChunksGrow, Open
  <1>9. t \in [slab : Nat, pos : Nat] /\ t.slab = Len(arena) + 1 /\ t.pos = 0
    BY <1>0, <1>6
  <1>10. \A c \in Open' : CutPast(c, t, n)
    <2>1. \A c \in Open : c.slab \in 1..Len(arena)
      BY DEF EdgeHalf, Chunks, ChunkFits, Open
    <2>2. Open' = Open
      BY <1>1 DEF Open
    <2> QED
      BY <1>6, <1>9, <2>1, <2>2 DEF CutPast
  <1>11. \A s : \A m \in Nat : Inside(s, m) => Apart(t, n, s, m)
    BY <1>1, <1>2, <1>4, <1>9, SlabApart
  <1>12. Inside(t, Room(w))'
    <2>1. 0 + n <= n
      BY <1>4
    <2> QED
      BY <1>5, <1>6, <1>9, <2>1 DEF Inside
  <1>13. NewRoom(w, t)
    BY <1>0, <1>1, <1>6, <1>7, <1>8, <1>9, <1>10, <1>11, <1>12 DEF NewRoom
  <1> QED
    BY <1>1, <1>13, NewRoomLasting

\* A chunk leaves the pool for a worker, or none does.
LEMMA AllocChunk ==
  ASSUME Still, TableHalf, EdgeHalf, NEW w \in Checkers, Alloc(w), stage'[w] # "link"
  PROVE  Lasting
  <1>1. /\ stage[w] = "alloc" /\ stage'[w] = "cut" /\ Room(w) \in 1..EdgeSlabSize /\ job' = job /\ arena' = arena
        /\ Else(w) /\ UNCHANGED <<store, slots, used, holder, created, slabs, heap, want, probe, crashed>>
        /\ \/ \E c \in pool : pool' = pool \ {c} /\ chunk' = [chunk EXCEPT ![w] = c]
           \/ UNCHANGED <<pool, chunk>>
    BY DEF Alloc, tableState, Still, Else
  <1>2. chunk[w] = Nil /\ chunk = [v \in Checkers |-> chunk[v]]
    BY <1>1 DEF EdgeHalf, Chunks, Still
  <1>3. NobodyClaims
    BY <1>1 DEF NobodyClaims, Locking, Else
  <1>4. TableHalf' /\ InTable' = InTable /\ \A i : At(i)' = At(i)
    BY <1>1, <1>3, QuietTable
  <1>5. /\ Grows /\ (\A i \in InTable : At(i)'.edges = At(i).edges)
        /\ \A i \in InTable' : i \notin InTable => At(i)'.edges = Nil
    BY <1>4, EntriesSame
  <1>6. \A c : ChunkFits(c)' <=> ChunkFits(c)
    BY <1>1 DEF ChunkFits
  <1>7. Chunks' /\ Open' \subseteq Open
    <2>1. CASE UNCHANGED <<pool, chunk>>
      BY <1>1, <1>2, <2>1 DEF EdgeHalf, Chunks, ChunkFits, Else, Open
    <2>2. ASSUME NEW c \in pool, pool' = pool \ {c}, chunk' = [chunk EXCEPT ![w] = c]
          PROVE  Chunks' /\ Open' \subseteq Open
      <3>1. ChunkFits(c) /\ \A d \in pool : c.slab = d.slab => c = d
        BY <2>2 DEF EdgeHalf, Chunks
      <3>2. chunk'[w] = c /\ \A v \in Checkers \ {w} : chunk'[v] = chunk[v] /\ stage'[v] = stage[v]
        BY <1>1, <1>2, <2>2 DEF Else
      <3>3. \A v \in Checkers \ {w} : chunk[v] # Nil =>
              /\ stage[v] = "cut" /\ ChunkFits(chunk[v]) /\ \A d \in pool : d.slab # chunk[v].slab
              /\ \A u \in Checkers \ {v} : chunk[u] # Nil => chunk[u].slab # chunk[v].slab
        BY DEF EdgeHalf, Chunks
      <3>4. \A v \in Checkers : chunk'[v] # Nil =>
              /\ stage'[v] = "cut" /\ ChunkFits(chunk'[v]) /\ \A d \in pool' : d.slab # chunk'[v].slab
              /\ \A u \in Checkers \ {v} : chunk'[u] # Nil => chunk'[u].slab # chunk'[v].slab
        BY <1>1, <2>2, <3>1, <3>2, <3>3
      <3>5. (\A d \in pool' : ChunkFits(d)) /\ \A d, e \in pool' : d.slab = e.slab => d = e
        BY <2>2 DEF EdgeHalf, Chunks
      <3>6. arena' \in Seq(Seq(Int))
        BY <1>1 DEF EdgeHalf, Chunks
      <3>7. Chunks'
        BY <1>1, <3>4, <3>5, <3>6 DEF Chunks, ChunkFits
      <3>8. Open' \subseteq Open
        BY <2>2, <3>2 DEF Open
      <3> QED
        BY <3>7, <3>8
    <2> QED
      BY <1>1, <2>1, <2>2
  <1>8. ArenaKept /\ ChunksGrow /\ \A s, n : Intact(s, n)
    <2>1. \A c \in Open : c.used <= c.used
      BY OpenTypes DEF EdgeHalf
    <2> QED
      BY <1>1, <1>7, <2>1 DEF ArenaKept, ChunksGrow, Intact
  <1>9. JobFits(w)' /\ ~Linking(w)'
    <2>1. JobFits(w) /\ job[w] \in JobType /\ job[w].span = Nil /\ job[w].n = 0
          /\ job[w].idx \in InTable /\ At(job[w].idx).hash = job[w].oid
      BY <1>1 DEF EdgeHalf, Jobs, JobFits, Placed
    <2>2. Room(w)' = Room(w) /\ job'[w] = job[w]
      BY <1>1 DEF Room
    <2>3. \A i : i = job'[w].idx => i \in InTable' /\ At(i)'.hash = job'[w].oid
      BY <1>4, <2>1, <2>2
    <2>4. (job[w].idx \in InTable /\ At(job[w].idx).hash = job[w].oid)'
      BY <2>3
    <2> QED
      BY <1>1, <2>1, <2>2, <2>4 DEF JobFits, Linking, Seeking, Locking, Placed
  <1>10. Careful(w)
    BY <1>1, <1>5, <1>7, <1>8, <1>9 DEF Careful
  <1>11. EdgeHalf'
    BY <1>5, <1>9, <1>10, EdgeStep DEF TableHalf
  <1>12. EdgesKept
    BY <1>1, <1>5 DEF EdgesKept
  <1> QED
    BY <1>4, <1>5, <1>11, <1>12 DEF Lasting

\* The room is cut from the chunk in hand, which goes back to the pool with no
\* less cut from it.
LEMMA CutChunk ==
  ASSUME Still, TableHalf, EdgeHalf, NEW w \in Checkers, Cut(w),
         chunk[w] # Nil, chunk[w].used + Room(w) <= EdgeSlabSize
  PROVE  Lasting
  <1>0. PICK c, t, n, d : /\ c = chunk[w] /\ t = [slab |-> c.slab, pos |-> c.used] /\ n = Room(w)
                          /\ d = Advance(c, n)
    OBVIOUS
  <1>1. /\ stage[w] = "cut" /\ stage'[w] = "link" /\ job'[w] = [job[w] EXCEPT !.span = t]
        /\ Else(w) /\ UNCHANGED <<store, slots, used, holder, created, slabs, heap, want, probe, crashed>>
        /\ arena' = arena /\ pool' = pool \cup {d} /\ chunk' = [chunk EXCEPT ![w] = Nil]
    BY <1>0 DEF Cut, tableState, Still, Else
  <1>2. /\ ChunkFits(c) /\ c \in Chunk /\ c.slab \in Nat /\ c.used \in Nat /\ c.slab \in 1..Len(arena)
        /\ Len(arena[c.slab]) = EdgeSlabSize
        /\ chunk = [v \in Checkers |-> chunk[v]] /\ c \in Open
        /\ \A e \in pool : e.slab # c.slab
        /\ \A v \in Checkers \ {w} : chunk[v] # Nil => chunk[v].slab # c.slab
    BY <1>0 DEF EdgeHalf, Chunks, ChunkFits, Chunk, Still, Open
  <1>3. n \in 1..EdgeSlabSize /\ n \in Nat /\ EdgeSlabSize \in Nat /\ job[w] \in JobType
    BY <1>0, <1>1, SizeFacts DEF EdgeHalf, Jobs, JobFits
  <1>4. Room(w)' = n
    BY <1>0, <1>1, <1>3 DEF Room, JobType
  <1>5. d \in Chunk /\ d.slab = c.slab /\ d.used = c.used + n /\ c.used <= d.used /\ d.used <= EdgeSlabSize
    BY <1>0, <1>2, <1>3 DEF Advance, Chunk
  <1>6. t \in [slab : Nat, pos : Nat] /\ t.slab = c.slab /\ t.pos = c.used
    BY <1>0, <1>2
  <1>7. Chunks' /\ ChunksGrow /\ \A e \in Open' : e = d \/ (e \in Open /\ e.slab # c.slab)
    <2>1. chunk'[w] = Nil /\ \A v \in Checkers \ {w} : chunk'[v] = chunk[v] /\ stage'[v] = stage[v]
      BY <1>1, <1>2 DEF Else
    <2>2. ChunkFits(d)
      BY <1>2, <1>5 DEF ChunkFits
    <2>3. \A v \in Checkers \ {w} : chunk[v] # Nil =>
            /\ stage[v] = "cut" /\ ChunkFits(chunk[v]) /\ \A e \in pool : e.slab # chunk[v].slab
            /\ \A u \in Checkers \ {v} : chunk[u] # Nil => chunk[u].slab # chunk[v].slab
      BY DEF EdgeHalf, Chunks
    <2>4. \A v \in Checkers : chunk'[v] # Nil =>
            /\ stage'[v] = "cut" /\ ChunkFits(chunk'[v]) /\ \A e \in pool' : e.slab # chunk'[v].slab
            /\ \A u \in Checkers \ {v} : chunk'[u] # Nil => chunk'[u].slab # chunk'[v].slab
      BY <1>1, <1>2, <1>5, <2>1, <2>3
    <2>5. (\A e \in pool' : ChunkFits(e)) /\ \A e, f \in pool' : e.slab = f.slab => e = f
      BY <1>1, <1>2, <1>5, <2>2 DEF EdgeHalf, Chunks
    <2>6. arena' \in Seq(Seq(Int))
      BY <1>1 DEF EdgeHalf, Chunks
    <2>7. Chunks'
      BY <1>1, <2>4, <2>5, <2>6 DEF Chunks, ChunkFits
    <2>8. \A e \in Open' : e = d \/ (e \in Open /\ e.slab # c.slab)
      BY <1>1, <1>2, <2>1 DEF Open
    <2>9. \A e \in Open : e.used <= e.used
      BY OpenTypes DEF EdgeHalf
    <2>10. ChunksGrow
      BY <1>2, <1>5, <2>8, <2>9 DEF ChunksGrow
    <2> QED
      BY <2>7, <2>8, <2>10
  <1>8. ArenaKept /\ \A s \in 1..Len(arena) : arena'[s] = arena[s]
    BY <1>1 DEF ArenaKept
  <1>9. Inside(t, Room(w))'
    BY <1>0, <1>1, <1>2, <1>4, <1>6 DEF Inside
  <1>10. \A e \in Open' : CutPast(e, t, n)
    <2>1. \A a \in Nat : a <= a
      OBVIOUS
    <2> QED
      BY <1>2, <1>3, <1>5, <1>6, <1>7 DEF CutPast
  <1>11. ASSUME NEW s, NEW m \in Nat, s.slab \in Nat, s.pos \in Nat, PastAll(s, m)
         PROVE  Apart(t, n, s, m)
    <2>1. CutPast(c, s, m)
      BY <1>2, <1>11 DEF PastAll
    <2> QED
      BY <1>6, <2>1 DEF CutPast, Apart
  <1>12. NewRoom(w, t)
    BY <1>0, <1>1, <1>6, <1>7, <1>8, <1>9, <1>10, <1>11 DEF NewRoom
  <1> QED
    BY <1>1, <1>12, NewRoomLasting

\* The chunk in hand is too short, or there is none: the room is cut from a new slab.
LEMMA CutSlab ==
  ASSUME Still, TableHalf, EdgeHalf, NEW w \in Checkers, Cut(w),
         ~(chunk[w] # Nil /\ chunk[w].used + Room(w) <= EdgeSlabSize)
  PROVE  Lasting
  <1>0. PICK c, t, n, d : /\ c = [slab |-> Len(arena) + 1, used |-> 0]
                          /\ t = [slab |-> c.slab, pos |-> c.used] /\ n = Room(w) /\ d = Advance(c, n)
    OBVIOUS
  <1>1. /\ stage[w] = "cut" /\ stage'[w] = "link" /\ job'[w] = [job[w] EXCEPT !.span = t]
        /\ Else(w) /\ UNCHANGED <<store, slots, used, holder, created, slabs, heap, want, probe, crashed>>
        /\ arena' = Append(arena, [p \in 1..EdgeSlabSize |-> 0])
        /\ pool' = pool \cup {d} /\ chunk' = [chunk EXCEPT ![w] = Nil]
    BY <1>0 DEF Cut, tableState, Still, Else
  <1>2. n \in 1..EdgeSlabSize /\ n \in Nat /\ EdgeSlabSize \in Nat /\ job[w] \in JobType
    BY <1>0, <1>1, SizeFacts DEF EdgeHalf, Jobs, JobFits
  <1>3. Room(w)' = n
    BY <1>0, <1>1, <1>2 DEF Room, JobType
  <1>4. EdgeLists
    BY DEF EdgeHalf, Chunks, EdgeLists
  <1>5. /\ EdgeLists' /\ Len(arena) \in Nat /\ Len(arena') = Len(arena) + 1
        /\ (\A s \in 1..Len(arena) : s \in 1..Len(arena') /\ arena'[s] = arena[s])
        /\ ArenaKept /\ Len(arena) + 1 \in 1..Len(arena') /\ Len(arena'[Len(arena) + 1]) = EdgeSlabSize
        /\ \A e : e.slab \in 1..Len(arena) => e.slab # Len(arena) + 1
    BY <1>1, <1>2, <1>4, AppendSlab
  <1>6. /\ d.slab = Len(arena) + 1 /\ d.used = n /\ d \in Chunk
        /\ t \in [slab : Nat, pos : Nat] /\ t.slab = Len(arena) + 1 /\ t.pos = 0
    BY <1>0, <1>2, <1>5 DEF Advance, Chunk
  <1>7. \A e \in Open : e.slab \in 1..Len(arena) /\ e.slab # d.slab
    <2>1. \A e \in Open : e.slab \in 1..Len(arena)
      BY DEF EdgeHalf, Chunks, ChunkFits, Open
    <2> QED
      BY <1>5, <1>6, <2>1
  <1>8. /\ chunk'[w] = Nil /\ \A v \in Checkers \ {w} : chunk'[v] = chunk[v] /\ stage'[v] = stage[v]
    BY <1>1 DEF Else, Still
  <1>9. \A e \in Open' : e = d \/ e \in Open
    BY <1>1, <1>8 DEF Open
  <1>10. Chunks'
    <2>1. \A e \in Chunk : ChunkFits(e) => ChunkFits(e)'
      BY <1>5 DEF ChunkFits, ArenaKept
    <2>2. ChunkFits(d)'
      BY <1>2, <1>5, <1>6 DEF ChunkFits
    <2>3. \A e \in pool' : ChunkFits(e)'
      BY <1>1, <2>1, <2>2 DEF EdgeHalf, Chunks, ChunkFits
    <2>4. \A e, f \in pool' : e.slab = f.slab => e = f
      BY <1>1, <1>7 DEF EdgeHalf, Chunks, Open
    <2>5. ASSUME NEW v \in Checkers, NEW e, e = chunk'[v], e # Nil
          PROVE  /\ stage'[v] = "cut" /\ ChunkFits(e)' /\ \A f \in pool' : f.slab # e.slab
                 /\ \A u \in Checkers \ {v} : chunk'[u] # Nil => chunk'[u].slab # e.slab
      <3>1. v # w /\ chunk[v] = e /\ e \in Open
        BY <1>8, <2>5 DEF Open
      <3>2. /\ stage[v] = "cut" /\ ChunkFits(e) /\ e \in Chunk /\ \A f \in pool : f.slab # e.slab
            /\ \A u \in Checkers \ {v} : chunk[u] # Nil => chunk[u].slab # e.slab
        BY <2>5, <3>1 DEF EdgeHalf, Chunks, ChunkFits
      <3> QED
        BY <1>1, <1>7, <1>8, <2>1, <3>1, <3>2
    <2>6. arena' \in Seq(Seq(Int))
      BY <1>5 DEF EdgeLists
    <2>7. \A v \in Checkers : chunk'[v] # Nil =>
            /\ stage'[v] = "cut" /\ ChunkFits(chunk[v])' /\ \A f \in pool' : f.slab # chunk'[v].slab
            /\ \A u \in Checkers \ {v} : chunk'[u] # Nil => chunk'[u].slab # chunk'[v].slab
      BY <2>5 DEF ChunkFits
    <2> QED
      BY <2>3, <2>4, <2>6, <2>7 DEF Chunks
  <1>11. ChunksGrow
    <2>1. \A e \in Open : e.used <= e.used
      BY OpenTypes DEF EdgeHalf
    <2>2. ~(d.slab \in 1..Len(arena))
      BY <1>5, <1>6
    <2> QED
      BY <1>9, <2>1, <2>2 DEF ChunksGrow
  <1>12. Inside(t, Room(w))'
    <2>1. 0 + n <= EdgeSlabSize
      BY <1>2
    <2> QED
      BY <1>3, <1>5, <1>6, <2>1 DEF Inside
  <1>13. \A e \in Open' : CutPast(e, t, n)
    <2>1. 0 + n <= n
      BY <1>2
    <2> QED
      BY <1>6, <1>7, <1>9, <2>1 DEF CutPast
  <1>14. \A s : \A m \in Nat : Inside(s, m) => Apart(t, n, s, m)
    BY <1>1, <1>2, <1>4, <1>6, SlabApart
  <1>15. NewRoom(w, t)
    BY <1>0, <1>1, <1>5, <1>6, <1>10, <1>11, <1>12, <1>13, <1>14 DEF NewRoom
  <1> QED
    BY <1>1, <1>15, NewRoomLasting

\* A step that does nothing to the table, and nothing to what the workers have.
LEMMA NothingLasting ==
  ASSUME Still, TableHalf, EdgeHalf,
         UNCHANGED <<store, slots, used, holder, created, slabs, heap, arena, pool, stage, job, want, probe, chunk, crashed>>
  PROVE  Lasting
  <1>1. NobodyClaims
    BY DEF NobodyClaims, Locking
  <1>2. TableHalf' /\ InTable' = InTable /\ \A i : At(i)' = At(i)
    BY <1>1, QuietTable
  <1>3. /\ Grows /\ (\A i \in InTable : At(i)'.edges = At(i).edges)
        /\ \A i \in InTable' : i \notin InTable => At(i)'.edges = Nil
    BY <1>2, EntriesSame
  <1>4. CASE Checkers = {}
    <2>1. Chunks' /\ Jobs' /\ Rooms' /\ WrittenLead'
      BY <1>4 DEF Chunks, Jobs, Rooms, WrittenLead, EdgeHalf, ChunkFits
    <2>2. ArenaKept /\ ChunksGrow /\ \A s, n : Intact(s, n)
      <3>1. \A c \in Open : c.used <= c.used
        BY OpenTypes DEF EdgeHalf
      <3> QED
        BY <3>1 DEF ArenaKept, ChunksGrow, Intact, Open
    <2>3. RecordedLead'
      <3>1. SUFFICES ASSUME NEW i \in InTable', At(i)'.edges # Nil PROVE EdgesFit(i)'
        BY DEF RecordedLead
      <3> QED
        BY <1>2, <1>3, <2>1, <2>2, <3>1, RecordedStay DEF TableHalf
    <2>4. EdgesKept
      BY <1>3 DEF EdgesKept
    <2> QED
      BY <1>2, <1>3, <2>1, <2>3, <2>4 DEF Lasting, EdgeHalf
  <1>5. ASSUME NEW w \in Checkers PROVE Lasting
    <2>1. JobFits(w)' /\ Else(w)
      BY <1>3, JobStays DEF EdgeHalf, Jobs, Else
    <2>2. Linking(w)' => Linking(w) /\ job'[w] = job[w]
      BY DEF Linking, Seeking, Locking
    <2>3. stage[w] # "cut" \/ stage'[w] = "cut"
      OBVIOUS
    <2> QED
      BY <1>2, <1>3, <2>1, <2>2, <2>3, QuietLasting
  <1> QED
    BY <1>4, <1>5

-----------------------------------------------------------------------------
(***************************************************************************)
(* The invariant holds of every behaviour.                                 *)
(***************************************************************************)

LEMMA StillNext ==
  ASSUME Still, TableNext
  PROVE  Still'
  <1>1. CASE TableRest
    BY <1>1 DEF TableRest, tableVars, Still
  <1>2. CASE NextPlace
    <2>1. Tail(queue) \in Seq(Seq(Names))
      BY <1>2 DEF NextPlace, Still
    <2> QED
      BY <1>2, <2>1 DEF NextPlace, Still
  <1>3. ASSUME NEW w \in Checkers, Work(w)
        PROVE  Still'
    <2>1. CASE Take(w)
      <3>1. Head(queue) \in Seq(Names) /\ Head(queue) # << >> /\ queue # << >>
        BY <2>1 DEF Take, Still
      <3>2. Tail(Head(queue)) \in Seq(Names)
        BY <3>1
      <3>3. 1 \in 1..Len(queue) /\ queue[1] = Head(queue)
        BY <3>1 DEF Still
      <3>4. queue' \in Seq(Seq(Names))
        <4>1. queue' = [queue EXCEPT ![1] = Tail(Head(queue))]
          BY <2>1, <3>3 DEF Take
        <4>2. \A S : queue \in Seq(S) /\ Tail(Head(queue)) \in S => queue' \in Seq(S)
          BY <3>3, <4>1, PutFacts
        <4> QED
          BY <3>2, <4>2, Zenon DEF Still
      <3> QED
        BY <2>1, <3>4 DEF Take, Still
    <2>2. CASE LookupOld(w)
      BY <2>2 DEF LookupOld, Answer, Still
    <2>3. CASE LookupNew(w)
      BY <2>3 DEF LookupNew, Still
    <2>4. CASE Claim(w)
      <3>1. (created > MaxIndex) \in BOOLEAN
        BY SMT
      <3>2. crashed' = (created > MaxIndex)
        BY <2>4, Zenon DEF Claim
      <3>3. crashed' \in BOOLEAN
        BY <3>1, <3>2, Zenon
      <3> QED
        BY <2>4, <3>3 DEF Claim, Still
    <2>5. CASE LoadSlabs(w)
      BY <2>5 DEF LoadSlabs, Still
    <2>6. CASE GrowSlabs(w)
      BY <2>6 DEF GrowSlabs, Still
    <2>7. CASE Insert(w)
      BY <2>7 DEF Insert, Answer, Still
    <2>8. CASE ClearSeen(w) \/ SetSeen(w)
      BY <2>8 DEF ClearSeen, SetSeen, Still
    <2>9. CASE Alloc(w)
      BY <2>9 DEF Alloc, Still
    <2>10. CASE Cut(w)
      BY <2>10 DEF Cut, Still
    <2>11. CASE NextLink(w)
      BY <2>11 DEF NextLink, Still
    <2> QED
      BY <1>3, <2>1, <2>2, <2>3, <2>4, <2>5, <2>6, <2>7, <2>8, <2>9, <2>10, <2>11 DEF Work
  <1> QED
    BY <1>1, <1>2, <1>3 DEF TableNext

\* Every step keeps the table in order and the edges leading where they led.
LEMMA TableStep ==
  ASSUME TableInv, [TableNext]_tableVars
  PROVE  TableInv' /\ Lasting
  <1>1. Still /\ TableHalf /\ EdgeHalf
    BY DEF TableInv
  <1>2. CASE UNCHANGED tableVars
    <2>1. Still'
      BY <1>1, <1>2 DEF tableVars, Still
    <2>2. Lasting
      BY <1>1, <1>2, NothingLasting DEF tableVars
    <2> QED
      BY <2>1, <2>2 DEF TableInv, Lasting
  <1>3. CASE TableNext
    <2>1. Still'
      BY <1>1, <1>3, StillNext
    <2>2. CASE TableRest
      <3>1. UNCHANGED <<store, slots, used, holder, created, slabs, heap, arena, pool, stage, job, want,
                        probe, chunk, crashed>>
        BY <2>2 DEF TableRest, tableVars
      <3>2. Lasting
        BY <1>1, <3>1, NothingLasting
      <3> QED
        BY <2>1, <3>2 DEF TableInv, Lasting
    <2>3. CASE NextPlace
      <3>1. UNCHANGED <<store, slots, used, holder, created, slabs, heap, arena, pool, stage, job, want,
                        probe, chunk, crashed>>
        BY <2>3 DEF NextPlace, tableState
      <3>2. Lasting
        BY <1>1, <3>1, NothingLasting
      <3> QED
        BY <2>1, <3>2 DEF TableInv, Lasting
    <2>4. ASSUME NEW w \in Checkers, Work(w)
          PROVE  Lasting
      <3>1. CASE Take(w)
        BY <1>1, <3>1, TakeLasting
      <3>2. CASE LookupOld(w)
        BY <1>1, <3>2, LookupOldLasting
      <3>3. CASE LookupNew(w)
        BY <1>1, <3>3, LookupNewLasting
      <3>4. CASE Claim(w)
        BY <1>1, <2>4, <3>4, ClaimLasting DEF Work
      <3>5. CASE LoadSlabs(w)
        BY <1>1, <3>5, LoadSlabsLasting
      <3>6. CASE GrowSlabs(w)
        BY <1>1, <3>6, GrowSlabsLasting
      <3>7. CASE Insert(w)
        BY <1>1, <3>7, InsertLasting
      <3>8. CASE ClearSeen(w)
        BY <1>1, <3>8, ClearSeenLasting
      <3>9. CASE SetSeen(w)
        BY <1>1, <3>9, SetSeenLasting
      <3>10. CASE Alloc(w)
        BY <1>1, <3>10, AllocNothing, AllocSlab, AllocChunk
      <3>11. CASE Cut(w)
        BY <1>1, <3>11, CutChunk, CutSlab
      <3>12. CASE NextLink(w)
        BY <1>1, <3>12, NextLinkLasting, RecordLasting
      <3> QED
        BY <2>4, <3>1, <3>2, <3>3, <3>4, <3>5, <3>6, <3>7, <3>8, <3>9, <3>10, <3>11, <3>12 DEF Work
    <2>5. Lasting
      BY <1>3, <2>2, <2>3, <2>4 DEF TableNext
    <2> QED
      BY <2>1, <2>5 DEF TableInv, Lasting
  <1> QED
    BY <1>2, <1>3

LEMMA TableStarts ==
  ASSUME TableInit
  PROVE  TableInv
  <1>1. /\ store \in Store /\ queue = store.copies /\ slots = [h \in Shards |-> << >>]
        /\ used = [h \in Shards |-> 0] /\ holder = [h \in Shards |-> Nobody]
        /\ created = 0 /\ slabs = << >> /\ heap = << >> /\ arena = << >> /\ pool = {}
        /\ stage = [w \in Checkers |-> "idle"] /\ job = [w \in Checkers |-> Nil]
        /\ want = [w \in Checkers |-> Nil] /\ probe = [w \in Checkers |-> Nil]
        /\ chunk = [w \in Checkers |-> Nil] /\ crashed = FALSE
    BY ObjTableAssumption DEF TableInit
  <1>2. Still
    BY <1>1 DEF Still, Store
  <1>3. \A h \in Shards : slots[h] = << >> /\ Filled(slots[h]) = {}
    BY <1>1 DEF Filled
  <1>4. InTable = {}
    BY <1>1 DEF InTable
  <1>5. \A i \in Nat : ~Held(i)
    BY <1>1, IndexFacts DEF Held
  <1>6. SlabsListed
    BY <1>1 DEF SlabsListed
  <1>7. ShardsFit
    BY <1>1 DEF ShardsFit
  <1>8. SlotsFit /\ OneSlotEach /\ NoGaps
    BY <1>3 DEF SlotsFit, OneSlotEach, NoGaps, NoGap
  <1>9. ProbesEnd
    BY <1>1, <1>3, FS_EmptySet DEF ProbesEnd, Filled
  <1>10. NewToShard
    BY <1>1 DEF NewToShard, Locking
  <1>11. Numbered
    BY <1>1, SizeFacts DEF Numbered, Claimers
  <1>12. Untouched
    BY <1>5 DEF Untouched
  <1>13. Jobs
    BY <1>1 DEF Jobs, JobFits, Placed, Seeking, Locking
  <1>14. Chunks
    BY <1>1 DEF Chunks
  <1>15. Rooms /\ WrittenLead
    BY <1>1 DEF Rooms, WrittenLead, Linking, Seeking, Locking
  <1>16. RecordedLead
    BY <1>4 DEF RecordedLead
  <1> QED
    BY <1>2, <1>6, <1>7, <1>8, <1>9, <1>10, <1>11, <1>12, <1>13, <1>14, <1>15, <1>16
    DEF TableInv, TableHalf, InOrder, EdgeHalf

\* The invariant of the object table.
THEOREM TableInOrder == TableSpec => []TableInv
  <1>1. TableInit => TableInv
    BY TableStarts
  <1>2. TableInv /\ [TableNext]_tableVars => TableInv'
    BY TableStep
  <1> QED
    BY <1>1, <1>2, PTL DEF TableSpec

-----------------------------------------------------------------------------
(***************************************************************************)
(* What the invariant shows.                                               *)
(***************************************************************************)

\* Every index claimed is in one slot, or in the hands of one worker.
LEMMA IndexesCounted ==
  ASSUME TableInv
  PROVE  Cardinality(InTable) + Cardinality(Claimers) = created
  <1> DEFINE P == {probe[w] : w \in Claimers}
             f == [w \in Claimers |-> probe[w]]
  <1>1. created \in Nat
    BY DEF TableInv, TableHalf, Numbered
  <1>2. \A i \in InTable : i \in Nat /\ i < created
    BY SlotOfIndex DEF TableInv, TableHalf
  <1>3. \A w \in Claimers : probe[w] \in Nat /\ probe[w] < created /\ probe[w] \notin InTable
    BY DEF TableInv, TableHalf, Numbered
  <1>4. IsFiniteSet(0..(created - 1)) /\ Cardinality(0..(created - 1)) = created
    <2>1. 0 \in Int /\ created - 1 \in Int
      BY <1>1
    <2>2. /\ IsFiniteSet(0..(created - 1))
          /\ Cardinality(0..(created - 1)) = IF 0 > created - 1 THEN 0 ELSE created - 1 - 0 + 1
      BY <2>1, FS_Interval
    <2> QED
      BY <1>1, <2>2
  <1>5. InTable \cup P = 0..(created - 1)
    <2>1. ASSUME NEW i \in 0..(created - 1) PROVE i \in InTable \cup P
      <3>1. i \in Nat /\ i < created
        BY <1>1
      <3> QED
        BY <3>1 DEF TableInv, TableHalf, Numbered
    <2> QED
      BY <1>1, <1>2, <1>3, <2>1
  <1>6. InTable \cap P = {}
    BY <1>3
  <1>7. IsFiniteSet(InTable) /\ IsFiniteSet(P)
    BY <1>4, <1>5, FS_Subset
  <1>8. Cardinality(InTable) + Cardinality(P) = created
    <2>1. Cardinality(InTable \cup P) = Cardinality(InTable) + Cardinality(P) - Cardinality(InTable \cap P)
      BY <1>7, FS_Union
    <2>2. Cardinality(InTable) \in Nat /\ Cardinality(P) \in Nat /\ Cardinality(InTable \cap P) = 0
      BY <1>6, <1>7, FS_CardinalityType, FS_EmptySet
    <2>3. PICK a, b, c : a = Cardinality(InTable) /\ b = Cardinality(P) /\ c = Cardinality(InTable \cap P)
      OBVIOUS
    <2>4. created = a + b - c
      BY <1>4, <1>5, <2>1, <2>3, Zenon
    <2>5. a \in Nat /\ b \in Nat /\ c = 0
      BY <2>2, <2>3, Zenon
    <2>6. a + b = created
      BY <1>1, <2>4, <2>5
    <2> QED
      BY <2>3, <2>6, Zenon
  <1>9. Cardinality(P) = Cardinality(Claimers)
    <2>1. f \in [Claimers -> P] /\ (\A p \in P : \E w \in Claimers : f[w] = p)
          /\ \A v, w \in Claimers : f[v] = f[w] => v = w
      BY DEF TableInv, TableHalf, Numbered
    <2>2. f \in Surjection(Claimers, P)
      BY <2>1 DEF Surjection
    <2>3. f \in Injection(Claimers, P)
      BY <2>1 DEF Injection, IsInjective
    <2>4. f \in Bijection(Claimers, P)
      BY <2>2, <2>3 DEF Bijection
    <2>5. IsFiniteSet(Claimers)
      BY FS_Subset, ObjTableAssumption DEF Claimers
    <2> QED
      BY <2>4, <2>5, FS_Bijection DEF ExistsBijection
  <1> QED
    BY <1>8, <1>9

LEMMA InvFinds ==
  ASSUME TableInv
  PROVE  TableFinds
  <1>1. Cardinality(InTable) + Cardinality({w \in Checkers : stage[w] \in {"load", "grow", "insert"}}) = created
    BY IndexesCounted DEF Claimers
  <1>2. ASSUME NEW i \in InTable
        PROVE  SlabOf(i) <= Len(slabs) /\ At(i).hash # Nil /\ Get(At(i).hash) = i
    <2>1. Held(i) /\ At(i).hash \in Names
      BY EntryTypes DEF TableInv, TableHalf
    <2> QED
      BY <2>1, GetThat, ObjTableAssumption DEF TableInv, TableHalf, Held
  <1> QED
    BY <1>1, <1>2 DEF TableFinds

LEMMA InvTypes ==
  ASSUME TableInv
  PROVE  TableTypeOK
  <1>1. store \in Store /\ queue \in Seq(Seq(Names)) /\ crashed \in BOOLEAN
        /\ stage \in [Checkers -> {"idle", "lookup", "claim", "load", "grow", "insert",
                                   "clear", "seen", "alloc", "cut", "link"}]
    BY DEF TableInv, Still
  <1>2. /\ slots \in [Shards -> Seq([key : Nat, idx : Nat])] /\ used \in [Shards -> Nat]
        /\ holder \in [Shards -> Checkers \cup {Nobody}]
    BY DEF TableInv, TableHalf, InOrder, ShardsFit, Slot
  <1>3. created \in 0..(MaxIndex + 2)
    BY SizeFacts DEF TableInv, TableHalf, Numbered
  <1>4. slabs \in Seq(1..Len(heap))
    <2>1. heap \in Seq(Slab) /\ slabs = [k \in 1..Len(heap) |-> k]
      BY DEF TableInv, TableHalf, InOrder, SlabsListed
    <2>2. Len(heap) \in Nat
      BY <2>1, LenFacts
    <2>3. \A n \in Nat : [k \in 1..n |-> k] \in Seq(1..n)
      OBVIOUS
    <2> QED
      BY <2>1, <2>2, <2>3, Zenon
  <1>5. \A c \in pool : c.slab \in 1..Len(arena) /\ c.used \in 0..EdgeSlabSize
    BY SizeFacts DEF TableInv, EdgeHalf, Chunks, ChunkFits, Chunk
  <1> QED
    BY <1>1, <1>2, <1>3, <1>4, <1>5 DEF TableTypeOK

\* A stretch of a sequence.
LEMMA Stretch ==
  ASSUME NEW S, NEW q \in Seq(S), NEW a \in Nat, NEW n \in Nat, n > 0, a + n <= Len(q)
  PROVE  SubSeq(q, a + 1, a + n) = [k \in 1..n |-> q[a + k]]
  OBVIOUS

\* The edges of an entry, as the arena has them.
LEMMA EdgesRead ==
  ASSUME TableInv, NEW i \in InTable, At(i).edges # Nil
  PROVE  /\ At(i).edges.n \in Nat
         /\ Edges(i) = [k \in 1..At(i).edges.n |-> arena[At(i).edges.slab][At(i).edges.pos + k]]
  <1>1. PICK s : s = At(i).edges
    OBVIOUS
  <1>2. /\ s.slab \in Nat /\ s.pos \in Nat /\ s.n \in Nat
    BY <1>1, EntryTypes DEF TableInv, TableHalf, Edged
  <1>3. Inside(s, s.n)
    BY <1>1 DEF TableInv, EdgeHalf, RecordedLead, EdgesFit
  <1>4. CASE s.n = 0
    BY <1>1, <1>4 DEF Edges
  <1>5. CASE s.n # 0
    <2>1. s.n > 0 /\ s.slab \in 1..Len(arena) /\ s.pos + s.n <= Len(arena[s.slab])
      BY <1>2, <1>3, <1>5 DEF Inside
    <2>2. arena[s.slab] \in Seq(Int)
      BY <2>1, LenFacts DEF TableInv, EdgeHalf, Chunks
    <2>3. PICK q, a, n : q = arena[s.slab] /\ a = s.pos /\ n = s.n
      OBVIOUS
    <2>4. q \in Seq(Int) /\ a \in Nat /\ n \in Nat /\ n > 0 /\ a + n <= Len(q)
      BY <1>2, <2>1, <2>2, <2>3
    <2>5. SubSeq(q, a + 1, a + n) = [k \in 1..n |-> q[a + k]]
      BY <2>4, Stretch
    <2>6. Edges(i) = SubSeq(q, a + 1, a + n)
      BY <1>1, <1>5, <2>3 DEF Edges
    <2>7. [k \in 1..n |-> q[a + k]] = [k \in 1..At(i).edges.n |-> arena[At(i).edges.slab][At(i).edges.pos + k]]
      BY <1>1, <2>3, Zenon
    <2> QED
      BY <1>1, <1>2, <2>5, <2>6, <2>7, Zenon
  <1> QED
    BY <1>1, <1>2, <1>4, <1>5

EdgesAsRead ==
  \A i \in InTable : At(i).edges # Nil =>
    /\ At(i).edges.n \in Nat
    /\ Edges(i) = [k \in 1..At(i).edges.n |-> arena[At(i).edges.slab][At(i).edges.pos + k]]

LEMMA AllEdgesRead == TableInv => EdgesAsRead
  BY EdgesRead DEF EdgesAsRead

LEMMA EdgesAsReadNext == TableInv' => EdgesAsRead'
  BY AllEdgesRead, PTL

LEMMA Listing ==
  ASSUME NEW n \in Nat, NEW q, q = [k \in 1..n |-> q[k]]
  PROVE  Len(q) = n
  OBVIOUS

\* What is recorded for an entry leads where its links ask.
LEMMA InvLeads ==
  ASSUME TableInv
  PROVE  EdgesLead
  <1>1. ASSUME NEW i \in InTable, At(i).edges # Nil, NEW l, l = store.links[At(i).hash],
               NEW e, e = Edges(i)
        PROVE  /\ Len(e) = Len(l)
               /\ \A k \in 1..Len(l) :
                    IF e[k] = Unresolved
                    THEN Get(l[k].oid) # Nil /\ At(Get(l[k].oid)).typ \notin {NoType, l[k].typ}
                    ELSE /\ e[k] \in InTable /\ At(e[k]).hash = l[k].oid
                         /\ l[k].typ \in {AnyType, At(e[k]).typ}
    <2>1. PICK s, n, a : s = At(i).edges /\ n = s.n /\ a = arena[s.slab]
      OBVIOUS
    <2>2. n \in Nat /\ e = [k \in 1..n |-> a[s.pos + k]]
      BY <1>1, <2>1, EdgesRead
    <2>3. n = Len(l) /\ \A k \in 1..n : Leads(l[k], a[s.pos + k])
      BY <1>1, <2>1 DEF TableInv, EdgeHalf, RecordedLead, EdgesFit
    <2>4. \A k \in 1..n : e[k] = a[s.pos + k]
      BY <2>2
    <2>5. Len(e) = n
      <3>1. e = [k \in 1..n |-> e[k]]
        BY <2>2, <2>4
      <3> QED
        BY <2>2, <3>1, Listing
    <2>6. ASSUME NEW k \in 1..Len(l), e[k] = Unresolved
          PROVE  Get(l[k].oid) # Nil /\ At(Get(l[k].oid)).typ \notin {NoType, l[k].typ}
      <3>1. Leads(l[k], Unresolved)
        BY <2>3, <2>4, <2>6
      <3>2. PICK j \in InTable : At(j).hash = l[k].oid /\ At(j).typ \notin {NoType, l[k].typ}
        BY <3>1 DEF Leads
      <3>3. Get(l[k].oid) = j /\ j \in Nat
        BY <3>2, GetThat, EntryTypes DEF TableInv, TableHalf
      <3> QED
        BY <3>2, <3>3, ObjTableAssumption
    <2>7. ASSUME NEW k \in 1..Len(l), e[k] # Unresolved
          PROVE  e[k] \in InTable /\ At(e[k]).hash = l[k].oid /\ l[k].typ \in {AnyType, At(e[k]).typ}
      BY <2>3, <2>4, <2>7 DEF Leads
    <2> QED
      BY <2>3, <2>5, <2>6, <2>7
  <1> QED
    BY <1>1 DEF EdgesLead

\* What a step leaves of an entry.
LEMMA StepStays ==
  ASSUME TableInv, [TableNext]_tableVars, NEW i \in InTable
  PROVE  /\ At(i)'.hash = At(i).hash
         /\ At(i).typ # NoType => At(i)'.typ = At(i).typ
         /\ At(i).edges # Nil => Edges(i)' = Edges(i)
  <1>1. TableInv' /\ Lasting
    BY TableStep
  <1>2. /\ i \in InTable' /\ At(i)'.hash = At(i).hash
        /\ At(i).typ # NoType => At(i)'.typ = At(i).typ
    BY <1>1 DEF Lasting, Grows
  <1>3. ASSUME At(i).edges # Nil
        PROVE  Edges(i)' = Edges(i)
    <2>1. /\ At(i)'.edges # Nil /\ At(i)'.edges.n = At(i).edges.n
          /\ \A k \in 1..At(i).edges.n :
               arena'[At(i)'.edges.slab][At(i)'.edges.pos + k] = arena[At(i).edges.slab][At(i).edges.pos + k]
      BY <1>1, <1>3 DEF Lasting, EdgesKept
    <2>2. Edges(i) = [k \in 1..At(i).edges.n |-> arena[At(i).edges.slab][At(i).edges.pos + k]]
      BY <1>3, EdgesRead
    <2>3. Edges(i)' = [k \in 1..At(i)'.edges.n |-> arena'[At(i)'.edges.slab][At(i)'.edges.pos + k]]
      BY <1>1, <1>2, <2>1, EdgesAsReadNext DEF EdgesAsRead
    <2> QED
      BY <2>1, <2>2, <2>3, Zenon
  <1> QED
    BY <1>2, <1>3

\* However the workers interleave and the shards and the list of slabs grow,
\* the table finds every object it holds under the one index it has, no index
\* is lost or given twice, and a probe always meets an empty slot (Lookup, Get,
\* newEntry, growSlabs, grow).
THEOREM TableFindsItsObjects == TableSpec => []Bookkeeping
  <1>1. TableInv => Bookkeeping
    BY InvTypes, InvFinds DEF Bookkeeping, TableInv, TableHalf, InOrder
  <1> QED
    BY <1>1, TableInOrder, PTL

\* The edges recorded for an object are the ones its walk found, in order, and
\* none is another worker's, whatever was cut from the same slab (alloc, Lookup,
\* SetEdges, Edges).
THEOREM EdgesLeadRight == TableSpec => []EdgesLead
  <1>1. TableInv => EdgesLead
    BY InvLeads
  <1> QED
    BY <1>1, TableInOrder, PTL

\* No step takes the name, the type or the edges of an entry away, not the
\* second walk of an object either, which writes its edges anew (At, SetType,
\* SetEdges, growSlabs).
THEOREM EntriesStayPut == TableSpec => EntriesStay
  <1>1. TableInv /\ [TableNext]_tableVars =>
          [\A i \in InTable :
             /\ At(i)'.hash = At(i).hash
             /\ At(i).typ # NoType => At(i)'.typ = At(i).typ
             /\ At(i).edges # Nil => Edges(i)' = Edges(i)]_tableVars
    BY StepStays
  <1> QED
    BY <1>1, TableInOrder, PTL DEF TableSpec, EntriesStay
=============================================================================
