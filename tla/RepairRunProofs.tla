--------------------------- MODULE RepairRunProofs ---------------------------
(***************************************************************************)
(* Proofs about RepairRun, for every repository, damage, number of runs    *)
(* and kills.                                                              *)
(***************************************************************************)
EXTENDS RepairRun, FiniteSetTheorems, NaturalsInduction, TLAPS

(***************************************************************************)
(* The inductive invariants.                                               *)
(***************************************************************************)

Early == {"scan", "derived", "packs", "rescue", "displace", "rescan", "prefs", "prefsTaken"}
Passing == {"prime", "ladder", "take", "descend"}
Late == {"refs", "refTaken", "refCreated", "index", "indexTaken", "verify"}

\* What a run works on at each place.
Kinds ==
  /\ pc = "derived" => todo \subseteq Caches \cup {PacksList}
  /\ pc \in {"packs", "rescue", "displace"} => todo \subseteq Packs
  /\ pc \in {"prime", "ladder", "take"} => todo \subseteq Objects
  /\ pc \in {"refs", "refTaken", "refCreated"} => todo \subseteq Refs
  /\ pc \in {"rescue", "displace", "take", "refTaken", "refCreated"} => cur \in todo
  /\ pc \in {"refTaken", "refCreated"} => Usable(cur) # {}
  /\ pc = "descend" => todo = {}
  /\ finished => pc = "idle"
  /\ pc \in Early => result.unrec = {} /\ remote = Rung!NoRung
  /\ pc = "idle" => remote = Rung!NoRung

\* A pack that is being emptied has its objects inside or loose.
Emptying ==
  /\ pc = "rescue" =>
       /\ Opens(cur) /\ inside \subseteq Yield(cur)
       /\ disk.pack[cur] = "headless" => \A o \in Objects : disk.entry[cur][o] = "none"
       /\ \A o \in Yield(cur) \ inside : disk.loose[o] = "good"
  /\ pc = "displace" => disk.pack[cur] = "halfgone"

\* A damaged pack is still to be looked at, or is refused, or has gone.
Packwise ==
  /\ pc = "derived" => \A p \in Packs : PackBad(p) => p \in dmg.packs
  /\ pc \in {"packs", "rescue", "displace"} =>
       \A p \in Packs : PackBad(p) => p \in todo \cup result.refused
  /\ pc \in {"rescan", "prefs", "prefsTaken"} \cup Passing =>
       \A p \in Packs : PackBad(p) => p \in result.refused

\* What the run has taken is not where it was, or is not to be taken again.
KeptTrue ==
  /\ pc = "scan" => kept = {}
  /\ pc = "derived" => \A c \in todo : <<"cache", c>> \notin kept
  /\ \A p \in Packs : <<"pack", p>> \in kept => disk.pack[p] \in {"halfgone", "gone"}
  /\ \A p \in Packs : <<"idx", p>> \in kept => disk.pack[p] = "gone"
  /\ <<"packed-refs">> \in kept => disk.prefs # "bad"
  /\ \A o \in Objects : <<"alt", o>> \in kept => disk.alt[o] = "none"
  /\ \A o \in Objects : <<"loose", o>> \in kept => disk.loose[o] # "bad"
  /\ \A f \in Refs : <<"ref", f>> \in kept =>
       /\ pc \notin Early \cup Passing
       /\ pc \in {"refs", "refTaken", "refCreated"} => f \notin todo \/ (pc # "refs" /\ f = cur)
  /\ \A w \in Worktrees : <<"index", w>> \in kept => pc \in {"indexTaken", "verify", "idle"}
  /\ pc \in {"derived", "packs", "rescue", "displace", "prefs"} => (dmg.prefs <=> disk.prefs = "bad")

\* What the list of packs names and is not there the run has taken, once it
\* has looked at the list.
ListTrue ==
  pc \notin {"idle", "scan"} \/ finished =>
    \A p \in disk.list : disk.pack[p] \in {"halfgone", "gone"} =>
      <<"pack", p>> \in kept \/ (pc = "derived" /\ PacksList \in todo)

\* A reference whose line did not read, and that has not come back.
LostLine(f, r) == f \notin r.restored /\ \E i \in DOMAIN r.dropped : f \in r.dropped[i].of

\* What came back was named by a line that did not read.
NamedBack(r) == \A f \in r.restored : \E i \in DOMAIN r.dropped : f \in r.dropped[i].names

\* The references of a repository no run has left, in the first run.
RefsTrue ==
  /\ runs = 0 => disk \in Damages /\ pc = "idle" /\ ~finished
  /\ pc \in Passing \cup Late => disk.prefs # "bad"
  /\ NamedBack(result)
  /\ runs = 1 /\ (pc # "idle" \/ finished) =>
       /\ \A f \in Refs :
            /\ disk.ref[f] = "gone" => LostLine(f, result) \/ (pc = "refTaken" /\ f = cur)
            /\ disk.ref[f] = "garbled" => /\ disk.prefs = "bad" \/ pc = "prefsTaken"
                                          /\ \E i \in DOMAIN disk.lines : f \in disk.lines[i].of
            /\ f \in Packed /\ disk.prefs = "absent" => pc = "prefsTaken"
       /\ disk.prefs = "bad" \/ pc = "prefsTaken" => \A f \in Refs : disk.ref[f] # "gone"
  /\ finished /\ result.clean => disk.prefs # "bad" /\ \A f \in Refs : disk.ref[f] # "malformed"

-----------------------------------------------------------------------------
\* S is what the roots lead to when the objects of B do not read.
Spans(S, B) ==
  /\ roots \subseteq S /\ B \subseteq S /\ S \subseteq Objects
  /\ \A o \in S \ B : Links[o] \subseteq S
  /\ \A T \in SUBSET Objects :
       roots \subseteq T /\ (\A o \in T \cap (S \ B) : Links[o] \subseteq T) => S \subseteq T

\* S is what the roots lead to, and what does not read of it is B.
Exactly(S, B) == Spans(S, B) /\ \A o \in S : Reads(o) <=> o \notin B

\* The last scan still holds.
Fresh ==
  /\ pc \in {"packs", "rescue", "displace"} => todo \subseteq dmg.packs
  /\ pc \in {"derived", "prefs"} \/ (pc = "packs" /\ dmg.packs = {}) => Exactly(seen, dmg.objs)

\* What did not read when the pass began.
Before == IF pc = "prime" THEN todo ELSE todo \cup stuck \cup back

\* No source has the object, nor will have it.
Lost(o) ==
  \/ o \in done
  \/ ~Local(o) /\ o \notin remote.got /\ (remote.all \/ remote.failed)

\* The walk of the last scan or descent, and how far the pass is.
Pass ==
  pc \in Passing =>
    /\ Spans(seen, Before)
    /\ \A o \in seen \ Before : Reads(o)
    /\ pc = "prime" => (\A o \in todo : ~Reads(o)) /\ result.unrec \subseteq todo
    /\ pc # "prime" =>
         /\ stuck \cap (todo \cup back) = {} /\ todo \cap back = {}
         /\ \A o \in (todo \cup stuck) \ (IF pc = "take" THEN {cur} ELSE {}) : ~Reads(o)
         /\ \A o \in stuck : Lost(o)
    /\ pc # "descend" => \A o \in todo \ dmg.objs : Lost(o)
    /\ pc \in {"ladder", "take"} => \A o \in todo \ (IF pc = "take" THEN {cur} ELSE {}) :
         Local(o) \/ o \in remote.got \/ remote.all \/ remote.failed
    /\ pc = "take" => /\ cur \in dmg.objs \ done
                      /\ disk.loose[cur] # "none" => ~Reads(cur)
    /\ pc = "descend" => result.unrec = stuck

\* What has been put back is there as a file.
PutBack ==
  /\ pc \in Early \cup {"idle"} => done = {}
  /\ \A o \in done : disk.loose[o] = "good"

\* The object has been put back, or is going to be.
Restored(x) == x \in done \/ (pc \in {"ladder", "take"} /\ x \in todo)

\* What was sent lies below a name that was asked for, and so does what a
\* fetch of every ref left out.
Sent ==
  pc \in Passing =>
    \A y \in Remote :
      (~remote.all /\ ~remote.failed /\ y \in remote.got) \/ (remote.all /\ y \notin remote.got)
        => \E x \in Remote \cap remote.got : Restored(x) /\ y \in Rung!Below({x})

\* The object was given up for a reason.
GivenUp(o) ==
  \/ Holders(o) # {}
  \/ /\ ~FromDuplicate(o)
     /\ FromIndex(o) => \E w \in Worktrees : <<"index", w>> \in kept
     /\ o \in Remote =>
          \/ result.remoteErr
          \/ \E x \in Remote \ {o} : disk.loose[x] = "good" /\ o \in Rung!Below({x})

\* The end of a run.
Ending ==
  /\ pc \in Late => Exactly(seen, result.unrec)
  /\ pc \in Late \/ finished => \A o \in result.unrec : GivenUp(o)
  /\ pc = "indexTaken" => \E w \in Worktrees : <<"index", w>> \in kept
  /\ ReportExact

-----------------------------------------------------------------------------
(***************************************************************************)
(* The operators.                                                          *)
(***************************************************************************)

\* A set of numbers has a smallest one.
LEMMA Smallest ==
  ASSUME NEW T, T \subseteq Nat, T # {}
  PROVE  \E x \in T : \A y \in T : x <= y
<1> DEFINE R == {ss \in Nat \X Nat : ss[1] < ss[2]}
<1>1. IsWellFoundedOn(R, Nat)
  BY NatLessThanWellFounded DEF OpToRel
<1>2. \A x, y \in Nat : y < x => <<y, x>> \in R
  OBVIOUS
<1> HIDE DEF R
<1>3. PICK x \in T : \A y \in T : ~ (<<y, x>> \in R)
  BY <1>1, WFMin
<1>4. ASSUME NEW y \in T PROVE x <= y
  <2>1. x \in Nat /\ y \in Nat /\ ~(y < x)
    BY <1>2, <1>3
  <2> QED
    BY <2>1
<1> QED
  BY <1>4

\* The first of a set is in it (First).
LEMMA FirstIn ==
  ASSUME NEW S, S \subseteq Nat, S # {}
  PROVE  First(S) \in S /\ \A y \in S : First(S) <= y
<1>1. \E x \in S : \A y \in S : x <= y
  BY Smallest
<1> QED
  BY <1>1 DEF First

\* And a bounded set of numbers has a largest one.
LEMMA Largest ==
  ASSUME NEW n \in Nat, NEW T, T \subseteq 1 .. n, T # {}
  PROVE  \E x \in T : \A y \in T : y <= x
<1> DEFINE U == {n - x : x \in T}
<1>1. U \subseteq Nat /\ U # {}
  <2>1. \A x \in T : x \in 1 .. n
    OBVIOUS
  <2>2. \A x \in 1 .. n : n - x \in Nat
    OBVIOUS
  <2>3. \E x : x \in T
    OBVIOUS
  <2> QED
    BY <2>1, <2>2, <2>3
<1>2. PICK u \in U : \A v \in U : u <= v
  BY <1>1, Smallest
<1>3. PICK x \in T : u = n - x
  BY <1>2
<1>4. ASSUME NEW y \in T PROVE y <= x
  <2>1. n - y \in U
    OBVIOUS
  <2>2. n - x <= n - y
    BY <1>2, <1>3, <2>1
  <2>3. x \in 1 .. n /\ y \in 1 .. n
    OBVIOUS
  <2> QED
    BY <2>2, <2>3
<1> QED
  BY <1>4

\* The newest value of a reflog that reads is one of its values, and reads
\* (lastGoodValue).
LEMMA NewestReads ==
  ASSUME NEW f \in Refs, Usable(f) # {}
  PROVE  Newest(f) \in Objects /\ Reads(Newest(f))
<1>1. RefLog[f] \in Seq(Objects)
  BY RunAssumption
<1>2. Len(RefLog[f]) \in Nat /\ DOMAIN RefLog[f] = 1 .. Len(RefLog[f])
  BY <1>1
<1>3. \A i \in 1 .. Len(RefLog[f]) : RefLog[f][i] \in Objects
  BY <1>1
<1>4. Usable(f) \subseteq 1 .. Len(RefLog[f])
  BY <1>2 DEF Usable
<1>5. \E i \in Usable(f) : \A j \in Usable(f) : j <= i
  BY <1>2, <1>4, Largest
<1> DEFINE i == CHOOSE i \in Usable(f) : \A j \in Usable(f) : j <= i
<1>6. i \in Usable(f)
  BY <1>5
<1> HIDE DEF i
<1>7. RefLog[f][i] \in Objects /\ Reads(RefLog[f][i])
  BY <1>2, <1>3, <1>6 DEF Usable
<1> QED
  BY <1>7 DEF Newest, i

\* What the remote may have answered has its types (RemoteRung).
Rungs == [got : SUBSET Remote, all : BOOLEAN, failed : BOOLEAN]

LEMMA OutcomesTyped ==
  ASSUME NEW r \in Rungs, NEW S
  PROVE  Rung!Outcomes(r, S) \subseteq Rungs
<1> DEFINE w == S \ r.got
<1>1. r.got \subseteq Remote
  BY DEF Rungs
<1>2. ASSUME NEW B \in SUBSET Remote PROVE Rung!Brought(B) \subseteq SUBSET Remote
  BY DEF Rung!Brought
<1>3. Rung!Parts(w) \subseteq SUBSET Remote
  <2>1. \A p \in SUBSET (w \cap Remote) : Rung!Brought(p) \subseteq SUBSET Remote
    BY <1>2
  <2> QED
    BY <2>1 DEF Rung!Parts
<1>4. Rung!ByName(r, w) \subseteq Rungs
  <2>1. CASE w \subseteq Remote
    <3>1. Rung!Brought(w) \subseteq SUBSET Remote
      BY <1>2, <2>1
    <3>2. \A b \in Rung!Brought(w) : [got |-> r.got \cup b, all |-> FALSE, failed |-> FALSE] \in Rungs
      BY <1>1, <3>1 DEF Rungs
    <3>3. Rung!Serves(w)
      BY <2>1 DEF Rung!Serves
    <3> QED
      BY <3>2, <3>3 DEF Rung!ByName
  <2>2. CASE ~ (w \subseteq Remote)
    BY <2>2 DEF Rung!ByName, Rung!Serves
  <2> QED
    BY <2>1, <2>2
<1>5. Rung!ByEveryRef(r, w) \subseteq Rungs
  <2> SUFFICES ASSUME NEW x \in Rung!ByEveryRef(r, w) PROVE x \in Rungs
    OBVIOUS
  <2>1. PICK p \in Rung!Parts(w) : \E out \in SUBSET Rung!Below(r.got \cup p) :
          x = [got |-> r.got \cup p \cup (Remote \ out), all |-> TRUE, failed |-> FALSE]
    BY DEF Rung!ByEveryRef
  <2>2. p \subseteq Remote
    BY <1>3, <2>1
  <2> QED
    BY <1>1, <2>1, <2>2 DEF Rungs
<1>6. Rung!Fails(r, w) \subseteq Rungs
  <2>1. \A p \in Rung!Parts(w) : [got |-> r.got \cup p, all |-> FALSE, failed |-> TRUE] \in Rungs
    BY <1>1, <1>3 DEF Rungs
  <2> QED
    BY <2>1 DEF Rung!Fails
<1> QED
  BY <1>4, <1>5, <1>6 DEF Rung!Outcomes

\* A file moved or written leaves the disk a disk.
LEMMA DiskEdits ==
  ASSUME disk \in Disk
  PROVE  /\ \A o \in Objects, c \in Copy : [disk EXCEPT !.loose[o] = c] \in Disk
         /\ \A o \in Objects, c \in Copy : [disk EXCEPT !.alt[o] = c] \in Disk
         /\ \A p \in Packs, s \in PackState : [disk EXCEPT !.pack[p] = s] \in Disk
         /\ \A f \in Refs, s \in {"ok", "malformed", "garbled", "gone"} :
              [disk EXCEPT !.ref[f] = s] \in Disk
         /\ \A f \in Refs, s \in {"ok", "malformed", "garbled", "gone"}, o \in Objects :
              [disk EXCEPT !.ref[f] = s, !.val[f] = o] \in Disk
         /\ \A w \in Worktrees, s \in {"ok", "bad", "absent"} : [disk EXCEPT !.idx[w] = s] \in Disk
         /\ \A s \in {"ok", "bad", "absent"} : [disk EXCEPT !.prefs = s] \in Disk
         /\ [disk EXCEPT !.list = {}] \in Disk
         /\ \A c : [disk EXCEPT !.broken = @ \ {c}] \in Disk
<1>1. /\ \A o \in Objects, c \in Copy : [disk EXCEPT !.loose[o] = c] \in Disk
      /\ \A o \in Objects, c \in Copy : [disk EXCEPT !.alt[o] = c] \in Disk
      /\ \A p \in Packs, s \in PackState : [disk EXCEPT !.pack[p] = s] \in Disk
  BY DEF Disk
<1>2. /\ \A f \in Refs, s \in {"ok", "malformed", "garbled", "gone"} :
              [disk EXCEPT !.ref[f] = s] \in Disk
      /\ \A w \in Worktrees, s \in {"ok", "bad", "absent"} : [disk EXCEPT !.idx[w] = s] \in Disk
      /\ \A s \in {"ok", "bad", "absent"} : [disk EXCEPT !.prefs = s] \in Disk
  BY DEF Disk
<1>3. /\ [disk EXCEPT !.list = {}] \in Disk
      /\ \A c : [disk EXCEPT !.broken = @ \ {c}] \in Disk
  BY DEF Disk
<1>4. \A f \in Refs, s \in {"ok", "malformed", "garbled", "gone"}, o \in Objects :
              [disk EXCEPT !.ref[f] = s, !.val[f] = o] \in Disk
  BY DEF Disk
<1> QED
  BY <1>1, <1>2, <1>3, <1>4

\* What is read depends on the packs and the files, and nothing else of the
\* disk (Find, Read, fromDuplicate, lastGoodValue).
LEMMA SameReads ==
  ASSUME disk'.loose = disk.loose, disk'.alt = disk.alt,
         disk'.entry = disk.entry, disk'.pack = disk.pack
  PROVE  /\ \A p : Opens(p)' <=> Opens(p)
         /\ \A p : PackBad(p)' <=> PackBad(p)
         /\ \A o : Holders(o)' = Holders(o) /\ (Reads(o)' <=> Reads(o))
         /\ \A o : FromDuplicate(o)' <=> FromDuplicate(o)
         /\ \A f : Usable(f)' = Usable(f) /\ Newest(f)' = Newest(f)
         /\ \A S : Unreadable(S)' = Unreadable(S)
         /\ \A S, K : Walked(S, K)' = Walked(S, K)
<1>1. \A p : Opens(p)' <=> Opens(p)
  BY DEF Opens
<1>2. \A p : PackBad(p)' <=> PackBad(p)
  BY DEF PackBad
<1>3. \A o : Holders(o)' = Holders(o)
  BY <1>1 DEF Holders
<1>4. ASSUME NEW o PROVE Reads(o)' <=> Reads(o)
  <2>1. Holders(o)' = Holders(o)
    BY <1>3
  <2> QED
    BY <2>1 DEF Reads
<1>5. \A o : FromDuplicate(o)' <=> FromDuplicate(o)
  BY <1>3, <1>4 DEF FromDuplicate, HasFile
<1>6. \A f : Usable(f)' = Usable(f)
  BY <1>4 DEF Usable
<1>7. ASSUME NEW f PROVE Newest(f)' = Newest(f)
  <2>1. Usable(f)' = Usable(f)
    BY <1>6
  <2> QED
    BY <2>1 DEF Newest
<1>8. \A S : Unreadable(S)' = Unreadable(S)
  BY <1>4 DEF Unreadable
<1>9. ASSUME NEW S, NEW K PROVE Walked(S, K)' = Walked(S, K)
  BY <1>4 DEF Walked
<1> QED
  BY <1>1, <1>2, <1>3, <1>4, <1>5, <1>6, <1>7, <1>8, <1>9

-----------------------------------------------------------------------------
(***************************************************************************)
(* The types, and what is worked on where.                                 *)
(***************************************************************************)

\* What a scan gives back (scan.go).
LEMMA ScanTyped ==
  ASSUME disk \in Disk
  PROVE  /\ Roots \subseteq Objects
         /\ \A S, K : Walked(S, K) \subseteq Objects
         /\ ScanOf.derived \subseteq Caches \cup {PacksList} /\ ScanOf.packs \subseteq Packs
         /\ ScanOf.objs \subseteq Objects /\ ScanOf.refs \subseteq Refs
         /\ ScanOf.index \subseteq Worktrees /\ ScanOf.prefs \in BOOLEAN
<1>1. Roots \subseteq Objects
  BY DEF Roots, Disk
<1>2. \A S, K : Walked(S, K) \subseteq Objects
  BY DEF Walked
<1>3. BadIndex \subseteq Worktrees
  <2>1. {w \in Worktrees : disk.idx[w] = "bad"} \subseteq Nat
    BY RunAssumption
  <2>2. {w \in Worktrees : disk.idx[w] = "bad"} # {} =>
          First({w \in Worktrees : disk.idx[w] = "bad"}) \in {w \in Worktrees : disk.idx[w] = "bad"}
    BY <2>1, FirstIn
  <2> QED
    BY <2>2 DEF BadIndex
<1>4. disk.broken \subseteq Caches
  BY DEF Disk
<1>5. Unreadable(Walked(Roots, {})) \subseteq Objects
  BY <1>2 DEF Unreadable
<1>6. /\ ScanOf.derived = disk.broken \cup (IF Stale THEN {PacksList} ELSE {})
      /\ ScanOf.packs = {p \in Packs : PackBad(p)}
      /\ ScanOf.objs = Unreadable(Walked(Roots, {}))
      /\ ScanOf.refs = {f \in Refs : disk.ref[f] = "malformed"}
      /\ ScanOf.index = BadIndex /\ ScanOf.prefs = (disk.prefs = "bad")
  BY DEF ScanOf
<1> QED
  BY <1>1, <1>2, <1>3, <1>4, <1>5, <1>6

\* A run begins with a report that says nothing.
LEMMA EmptyResult ==
  NoResult \in [unrec : SUBSET Objects, refused : SUBSET Packs,
                dropped : Seq(Line), restored : SUBSET Refs,
                remoteErr : BOOLEAN, clean : BOOLEAN]
<1>1. <<>> \in Seq(Line)
  OBVIOUS
<1> QED
  BY <1>1 DEF NoResult

\* What a Damages disk is, when nothing runs.
LEMMA TypeInit == Init => TypeOK /\ Kinds
<1> SUFFICES ASSUME Init PROVE TypeOK /\ Kinds
  OBVIOUS
<1>1. disk \in Disk
  BY RunAssumption DEF Init
<1>2. remote \in [got : SUBSET Remote, all : BOOLEAN, failed : BOOLEAN]
  BY DEF Init, Rung!NoRung
<1>3. result \in [unrec : SUBSET Objects, refused : SUBSET Packs,
                 dropped : Seq(Line), restored : SUBSET Refs,
                 remoteErr : BOOLEAN, clean : BOOLEAN]
  BY EmptyResult DEF Init
<1>4. 0 \in 0 .. MaxRuns
  BY RunAssumption
<1>5. TypeOK
  BY <1>1, <1>2, <1>3, <1>4 DEF Init, TypeOK, NoDamage
<1>6. Kinds
  BY DEF Init, Kinds, Early, Passing, Late
<1> QED
  BY <1>5, <1>6

\* Where the run works on one item, the item is of its kind.
LEMMA CurKinds ==
  ASSUME TypeOK, Kinds
  PROVE  /\ pc \in {"rescue", "displace"} => cur \in Packs
         /\ pc = "take" => cur \in Objects
         /\ pc \in {"refTaken", "refCreated"} => cur \in Refs
BY DEF Kinds

\* The disk stays a disk, whatever a step moves or writes.
LEMMA DiskStep == TypeOK /\ Kinds /\ [Next]_vars => disk' \in Disk
<1> SUFFICES ASSUME TypeOK, Kinds, [Next]_vars, disk' # disk PROVE disk' \in Disk
  BY DEF TypeOK
<1>0. disk \in Disk
  BY DEF TypeOK
<1>1. CASE TakeDerived
  <2>1. \E c : disk' = [disk EXCEPT !.list = {}] \/ disk' = [disk EXCEPT !.broken = @ \ {c}]
    BY <1>1 DEF TakeDerived
  <2> QED
    BY <1>0, <2>1, DiskEdits
<1>2. CASE KeepLoose
  <2>1. PICK o \in inside : disk' = [disk EXCEPT !.loose[o] = "none"] \/ disk' = [disk EXCEPT !.loose[o] = "good"]
    BY <1>2 DEF KeepLoose
  <2>2. o \in Objects /\ "none" \in Copy /\ "good" \in Copy
    BY DEF TypeOK, Copy
  <2>3. \A c \in Copy : [disk EXCEPT !.loose[o] = c] \in Disk
    BY <1>0, <2>2, DiskEdits
  <2> QED
    BY <2>1, <2>2, <2>3
<1>3. CASE TakePack
  BY <1>0, <1>3, CurKinds, DiskEdits DEF TakePack, PackState
<1>4. CASE TakeCompanions
  BY <1>0, <1>4, CurKinds, DiskEdits DEF TakeCompanions, PackState
<1>5. CASE TakePackedRefs
  BY <1>0, <1>5, DiskEdits DEF TakePackedRefs
<1>6. CASE WritePackedRefs
  <2> DEFINE r == [f \in Refs |-> IF f \notin Garbled THEN disk.ref[f]
                                  ELSE IF f \in RestoredRefs THEN "ok" ELSE "gone"]
             v == [f \in Refs |-> IF f \in Garbled \cap RestoredRefs
                                        THEN Newest(f) ELSE disk.val[f]]
  <2>1. disk' = [disk EXCEPT !.prefs = "ok", !.lines = <<>>, !.ref = r, !.val = v]
    BY <1>6 DEF WritePackedRefs
  <2>2. r \in [Refs -> {"ok", "malformed", "garbled", "gone"}]
    BY <1>0 DEF Disk
  <2>3. v \in [Refs -> Objects]
    <3>1. ASSUME NEW f \in Refs, f \in Garbled \cap RestoredRefs PROVE Newest(f) \in Objects
      <4>1. Usable(f) # {}
        BY <3>1 DEF Garbled, RestoredRefs, HasGoodValue
      <4> QED
        BY <4>1, NewestReads
    <3>2. \A f \in Refs : disk.val[f] \in Objects
      BY <1>0 DEF Disk
    <3> QED
      BY <3>1, <3>2
  <2>4. <<>> \in Seq(Line)
    OBVIOUS
  <2> HIDE DEF r, v
  <2> QED
    BY <1>0, <2>1, <2>2, <2>3, <2>4 DEF Disk
<1>7. CASE TakeCopies
  <2>1. "none" \in Copy
    BY DEF Copy
  <2>2. cur \in Objects
    BY <1>7, CurKinds DEF TakeCopies
  <2>3. [disk EXCEPT !.loose[cur] = "none"] \in Disk /\ [disk EXCEPT !.alt[cur] = "none"] \in Disk
    BY <1>0, <2>1, <2>2, DiskEdits
  <2> QED
    BY <1>7, <2>3 DEF TakeCopies
<1>8. CASE WriteObject
  <2>1. "good" \in Copy
    BY DEF Copy
  <2> QED
    BY <1>0, <1>8, <2>1, CurKinds, DiskEdits DEF WriteObject
<1>9. CASE TakeRef
  <2>1. PICK f \in todo : disk' = [disk EXCEPT !.ref[f] = "gone"]
    BY <1>9 DEF TakeRef
  <2>2. f \in Refs
    BY <1>9 DEF TakeRef, Kinds
  <2> QED
    BY <1>0, <2>1, <2>2, DiskEdits
<1>10. CASE CreateRef
  BY <1>0, <1>10, CurKinds, DiskEdits DEF CreateRef
<1>11. CASE FillRef
  <2>1. disk' = [disk EXCEPT !.ref[cur] = "ok", !.val[cur] = Newest(cur)] /\ cur \in Refs
    BY <1>11, CurKinds DEF FillRef
  <2>2. Usable(cur) # {}
    BY <1>11 DEF FillRef, Kinds
  <2> QED
    BY <1>0, <2>1, <2>2, NewestReads, DiskEdits
<1>12. CASE TakeIndex \/ WriteIndex
  <2>1. PICK w \in dmg.index, s \in {"absent", "ok"} : disk' = [disk EXCEPT !.idx[w] = s]
    BY <1>12 DEF TakeIndex, WriteIndex
  <2>2. w \in Worktrees
    BY DEF TypeOK
  <2> QED
    BY <1>0, <2>1, <2>2, DiskEdits
<1> QED
  BY <1>1, <1>2, <1>3, <1>4, <1>5, <1>6, <1>7, <1>8, <1>9, <1>10, <1>11, <1>12
  DEF Next, Step, vars, process, history, StartRun, FirstScan, EndDerived, RefusePack, OpenPack,
      KeepFails, CompanionsFail, EndPacks, Rescan, OpenSources, Prime, LeaveStuck, FindObject,
      EndPass, NothingToDo, Descend, LeaveRef, EndRefs, Verify, Kill, Rest

\* Every step keeps the types and works on what there is to work on (Run).
LEMMA TypeStep == TypeOK /\ Kinds /\ [Next]_vars => TypeOK' /\ Kinds'
<1> SUFFICES ASSUME TypeOK, Kinds, [Next]_vars PROVE TypeOK' /\ Kinds'
  OBVIOUS
<1>0. disk' \in Disk
  BY DiskStep
<1> USE DEF recovery, notes, NotTaking, GoOn
<1>1. CASE StartRun
  <2>0. runs' \in 0 .. MaxRuns
    BY <1>1, RunAssumption DEF StartRun, TypeOK
  <2>1. NoResult \in [unrec : SUBSET Objects, refused : SUBSET Packs,
                      dropped : Seq(Line), restored : SUBSET Refs,
                      remoteErr : BOOLEAN, clean : BOOLEAN]
    BY EmptyResult
  <2>2. TypeOK'
    BY <1>0, <1>1, <2>0, <2>1 DEF StartRun, TypeOK
  <2>3. Kinds'
    BY <1>1 DEF StartRun, Kinds, NoResult, Early, Passing
  <2> QED
    BY <2>2, <2>3
<1>2. CASE FirstScan
  <2>1. TypeOK'
    BY <1>0, <1>2, ScanTyped DEF FirstScan, TypeOK
  <2>2. ScanOf.derived \subseteq Caches \cup {PacksList}
    BY ScanTyped DEF TypeOK
  <2>3. Kinds'
    BY <1>2, <2>2 DEF FirstScan, Kinds, Early, Passing
  <2> QED
    BY <2>1, <2>3
<1>3. CASE TakeDerived
  <2>1. TypeOK'
    BY <1>0, <1>3 DEF TakeDerived, TypeOK
  <2>2. Kinds'
    BY <1>3 DEF TakeDerived, Kinds, Early, Passing
  <2> QED
    BY <2>1, <2>2
<1>4. CASE EndDerived
  <2>1. TypeOK'
    BY <1>0, <1>4 DEF EndDerived, TypeOK
  <2>2. Kinds'
    BY <1>4 DEF EndDerived, Kinds, Early, Passing, TypeOK
  <2> QED
    BY <2>1, <2>2
<1>5. CASE RefusePack \/ KeepFails \/ CompanionsFail
  <2>1. PICK p \in Packs : Refuse(p) /\ pc \in {"packs", "rescue", "displace"}
                           /\ UNCHANGED <<disk, dmg, recovery, notes>>
    <3>1. pc = "packs" /\ todo # {} => First(todo) \in Packs
      <4>1. pc = "packs" => todo \subseteq Nat /\ todo \subseteq Packs
        BY RunAssumption DEF Kinds
      <4> QED
        BY <4>1, FirstIn
    <3> QED
      BY <1>5, <3>1, CurKinds DEF RefusePack, KeepFails, CompanionsFail
  <2>2. result' \in [unrec : SUBSET Objects, refused : SUBSET Packs,
                 dropped : Seq(Line), restored : SUBSET Refs,
                 remoteErr : BOOLEAN, clean : BOOLEAN]
        /\ result'.unrec = result.unrec
    BY <2>1 DEF Refuse, TypeOK
  <2>3. TypeOK'
    BY <1>0, <2>1, <2>2 DEF Refuse, TypeOK
  <2>4. Kinds'
    BY <2>1, <2>2 DEF Refuse, Kinds, Early, Passing
  <2> QED
    BY <2>3, <2>4
<1>6. CASE OpenPack
  <2>1. First(todo) \in todo /\ First(todo) \in Packs
    <3>1. todo \subseteq Nat /\ todo \subseteq Packs
      BY <1>6, RunAssumption DEF Kinds, OpenPack
    <3> QED
      BY <1>6, <3>1, FirstIn DEF OpenPack
  <2>2. Yield(First(todo)) \subseteq Objects
    BY DEF Yield
  <2>3. TypeOK'
    BY <1>0, <1>6, <2>1, <2>2 DEF OpenPack, TypeOK
  <2>4. Kinds'
    BY <1>6, <2>1 DEF OpenPack, Kinds, Early, Passing
  <2> QED
    BY <2>3, <2>4
<1>7. CASE KeepLoose
  <2>1. TypeOK'
    BY <1>0, <1>7 DEF KeepLoose, TypeOK
  <2>2. Kinds'
    BY <1>7 DEF KeepLoose, Kinds, Early, Passing
  <2> QED
    BY <2>1, <2>2
<1>8. CASE TakePack
  <2>1. TypeOK'
    BY <1>0, <1>8 DEF TakePack, TypeOK
  <2>2. Kinds'
    BY <1>8 DEF TakePack, Kinds, Early, Passing
  <2> QED
    BY <2>1, <2>2
<1>9. CASE TakeCompanions
  <2>1. TypeOK'
    BY <1>0, <1>9 DEF TakeCompanions, TypeOK
  <2>2. Kinds'
    BY <1>9 DEF TakeCompanions, Kinds, Early, Passing
  <2> QED
    BY <2>1, <2>2
<1>10. CASE EndPacks
  <2>1. TypeOK'
    BY <1>0, <1>10 DEF EndPacks, TypeOK
  <2>2. Kinds'
    BY <1>10 DEF EndPacks, Kinds, Early, Passing
  <2> QED
    BY <2>1, <2>2
<1>11. CASE Rescan
  <2>1. TypeOK'
    BY <1>0, <1>11, ScanTyped DEF Rescan, TypeOK
  <2>2. Kinds'
    BY <1>11 DEF Rescan, Kinds, Early, Passing
  <2> QED
    BY <2>1, <2>2
<1>12. CASE TakePackedRefs
  <2>1. TypeOK'
    BY <1>0, <1>12 DEF TakePackedRefs, TypeOK
  <2>2. Kinds'
    BY <1>12 DEF TakePackedRefs, Kinds, Early, Passing
  <2> QED
    BY <2>1, <2>2
<1>13. CASE WritePackedRefs
  <2>1. disk.lines \in Seq(Line) /\ RestoredRefs \subseteq Refs
    <3>1. disk.lines \in Seq(Line)
      BY DEF TypeOK, Disk
    <3>2. \A i \in DOMAIN disk.lines : disk.lines[i] \in Line
      BY <3>1
    <3>3. \A i \in DOMAIN disk.lines : disk.lines[i].names \subseteq Refs
      BY <3>2 DEF Line
    <3> QED
      BY <3>1, <3>3 DEF RestoredRefs, namesInDroppedLines
  <2>2. result' \in [unrec : SUBSET Objects, refused : SUBSET Packs,
                 dropped : Seq(Line), restored : SUBSET Refs,
                 remoteErr : BOOLEAN, clean : BOOLEAN]
        /\ result'.unrec = result.unrec
    BY <1>13, <2>1 DEF WritePackedRefs, TypeOK
  <2>3. TypeOK'
    BY <1>0, <1>13, <2>2 DEF WritePackedRefs, TypeOK
  <2>4. Kinds'
    BY <1>13, <2>2 DEF WritePackedRefs, Kinds, Early, Passing
  <2> QED
    BY <2>3, <2>4
<1>14. CASE OpenSources
  <2>1. TypeOK'
    BY <1>0, <1>14 DEF OpenSources, TypeOK, stillBad
  <2>2. Kinds'
    BY <1>14 DEF OpenSources, Kinds, Early, Passing, stillBad, TypeOK
  <2> QED
    BY <2>1, <2>2
<1>15. CASE Prime
  <2>1. remote' \in [got : SUBSET Remote, all : BOOLEAN, failed : BOOLEAN]
    BY <1>15, OutcomesTyped DEF Prime, TypeOK, Rungs
  <2>2. TypeOK'
    BY <1>0, <1>15, <2>1 DEF Prime, TypeOK
  <2>3. Kinds'
    BY <1>15 DEF Prime, Kinds, Early, Passing
  <2> QED
    BY <2>2, <2>3
<1>16. CASE LeaveStuck
  <2>1. TypeOK'
    <3>1. PICK o \in todo : stuck' = stuck \cup {o} /\ todo' = todo \ {o}
      BY <1>16 DEF LeaveStuck
    <3>2. o \in Objects
      BY <1>16, <3>1 DEF LeaveStuck, Kinds
    <3> QED
      BY <1>0, <1>16, <3>1, <3>2 DEF LeaveStuck, TypeOK
  <2>2. Kinds'
    BY <1>16 DEF LeaveStuck, Kinds, Early, Passing
  <2> QED
    BY <2>1, <2>2
<1>17. CASE FindObject
  <2>1. TypeOK'
    BY <1>0, <1>17 DEF FindObject, TypeOK, Kinds
  <2>2. Kinds'
    BY <1>17 DEF FindObject, Kinds, Early, Passing
  <2> QED
    BY <2>1, <2>2
<1>18. CASE TakeCopies
  <2>1. TypeOK'
    BY <1>0, <1>18 DEF TakeCopies, TypeOK
  <2>2. Kinds'
    BY <1>18 DEF TakeCopies, Kinds, Early, Passing
  <2> QED
    BY <2>1, <2>2
<1>19. CASE WriteObject
  <2>1. TypeOK'
    BY <1>0, <1>19, CurKinds DEF WriteObject, TypeOK
  <2>2. Kinds'
    BY <1>19 DEF WriteObject, Kinds, Early, Passing
  <2> QED
    BY <2>1, <2>2
<1>20. CASE EndPass
  <2>1. result' \in [unrec : SUBSET Objects, refused : SUBSET Packs,
                 dropped : Seq(Line), restored : SUBSET Refs,
                 remoteErr : BOOLEAN, clean : BOOLEAN]
    <3>1. remote.failed \in BOOLEAN
      BY DEF TypeOK
    <3> QED
      BY <1>20, <3>1 DEF EndPass, TypeOK
  <2>2. TypeOK'
    BY <1>0, <1>20, <2>1 DEF EndPass, TypeOK
  <2>3. Kinds'
    BY <1>20 DEF EndPass, Kinds, Early, Passing, TypeOK
  <2> QED
    BY <2>2, <2>3
<1>21. CASE NothingToDo \/ EndRefs
  <2>1. TypeOK'
    BY <1>0, <1>21 DEF NothingToDo, EndRefs, TypeOK
  <2>2. Kinds'
    BY <1>21 DEF NothingToDo, EndRefs, Kinds, Early, Passing, TypeOK
  <2> QED
    BY <2>1, <2>2
<1>22. CASE Descend
  <2>1. Unreadable(Walked(back, seen \ back)) \subseteq Objects /\ Walked(back, seen \ back) \subseteq Objects
    BY ScanTyped DEF Unreadable, TypeOK
  <2>2. TypeOK'
    BY <1>0, <1>22, <2>1 DEF Descend, TypeOK, stillBad, NoDamage
  <2>3. Kinds'
    BY <1>22, <2>1 DEF Descend, Kinds, Early, Passing, stillBad, TypeOK
  <2> QED
    BY <2>2, <2>3
<1>23. CASE LeaveRef
  <2>1. TypeOK'
    BY <1>0, <1>23 DEF LeaveRef, TypeOK
  <2>2. Kinds'
    BY <1>23 DEF LeaveRef, Kinds, Early, Passing
  <2> QED
    BY <2>1, <2>2
<1>24. CASE TakeRef
  <2>1. PICK f \in todo : Usable(f) # {} /\ disk' = [disk EXCEPT !.ref[f] = "gone"] /\ cur' = f
    BY <1>24 DEF TakeRef
  <2>2. f \in Refs
    BY <1>24 DEF TakeRef, Kinds
  <2>3. Usable(f)' # {}
    <3>1. /\ disk'.loose = disk.loose /\ disk'.alt = disk.alt
          /\ disk'.entry = disk.entry /\ disk'.pack = disk.pack
      BY <2>1 DEF TypeOK, Disk
    <3> QED
      BY <2>1, <3>1, SameReads
  <2>4. TypeOK'
    BY <1>0, <1>24, <2>1, <2>2 DEF TakeRef, TypeOK
  <2>5. Usable(cur') = Usable(f)
    BY <2>1
  <2>6. Kinds'
    BY <1>24, <2>1, <2>3 DEF TakeRef, Kinds, Early, Passing
  <2> QED
    BY <2>4, <2>6
<1>25. CASE CreateRef
  <2>1. Usable(cur)' # {}
    <3>1. /\ disk'.loose = disk.loose /\ disk'.alt = disk.alt
          /\ disk'.entry = disk.entry /\ disk'.pack = disk.pack
      BY <1>25 DEF CreateRef, TypeOK, Disk
    <3>2. Usable(cur) # {} /\ cur' = cur
      BY <1>25 DEF CreateRef, Kinds
    <3>3. PICK f \in Refs : f = cur /\ f = cur'
      BY <1>25, <3>2, CurKinds DEF CreateRef
    <3>4. Usable(f)' = Usable(f)
      BY <3>1, SameReads
    <3>5. Usable(cur)' = Usable(f)'
      BY <3>3 DEF Usable
    <3> QED
      BY <3>2, <3>3, <3>4, <3>5
  <2>2. TypeOK'
    BY <1>0, <1>25 DEF CreateRef, TypeOK
  <2>3. Kinds'
    BY <1>25, <2>1 DEF CreateRef, Kinds, Early, Passing
  <2> QED
    BY <2>2, <2>3
<1>26. CASE FillRef
  <2>1. TypeOK'
    BY <1>0, <1>26 DEF FillRef, TypeOK
  <2>2. Kinds'
    BY <1>26 DEF FillRef, Kinds, Early, Passing
  <2> QED
    BY <2>1, <2>2
<1>27. CASE TakeIndex \/ WriteIndex
  <2>1. TypeOK'
    BY <1>0, <1>27 DEF TakeIndex, WriteIndex, TypeOK
  <2>2. Kinds'
    BY <1>27 DEF TakeIndex, WriteIndex, Kinds, Early, Passing
  <2> QED
    BY <2>1, <2>2
<1>28. CASE Verify
  <2>1. FsckClean \in BOOLEAN
    BY DEF FsckClean
  <2>2. result' \in [unrec : SUBSET Objects, refused : SUBSET Packs,
                 dropped : Seq(Line), restored : SUBSET Refs,
                 remoteErr : BOOLEAN, clean : BOOLEAN]
    BY <1>28, <2>1 DEF Verify, TypeOK
  <2>3. Rung!NoRung \in [got : SUBSET Remote, all : BOOLEAN, failed : BOOLEAN]
    BY DEF Rung!NoRung
  <2>4. TypeOK'
    BY <1>0, <1>28, <2>2, <2>3 DEF Verify, Exit, TypeOK, NoDamage
  <2>5. Kinds'
    BY <1>28 DEF Verify, Exit, Kinds, Early, Passing
  <2> QED
    BY <2>4, <2>5
<1>29. CASE Kill
  <2>1. NoResult \in [unrec : SUBSET Objects, refused : SUBSET Packs,
                 dropped : Seq(Line), restored : SUBSET Refs,
                 remoteErr : BOOLEAN, clean : BOOLEAN]
    BY EmptyResult
  <2>2. Rung!NoRung \in [got : SUBSET Remote, all : BOOLEAN, failed : BOOLEAN]
    BY DEF Rung!NoRung
  <2>3. TypeOK'
    BY <1>0, <1>29, <2>1, <2>2 DEF Kill, Exit, TypeOK, NoDamage
  <2>4. Kinds'
    BY <1>29 DEF Kill, Exit, Kinds, Early, Passing
  <2> QED
    BY <2>3, <2>4
<1>30. CASE Rest \/ UNCHANGED vars
  <2>1. UNCHANGED vars
    BY <1>30 DEF Rest
  <2>2. TypeOK'
    BY <1>0, <2>1 DEF vars, process, history, TypeOK
  <2>3. UNCHANGED Usable(cur)
    BY <2>1 DEF vars, process, Usable, Reads, Holders, Opens
  <2>4. UNCHANGED <<pc, todo, cur, remote, result, finished>>
    BY <2>1 DEF vars, process, history
  <2>5. Kinds'
    BY <2>3, <2>4 DEF Kinds, Early, Passing
  <2> QED
    BY <2>2, <2>5
<1> QED
  BY <1>1, <1>2, <1>3, <1>4, <1>5, <1>6, <1>7, <1>8, <1>9, <1>10, <1>11, <1>12, <1>13, <1>14,
     <1>15, <1>16, <1>17, <1>18, <1>19, <1>20, <1>21, <1>22, <1>23, <1>24, <1>25, <1>26, <1>27,
     <1>28, <1>29, <1>30
  DEF Next, Step

-----------------------------------------------------------------------------
(***************************************************************************)
(* The packs, the list of them, and what has been taken.                   *)
(***************************************************************************)

\* Whether a pack verifies, opens and lists an object is in the packs alone.
LEMMA SamePacks ==
  ASSUME disk'.entry = disk.entry, disk'.pack = disk.pack
  PROVE  /\ \A p : (Opens(p)' <=> Opens(p)) /\ (PackBad(p)' <=> PackBad(p)) /\ Yield(p)' = Yield(p)
         /\ \A o : Holders(o)' = Holders(o)
<1>1. \A p : Opens(p)' <=> Opens(p)
  BY DEF Opens
<1>2. \A p : (PackBad(p)' <=> PackBad(p)) /\ Yield(p)' = Yield(p)
  BY DEF PackBad, Yield
<1>3. \A o : Holders(o)' = Holders(o)
  BY <1>1 DEF Holders
<1> QED
  BY <1>1, <1>2, <1>3

\* No step but the two that displace a pack changes the packs.
LEMMA PacksStay ==
  TypeOK /\ [Next]_vars =>
    /\ disk'.entry = disk.entry
    /\ TakePack \/ TakeCompanions \/ disk'.pack = disk.pack
<1> SUFFICES ASSUME TypeOK, [Next]_vars, disk' # disk
    PROVE disk'.entry = disk.entry /\ (TakePack \/ TakeCompanions \/ disk'.pack = disk.pack)
  OBVIOUS
<1>0. disk \in Disk
  BY DEF TypeOK
<1>1. CASE TakeDerived \/ KeepLoose \/ TakeCopies \/ WriteObject
  <2>1. CASE TakeDerived
    BY <1>0, <2>1 DEF TakeDerived, Disk
  <2>2. CASE KeepLoose
    BY <1>0, <2>2 DEF KeepLoose, Disk
  <2>3. CASE TakeCopies \/ WriteObject
    BY <1>0, <2>3 DEF TakeCopies, WriteObject, Disk
  <2> QED
    BY <1>1, <2>1, <2>2, <2>3
<1>2. CASE TakePack \/ TakeCompanions
  BY <1>0, <1>2 DEF TakePack, TakeCompanions, Disk
<1>3. CASE TakePackedRefs \/ WritePackedRefs
  <2>1. CASE TakePackedRefs
    BY <1>0, <2>1 DEF TakePackedRefs, Disk
  <2>2. CASE WritePackedRefs
    BY <1>0, <2>2 DEF WritePackedRefs, Disk
  <2> QED
    BY <1>3, <2>1, <2>2
<1>4. CASE TakeRef \/ CreateRef \/ FillRef
  <2>1. CASE TakeRef
    BY <1>0, <2>1 DEF TakeRef, Disk
  <2>2. CASE CreateRef \/ FillRef
    BY <1>0, <2>2 DEF CreateRef, FillRef, Disk
  <2> QED
    BY <1>4, <2>1, <2>2
<1>5. CASE TakeIndex \/ WriteIndex
  BY <1>0, <1>5 DEF TakeIndex, WriteIndex, Disk
<1> QED
  BY <1>1, <1>2, <1>3, <1>4, <1>5
  DEF Next, Step, vars, process, history, StartRun, FirstScan, EndDerived, RefusePack, OpenPack,
      KeepFails, CompanionsFail, EndPacks, Rescan, OpenSources, Prime, LeaveStuck, FindObject,
      EndPass, NothingToDo, Descend, LeaveRef, EndRefs, Verify, Kill, Rest

\* A pack is being emptied while it is one that yields (rescuePack).
LEMMA EmptyingStep == TypeOK /\ Kinds /\ Emptying /\ [Next]_vars => Emptying'
<1> SUFFICES ASSUME TypeOK, Kinds, Emptying, [Next]_vars PROVE Emptying'
  OBVIOUS
<1>0. disk \in Disk /\ disk'.entry = disk.entry
  BY PacksStay DEF TypeOK
<1>1. CASE OpenPack
  <2>1. ~Useless(First(todo)) /\ disk' = disk /\ cur' = First(todo) /\ inside' = Yield(First(todo))
        /\ pc' = "rescue"
    BY <1>1 DEF OpenPack
  <2>2. /\ Opens(First(todo))
        /\ disk.pack[First(todo)] = "headless" => \A o \in Objects : disk.entry[First(todo)][o] = "none"
    BY <2>1 DEF Yield, Useless
  <2>3. Yield(cur)' = inside' /\ (Opens(cur)' <=> Opens(First(todo)))
    BY <2>1 DEF Yield, Opens
  <2> QED
    BY <2>1, <2>2, <2>3 DEF Emptying
<1>2. CASE KeepLoose
  <2>1. /\ pc = "rescue" /\ pc' = "rescue" /\ cur' = cur /\ disk'.pack = disk.pack /\ inside' \subseteq inside
    <3>1. disk'.pack = disk.pack
      BY <1>0, <1>2 DEF KeepLoose, Disk
    <3> QED
      BY <1>2, <3>1 DEF KeepLoose
  <2>2. Yield(cur)' = Yield(cur) /\ (Opens(cur)' <=> Opens(cur))
    BY <1>0, <2>1 DEF Yield, Opens
  <2>3. Yield(cur) \subseteq Objects
    BY DEF Yield
  <2>4. ASSUME NEW o \in Yield(cur), o \notin inside' PROVE disk'.loose[o] = "good"
    <3>1. o \in inside \/ disk.loose[o] = "good"
      BY <2>1, <2>4 DEF Emptying
    <3>2. o \in Objects
      BY <2>3
    <3> QED
      BY <1>0, <1>2, <2>4, <3>1, <3>2 DEF KeepLoose, Disk, Present, TypeOK
  <2> QED
    BY <1>0, <2>1, <2>2, <2>4 DEF Emptying
<1>3. CASE TakePack
  <2>1. cur \in Packs
    BY <1>3, CurKinds DEF TakePack
  <2> QED
    BY <1>0, <1>3, <2>1 DEF TakePack, Emptying, Disk
<1>4. CASE UNCHANGED vars
  BY <1>4 DEF vars, process, Emptying, Yield, Opens
<1> QED
  BY <1>1, <1>2, <1>3, <1>4
  DEF Next, Step, Emptying, StartRun, FirstScan, TakeDerived, EndDerived, RefusePack, KeepFails, Refuse,
      GoOn, TakeCompanions, CompanionsFail, EndPacks, Rescan, TakePackedRefs, WritePackedRefs,
      OpenSources, Prime, LeaveStuck, FindObject, TakeCopies, WriteObject, EndPass, NothingToDo, Descend,
      LeaveRef, TakeRef, CreateRef, FillRef, EndRefs, TakeIndex, WriteIndex, Verify, Kill, Exit, Rest

\* A damaged pack stays in hand until it is refused or has gone (rescuePack).
LEMMA PackwiseStep == TypeOK /\ Kinds /\ Emptying /\ Packwise /\ [Next]_vars => Packwise'
<1> SUFFICES ASSUME TypeOK, Kinds, Emptying, Packwise, [Next]_vars PROVE Packwise'
  OBVIOUS
<1>0. disk \in Disk /\ disk'.entry = disk.entry
  BY PacksStay DEF TypeOK
<1> DEFINE Bad == {p \in Packs : PackBad(p)}
<1>1. CASE TakePack
  <2>1. cur \in Packs /\ cur \in todo /\ pc = "rescue"
    BY <1>1, CurKinds DEF TakePack, Kinds
  <2>2. \A p \in Packs \ {cur} : disk'.pack[p] = disk.pack[p]
    BY <1>0, <1>1, <2>1 DEF TakePack, Disk
  <2>3. \A p \in Packs \ {cur} : PackBad(p)' => PackBad(p)
    BY <1>0, <2>2 DEF PackBad
  <2> QED
    BY <1>1, <2>1, <2>3 DEF TakePack, Packwise, Passing
<1>2. CASE TakeCompanions
  <2>1. cur \in Packs /\ cur \in todo /\ pc = "displace"
    BY <1>2, CurKinds DEF TakeCompanions, Kinds
  <2>2. disk'.pack[cur] = "gone" /\ \A p \in Packs \ {cur} : disk'.pack[p] = disk.pack[p]
    BY <1>0, <1>2, <2>1 DEF TakeCompanions, Disk
  <2>3. \A p \in Packs : PackBad(p)' => p # cur /\ PackBad(p)
    BY <1>0, <2>2 DEF PackBad
  <2> QED
    BY <1>2, <2>1, <2>3 DEF TakeCompanions, Packwise, Passing, GoOn
<1>3. CASE ~TakePack /\ ~TakeCompanions
  <2>1. disk'.pack = disk.pack
    BY <1>3, PacksStay
  <2>2. \A p \in Packs : PackBad(p)' <=> PackBad(p)
    BY <1>0, <2>1, SamePacks
  <2>3. CASE FirstScan
    <3>1. dmg'.packs = {p \in Packs : PackBad(p)}
      BY <2>3 DEF FirstScan, ScanOf
    <3> QED
      BY <2>2, <2>3, <3>1 DEF FirstScan, GoOn, Packwise, Passing
  <2>4. CASE TakeDerived \/ EndDerived
    BY <2>2, <2>4 DEF TakeDerived, EndDerived, GoOn, Packwise, Passing
  <2>5. CASE RefusePack \/ KeepFails \/ CompanionsFail
    <3>1. PICK p : Refuse(p) /\ pc \in {"packs", "rescue", "displace"}
      BY <2>5 DEF RefusePack, KeepFails, CompanionsFail
    <3>2. result'.refused = result.refused \cup {p} /\ todo' = todo \ {p} /\ pc' = "packs"
      BY <3>1 DEF Refuse, GoOn, TypeOK
    <3> QED
      BY <2>2, <3>1, <3>2 DEF Packwise, Passing
  <2>6. CASE OpenPack \/ KeepLoose \/ EndPacks \/ Rescan \/ TakePackedRefs
    BY <2>2, <2>6 DEF OpenPack, KeepLoose, EndPacks, Rescan, TakePackedRefs, GoOn, Packwise, Passing
  <2>7. CASE WritePackedRefs
    <3>1. result'.refused = result.refused
      BY <2>7 DEF WritePackedRefs, TypeOK
    <3> QED
      BY <2>2, <2>7, <3>1 DEF WritePackedRefs, GoOn, Packwise, Passing
  <2>8. CASE OpenSources \/ Prime \/ LeaveStuck \/ FindObject \/ TakeCopies \/ WriteObject \/ Descend
    BY <2>2, <2>8 DEF OpenSources, Prime, LeaveStuck, FindObject, TakeCopies, WriteObject, Descend,
                      GoOn, Packwise, Passing, recovery, notes
  <2>9. CASE EndPass
    <3>1. result'.refused = result.refused
      BY <2>9 DEF EndPass, TypeOK
    <3> QED
      BY <2>2, <2>9, <3>1 DEF EndPass, GoOn, Packwise, Passing
  <2>10. CASE UNCHANGED vars
    BY <2>2, <2>10 DEF vars, process, Packwise
  <2> QED
    BY <1>3, <2>3, <2>4, <2>5, <2>6, <2>7, <2>8, <2>9, <2>10
    DEF Next, Step, Packwise, Passing, StartRun, GoOn, NothingToDo, LeaveRef, TakeRef, CreateRef, FillRef,
        EndRefs, TakeIndex, WriteIndex, Verify, Kill, Exit, Rest
<1> QED
  BY <1>1, <1>2, <1>3

\* What has been taken is not where it was, and is not taken from there again
\* (Quarantine.Take).
LEMMA KeptTrueStep == TypeOK /\ Kinds /\ Emptying /\ KeptTrue /\ [Next]_vars => KeptTrue'
<1> SUFFICES ASSUME TypeOK, Kinds, Emptying, KeptTrue, [Next]_vars PROVE KeptTrue'
  OBVIOUS
<1>0. disk \in Disk
  BY DEF TypeOK
<1> USE DEF recovery, notes, NotTaking, GoOn, Take
<1>1. CASE StartRun
  BY <1>1 DEF StartRun, KeptTrue, Early, Passing
<1>2. CASE FirstScan
  <2>1. dmg'.prefs <=> disk'.prefs = "bad"
    BY <1>2 DEF FirstScan, ScanOf
  <2> QED
    BY <1>2, <2>1 DEF FirstScan, KeptTrue, Early, Passing
<1>3. CASE TakeDerived
  <2>1. PICK c \in todo : /\ disk' = IF c = PacksList THEN [disk EXCEPT !.list = {}]
                                            ELSE [disk EXCEPT !.broken = @ \ {c}]
                          /\ kept' = kept \cup {<<"cache", c>>} /\ todo' = todo \ {c}
    BY <1>3 DEF TakeDerived
  <2>2. /\ disk'.pack = disk.pack /\ disk'.prefs = disk.prefs /\ disk'.alt = disk.alt
        /\ disk'.loose = disk.loose
    BY <1>0, <2>1 DEF Disk
  <2>3. UNCHANGED <<pc, dmg>> /\ pc = "derived"
    BY <1>3 DEF TakeDerived
  <2> QED
    BY <2>1, <2>2, <2>3 DEF KeptTrue, Early, Passing
<1>4. CASE EndDerived \/ OpenPack \/ EndPacks
  BY <1>4 DEF EndDerived, OpenPack, EndPacks, KeptTrue, Early, Passing
<1>5. CASE RefusePack \/ KeepFails \/ CompanionsFail
  <2>1. PICK p : Refuse(p) /\ pc \in {"packs", "rescue", "displace"}
                 /\ UNCHANGED <<disk, dmg, recovery, notes, kept>>
    BY <1>5 DEF RefusePack, KeepFails, CompanionsFail
  <2> QED
    BY <2>1 DEF Refuse, KeptTrue, Early, Passing
<1>6. CASE KeepLoose
  <2>1. PICK o \in inside :
       \/ UNCHANGED <<disk, kept>>
       \/ disk' = [disk EXCEPT !.loose[o] = "none"] /\ kept' = kept \cup {<<"loose", o>>}
       \/ disk' = [disk EXCEPT !.loose[o] = "good"] /\ UNCHANGED kept
    BY <1>6 DEF KeepLoose
  <2>2. UNCHANGED <<pc, dmg, todo, cur>> /\ pc = "rescue"
    BY <1>6 DEF KeepLoose
  <2>3. o \in Objects
    BY DEF TypeOK
  <2>4. /\ disk'.pack = disk.pack /\ disk'.prefs = disk.prefs /\ disk'.alt = disk.alt
        /\ disk'.loose[o] # "bad" \/ UNCHANGED <<disk, kept>>
        /\ \A x \in Objects \ {o} : disk'.loose[x] = disk.loose[x]
    BY <1>0, <2>1, <2>3 DEF Disk
  <2> QED
    BY <2>1, <2>2, <2>3, <2>4 DEF KeptTrue, Early, Passing
<1>7. CASE TakePack
  <2>1. cur \in Packs /\ disk.pack[cur] \in {"sound", "sumwrong", "headless"}
    BY <1>7, CurKinds DEF TakePack, Emptying, Opens
  <2>2. /\ disk'.pack[cur] = "halfgone" /\ disk'.prefs = disk.prefs /\ disk'.alt = disk.alt
        /\ disk'.loose = disk.loose
        /\ \A p \in Packs \ {cur} : disk'.pack[p] = disk.pack[p]
    BY <1>0, <1>7, <2>1 DEF TakePack, Disk
  <2>3. UNCHANGED <<dmg, todo, cur>> /\ pc = "rescue" /\ pc' = "displace" /\ kept' = kept \cup {<<"pack", cur>>}
    BY <1>7 DEF TakePack
  <2> QED
    BY <2>1, <2>2, <2>3 DEF KeptTrue, Early, Passing
<1>8. CASE TakeCompanions
  <2>1. cur \in Packs
    BY <1>8, CurKinds DEF TakeCompanions
  <2>2. /\ disk'.pack[cur] = "gone" /\ disk'.prefs = disk.prefs /\ disk'.alt = disk.alt
        /\ disk'.loose = disk.loose
        /\ \A p \in Packs \ {cur} : disk'.pack[p] = disk.pack[p]
    BY <1>0, <1>8, <2>1 DEF TakeCompanions, Disk
  <2>3. UNCHANGED <<dmg>> /\ pc = "displace" /\ pc' = "packs" /\ kept' = kept \cup {<<"idx", cur>>}
    BY <1>8 DEF TakeCompanions
  <2> QED
    BY <2>1, <2>2, <2>3 DEF KeptTrue, Early, Passing
<1>9. CASE Rescan
  <2>1. dmg'.prefs <=> disk'.prefs = "bad"
    BY <1>9 DEF Rescan, ScanOf
  <2> QED
    BY <1>9, <2>1 DEF Rescan, KeptTrue, Early, Passing
<1>10. CASE TakePackedRefs
  <2>1. /\ disk'.pack = disk.pack /\ disk'.prefs = "absent" /\ disk'.alt = disk.alt
        /\ disk'.loose = disk.loose
    BY <1>0, <1>10 DEF TakePackedRefs, Disk
  <2> QED
    BY <1>10, <2>1 DEF TakePackedRefs, KeptTrue, Early, Passing
<1>11. CASE WritePackedRefs
  <2>1. /\ disk'.pack = disk.pack /\ disk'.prefs = "ok" /\ disk'.alt = disk.alt
        /\ disk'.loose = disk.loose
    BY <1>0, <1>11 DEF WritePackedRefs, Disk
  <2> QED
    BY <1>11, <2>1 DEF WritePackedRefs, KeptTrue, Early, Passing
<1>12. CASE OpenSources \/ Prime \/ LeaveStuck \/ FindObject \/ Descend \/ EndPass \/ NothingToDo
  <2>1. UNCHANGED <<disk, kept>> /\ pc \in Passing \cup {"prefs"}
        /\ pc' \in Passing \cup {"refs"}
    BY <1>12 DEF OpenSources, Prime, LeaveStuck, FindObject, Descend, EndPass, NothingToDo, Passing
  <2> QED
    BY <2>1 DEF KeptTrue, Early, Passing
<1>13. CASE TakeCopies
  <2>1. cur \in Objects /\ UNCHANGED <<pc, todo, cur, dmg>> /\ pc = "take"
    BY <1>13, CurKinds DEF TakeCopies
  <2>2. /\ disk'.pack = disk.pack /\ disk'.prefs = disk.prefs
        /\ \A o \in Objects : disk'.alt[o] \in {disk.alt[o], "none"}
        /\ \A o \in Objects : disk'.loose[o] \in {disk.loose[o], "none"}
    <3>1. CASE disk' = [disk EXCEPT !.loose[cur] = "none"]
      BY <1>0, <2>1, <3>1 DEF Disk
    <3>2. CASE disk' = [disk EXCEPT !.alt[cur] = "none"]
      BY <1>0, <2>1, <3>2 DEF Disk
    <3> QED
      BY <1>13, <3>1, <3>2 DEF TakeCopies
  <2>3. \/ disk'.loose[cur] = "none" /\ kept' = kept \cup {<<"loose", cur>>}
        \/ disk'.alt[cur] = "none" /\ kept' = kept \cup {<<"alt", cur>>}
    BY <1>0, <1>13, <2>1 DEF TakeCopies, Disk
  <2> QED
    BY <2>1, <2>2, <2>3 DEF KeptTrue, Early, Passing
<1>14. CASE WriteObject
  <2>1. cur \in Objects /\ UNCHANGED kept /\ pc = "take" /\ pc' = "ladder"
    BY <1>14, CurKinds DEF WriteObject
  <2>2. /\ disk'.pack = disk.pack /\ disk'.prefs = disk.prefs /\ disk'.alt = disk.alt
        /\ disk'.loose[cur] = "good" /\ \A o \in Objects \ {cur} : disk'.loose[o] = disk.loose[o]
    BY <1>0, <1>14, <2>1 DEF WriteObject, Disk
  <2> QED
    BY <2>1, <2>2 DEF KeptTrue, Early, Passing
<1>15. CASE LeaveRef \/ EndRefs
  BY <1>15 DEF LeaveRef, EndRefs, KeptTrue, Early, Passing
<1>16. CASE TakeRef
  <2>1. PICK f \in todo : disk' = [disk EXCEPT !.ref[f] = "gone"] /\ cur' = f
                          /\ kept' = kept \cup {<<"ref", f>>}
    BY <1>16 DEF TakeRef
  <2>2. /\ disk'.pack = disk.pack /\ disk'.prefs = disk.prefs /\ disk'.alt = disk.alt
        /\ disk'.loose = disk.loose
    BY <1>0, <2>1 DEF Disk
  <2>3. pc = "refs" /\ pc' = "refTaken" /\ UNCHANGED <<dmg, todo>>
    BY <1>16 DEF TakeRef
  <2> QED
    BY <2>1, <2>2, <2>3 DEF KeptTrue, Early, Passing
<1>17. CASE CreateRef \/ FillRef
  <2>1. /\ disk'.pack = disk.pack /\ disk'.prefs = disk.prefs /\ disk'.alt = disk.alt
        /\ disk'.loose = disk.loose
    BY <1>0, <1>17 DEF CreateRef, FillRef, Disk
  <2> QED
    BY <1>17, <2>1 DEF CreateRef, FillRef, KeptTrue, Early, Passing
<1>18. CASE TakeIndex
  <2>1. PICK w \in dmg.index : disk' = [disk EXCEPT !.idx[w] = "absent"] /\ kept' = kept \cup {<<"index", w>>}
    BY <1>18 DEF TakeIndex
  <2>2. /\ disk'.pack = disk.pack /\ disk'.prefs = disk.prefs /\ disk'.alt = disk.alt
        /\ disk'.loose = disk.loose
    BY <1>0, <2>1 DEF Disk
  <2>3. pc = "index" /\ pc' = "indexTaken"
    BY <1>18 DEF TakeIndex
  <2> QED
    BY <2>1, <2>2, <2>3 DEF KeptTrue, Early, Passing
<1>19. CASE WriteIndex
  <2>1. /\ disk'.pack = disk.pack /\ disk'.prefs = disk.prefs /\ disk'.alt = disk.alt
        /\ disk'.loose = disk.loose
    BY <1>0, <1>19 DEF WriteIndex, Disk
  <2> QED
    BY <1>19, <2>1 DEF WriteIndex, KeptTrue, Early, Passing
<1>20. CASE Verify \/ Kill
  BY <1>20 DEF Verify, Kill, Exit, KeptTrue, Early, Passing
<1>21. CASE Rest \/ UNCHANGED vars
  BY <1>21 DEF Rest, vars, process, history, KeptTrue, Early, Passing
<1> QED
  BY <1>1, <1>2, <1>3, <1>4, <1>5, <1>6, <1>7, <1>8, <1>9, <1>10, <1>11, <1>12, <1>13, <1>14,
     <1>15, <1>16, <1>17, <1>18, <1>19, <1>20, <1>21
  DEF Next, Step

\* What the list names and is not there was taken after the list was looked at
\* (packsListStale).
LEMMA ListTrueStep == TypeOK /\ Kinds /\ Emptying /\ ListTrue /\ [Next]_vars => ListTrue'
<1> SUFFICES ASSUME TypeOK, Kinds, Emptying, ListTrue, [Next]_vars PROVE ListTrue'
  OBVIOUS
<1>0. disk \in Disk /\ disk.list \subseteq Packs
  BY DEF TypeOK, Disk
<1> USE DEF recovery, notes, NotTaking, GoOn, Take
<1>1. CASE StartRun
  BY <1>1 DEF StartRun, ListTrue
<1>2. CASE FirstScan
  <2>1. Stale => PacksList \in ScanOf.derived
    BY DEF ScanOf
  <2>2. ScanOf = NoDamage => ~Stale
    BY <2>1 DEF NoDamage
  <2> QED
    BY <1>2, <2>1, <2>2 DEF FirstScan, ListTrue, Stale
<1>3. CASE TakeDerived
  <2>1. PICK c \in todo : /\ disk' = IF c = PacksList THEN [disk EXCEPT !.list = {}]
                                            ELSE [disk EXCEPT !.broken = @ \ {c}]
                          /\ kept' = kept \cup {<<"cache", c>>} /\ todo' = todo \ {c}
    BY <1>3 DEF TakeDerived
  <2>2. disk'.pack = disk.pack /\ (c = PacksList => disk'.list = {}) /\ (c # PacksList => disk'.list = disk.list)
    BY <1>0, <2>1 DEF Disk
  <2> QED
    BY <1>3, <2>1, <2>2 DEF TakeDerived, ListTrue
<1>4. CASE TakePack \/ TakeCompanions
  <2>1. cur \in Packs /\ pc \in {"rescue", "displace"} /\ disk'.list = disk.list
        /\ \A p \in Packs \ {cur} : disk'.pack[p] = disk.pack[p]
    BY <1>0, <1>4, CurKinds DEF TakePack, TakeCompanions, Disk
  <2>2. CASE TakePack
    BY <1>0, <2>1, <2>2 DEF TakePack, ListTrue
  <2>3. CASE TakeCompanions
    BY <1>0, <2>1, <2>3 DEF TakeCompanions, ListTrue, Emptying
  <2> QED
    BY <1>4, <2>2, <2>3
<1>5. CASE \/ EndDerived \/ RefusePack \/ OpenPack \/ KeepFails \/ CompanionsFail \/ EndPacks \/ Rescan
          \/ OpenSources \/ Prime \/ LeaveStuck \/ FindObject \/ EndPass \/ NothingToDo \/ Descend
          \/ LeaveRef \/ EndRefs \/ Verify
  <2>1. UNCHANGED <<disk, kept>> /\ pc \notin {"idle", "scan"} /\ (pc = "derived" => todo = {})
    BY <1>5 DEF EndDerived, RefusePack, OpenPack, KeepFails, CompanionsFail, EndPacks, Rescan, OpenSources,
                Prime, LeaveStuck, FindObject, EndPass, NothingToDo, Descend, LeaveRef, EndRefs, Verify
  <2> QED
    BY <2>1 DEF ListTrue
<1>6. CASE Kill
  BY <1>6 DEF Kill, Exit, ListTrue, Kinds
<1>7. CASE KeepLoose \/ TakePackedRefs \/ WritePackedRefs \/ TakeCopies \/ WriteObject
  <2>1. disk'.list = disk.list /\ disk'.pack = disk.pack
    <3>1. CASE KeepLoose
      BY <1>0, <3>1 DEF KeepLoose, Disk
    <3>2. CASE TakePackedRefs \/ WritePackedRefs
      BY <1>0, <3>2 DEF TakePackedRefs, WritePackedRefs, Disk
    <3>3. CASE TakeCopies \/ WriteObject
      BY <1>0, <3>3 DEF TakeCopies, WriteObject, Disk
    <3> QED
      BY <1>7, <3>1, <3>2, <3>3
  <2>2. kept \subseteq kept' /\ pc \notin {"idle", "scan", "derived"}
    BY <1>7 DEF KeepLoose, TakePackedRefs, WritePackedRefs, TakeCopies, WriteObject
  <2> QED
    BY <2>1, <2>2 DEF ListTrue
<1>8. CASE TakeRef \/ CreateRef \/ FillRef \/ TakeIndex \/ WriteIndex
  <2>1. disk'.list = disk.list /\ disk'.pack = disk.pack
    BY <1>0, <1>8 DEF TakeRef, CreateRef, FillRef, TakeIndex, WriteIndex, Disk
  <2>2. kept \subseteq kept' /\ pc \notin {"idle", "scan", "derived"}
    BY <1>8 DEF TakeRef, CreateRef, FillRef, TakeIndex, WriteIndex
  <2> QED
    BY <2>1, <2>2 DEF ListTrue
<1>9. CASE Rest \/ UNCHANGED vars
  BY <1>9 DEF Rest, vars, process, history, ListTrue
<1> QED
  BY <1>1, <1>2, <1>3, <1>4, <1>5, <1>6, <1>7, <1>8, <1>9 DEF Next, Step

-----------------------------------------------------------------------------
(***************************************************************************)
(* The references.                                                         *)
(***************************************************************************)

\* What a step leaves of the references when it works on something else.
LEMMA RefsStay ==
  TypeOK /\ [Next]_vars =>
    \/ TakePackedRefs \/ WritePackedRefs \/ TakeRef \/ CreateRef \/ FillRef
    \/ disk'.ref = disk.ref /\ disk'.prefs = disk.prefs /\ disk'.lines = disk.lines
<1> SUFFICES ASSUME TypeOK, [Next]_vars, disk' # disk,
                    ~ (TakePackedRefs \/ WritePackedRefs \/ TakeRef \/ CreateRef \/ FillRef)
    PROVE disk'.ref = disk.ref /\ disk'.prefs = disk.prefs /\ disk'.lines = disk.lines
  OBVIOUS
<1>0. disk \in Disk
  BY DEF TypeOK
<1>1. CASE TakeDerived \/ KeepLoose \/ TakeCopies \/ WriteObject
  <2>1. CASE TakeDerived
    BY <1>0, <2>1 DEF TakeDerived, Disk
  <2>2. CASE KeepLoose
    BY <1>0, <2>2 DEF KeepLoose, Disk
  <2>3. CASE TakeCopies \/ WriteObject
    BY <1>0, <2>3 DEF TakeCopies, WriteObject, Disk
  <2> QED
    BY <1>1, <2>1, <2>2, <2>3
<1>2. CASE TakePack \/ TakeCompanions
  BY <1>0, <1>2 DEF TakePack, TakeCompanions, Disk
<1>3. CASE TakeIndex \/ WriteIndex
  BY <1>0, <1>3 DEF TakeIndex, WriteIndex, Disk
<1> QED
  BY <1>1, <1>2, <1>3
  DEF Next, Step, vars, process, history, StartRun, FirstScan, EndDerived, RefusePack, OpenPack,
      KeepFails, CompanionsFail, EndPacks, Rescan, OpenSources, Prime, LeaveStuck, FindObject,
      EndPass, NothingToDo, Descend, LeaveRef, EndRefs, Verify, Kill, Rest

\* A reference of a first run goes away with its line of packed-refs and is
\* counted, or is about to be written again (repairPackedRefs, repairRef).
LEMMA RefsTrueStep == TypeOK /\ Kinds /\ KeptTrue /\ RefsTrue /\ [Next]_vars => RefsTrue'
<1> SUFFICES ASSUME TypeOK, Kinds, KeptTrue, RefsTrue, [Next]_vars PROVE RefsTrue'
  OBVIOUS
<1>0. disk \in Disk /\ runs \in Nat
  BY RunAssumption DEF TypeOK
<1> USE DEF recovery, notes, NotTaking, GoOn, Take
<1>1. CASE StartRun
  <2>1. runs = 0 => \A f \in Refs : /\ disk.ref[f] # "gone" /\ (f \in Packed => disk.prefs # "absent")
                                    /\ disk.ref[f] = "garbled" =>
                                         disk.prefs = "bad" /\ \E i \in DOMAIN disk.lines : f \in disk.lines[i].of
    BY DamageAssumption DEF RefsTrue
  <2>2. NamedBack(NoResult)
    BY DEF NamedBack, NoResult
  <2> QED
    BY <1>0, <1>1, <2>1, <2>2 DEF StartRun, RefsTrue, Passing, Late
<1>2. CASE FirstScan
  <2>1. ScanOf.prefs <=> disk.prefs = "bad"
    BY DEF ScanOf
  <2>2. ScanOf = NoDamage => disk.prefs # "bad"
    BY <2>1 DEF NoDamage
  <2>3. /\ UNCHANGED <<disk, result, finished, runs>> /\ pc = "scan"
        /\ pc' \in {"verify", "derived"} /\ (pc' = "verify" => ScanOf = NoDamage)
    BY <1>2 DEF FirstScan
  <2>4. ~finished
    BY <2>3 DEF Kinds
  <2> QED
    BY <2>2, <2>3, <2>4 DEF RefsTrue, Passing, Late
<1>3. CASE TakePackedRefs
  <2>1. disk'.prefs = "absent" /\ disk'.ref = disk.ref /\ disk'.lines = disk.lines
    BY <1>0, <1>3 DEF TakePackedRefs, Disk
  <2>2. disk.prefs = "bad"
    BY <1>3 DEF TakePackedRefs, KeptTrue
  <2> QED
    BY <1>3, <2>1, <2>2 DEF TakePackedRefs, RefsTrue, Passing, Late, Kinds
<1>4. CASE WritePackedRefs
  <2>1. /\ disk'.prefs = "ok"
        /\ disk'.ref = [f \in Refs |-> IF f \notin Garbled THEN disk.ref[f]
                                        ELSE IF f \in RestoredRefs THEN "ok" ELSE "gone"]
    BY <1>0, <1>4 DEF WritePackedRefs, Disk
  <2>2. result'.dropped = disk.lines /\ result'.restored = RestoredRefs
    BY <1>4 DEF WritePackedRefs, TypeOK
  <2>3. pc = "prefsTaken" /\ pc' = "rescan" /\ UNCHANGED <<runs, finished>> /\ ~finished
    BY <1>4 DEF WritePackedRefs, Kinds
  <2>4. NamedBack(result')
    BY <2>2 DEF NamedBack, RestoredRefs, namesInDroppedLines
  <2>5. ASSUME runs = 1, NEW f \in Refs
        PROVE  disk'.ref[f] # "garbled" /\ (disk'.ref[f] = "gone" => LostLine(f, result'))
    <3>1. disk.ref[f] # "gone" /\ (f \in Garbled => \E i \in DOMAIN disk.lines : f \in disk.lines[i].of)
      BY <2>3, <2>5 DEF RefsTrue, Garbled
    <3> QED
      BY <2>1, <2>2, <3>1 DEF LostLine, Garbled
  <2> QED
    BY <2>1, <2>3, <2>4, <2>5, <1>0 DEF RefsTrue, Passing, Late
<1>5. CASE TakeRef
  <2>1. PICK f \in todo : disk' = [disk EXCEPT !.ref[f] = "gone"] /\ cur' = f
    BY <1>5 DEF TakeRef
  <2>2. f \in Refs
    BY <1>5 DEF TakeRef, Kinds
  <2>3. disk'.prefs = disk.prefs /\ disk'.lines = disk.lines /\ disk'.ref[f] = "gone" /\ \A g \in Refs \ {f} : disk'.ref[g] = disk.ref[g]
    BY <1>0, <2>1, <2>2 DEF Disk
  <2> QED
    BY <1>5, <2>1, <2>2, <2>3 DEF TakeRef, RefsTrue, Passing, Late, Kinds
<1>6. CASE CreateRef \/ FillRef
  <2>1. cur \in Refs
    BY <1>6, CurKinds DEF CreateRef, FillRef
  <2>2. /\ disk'.prefs = disk.prefs /\ disk'.lines = disk.lines /\ disk'.ref[cur] \in {"malformed", "ok"}
        /\ \A g \in Refs \ {cur} : disk'.ref[g] = disk.ref[g]
    <3>1. CASE CreateRef
      BY <1>0, <2>1, <3>1 DEF CreateRef, Disk
    <3>2. CASE FillRef
      BY <1>0, <2>1, <3>2 DEF FillRef, Disk
    <3> QED
      BY <1>6, <3>1, <3>2
  <2>3. UNCHANGED <<runs, result, finished>> /\ pc \in {"refTaken", "refCreated"} /\ pc' \in {"refs", "refCreated"}
    BY <1>6 DEF CreateRef, FillRef
  <2>4. ~finished
    BY <2>3 DEF Kinds
  <2>5. disk.prefs # "bad"
    BY <2>3 DEF RefsTrue, Late
  <2>6. (runs = 1)' => \A f \in Refs :
            /\ disk'.ref[f] = "gone" => LostLine(f, result') \/ (pc' = "refTaken" /\ f = cur')
            /\ disk'.ref[f] = "garbled" => /\ disk'.prefs = "bad" \/ pc' = "prefsTaken"
                                           /\ \E i \in DOMAIN disk'.lines : f \in disk'.lines[i].of
            /\ f \in Packed /\ disk'.prefs = "absent" => pc' = "prefsTaken"
    BY <2>2, <2>3, <2>5 DEF RefsTrue
  <2> QED
    BY <2>2, <2>3, <2>4, <2>5, <2>6, <1>0 DEF RefsTrue, Passing, Late, Kinds
<1>7. CASE ~ (StartRun \/ FirstScan \/ TakePackedRefs \/ WritePackedRefs \/ TakeRef \/ CreateRef \/ FillRef)
  <2>1. disk'.ref = disk.ref /\ disk'.prefs = disk.prefs /\ disk'.lines = disk.lines
    BY <1>7, RefsStay
  <2>2. CASE UNCHANGED vars
    BY <2>2 DEF vars, process, history, RefsTrue
  <2>3. CASE TakeDerived \/ EndDerived \/ OpenPack \/ KeepLoose \/ TakePack \/ TakeCompanions \/ EndPacks \/ Rescan
    <3>1. UNCHANGED <<runs, finished, result>> /\ pc \in Early \ {"prefsTaken"} /\ pc' \in Early \ {"prefsTaken"}
      BY <2>3 DEF TakeDerived, EndDerived, OpenPack, KeepLoose, TakePack, TakeCompanions, EndPacks,
                  Rescan, Early
    <3>2. ~finished /\ runs # 0 /\ pc # "idle" /\ pc # "refTaken" /\ pc' # "refTaken"
          /\ pc' \notin Passing \cup Late
      BY <3>1 DEF Kinds, RefsTrue, Early, Passing, Late
    <3> QED
      BY <2>1, <3>1, <3>2 DEF RefsTrue
  <2>4. CASE RefusePack \/ KeepFails \/ CompanionsFail
    <3>1. /\ UNCHANGED <<runs, finished>> /\ pc \in {"packs", "rescue", "displace"} /\ pc' = "packs"
          /\ result'.dropped = result.dropped /\ result'.restored = result.restored
      BY <2>4 DEF RefusePack, KeepFails, CompanionsFail, Refuse, TypeOK
    <3> QED
      BY <2>1, <3>1 DEF RefsTrue, LostLine, NamedBack, Kinds, Passing, Late
  <2>5. CASE OpenSources
    <3>1. disk.prefs # "bad"
      BY <2>5 DEF OpenSources, KeptTrue
    <3> QED
      BY <2>1, <2>5, <3>1 DEF OpenSources, RefsTrue, Kinds, Passing, Late
  <2>6. CASE Prime \/ LeaveStuck \/ FindObject \/ TakeCopies \/ WriteObject \/ NothingToDo \/ Descend
    <3>1. UNCHANGED <<runs, finished, result>> /\ pc \in Passing /\ pc' \in Passing \cup {"refs"}
      BY <2>6 DEF Prime, LeaveStuck, FindObject, TakeCopies, WriteObject, NothingToDo, Descend, Passing
    <3> QED
      BY <2>1, <3>1 DEF RefsTrue, Kinds, Passing, Late
  <2>7. CASE EndPass
    <3>1. /\ UNCHANGED <<runs, finished>> /\ pc = "ladder" /\ pc' \in {"refs", "descend"}
          /\ result'.dropped = result.dropped /\ result'.restored = result.restored
      BY <2>7 DEF EndPass, TypeOK
    <3> QED
      BY <2>1, <3>1 DEF RefsTrue, LostLine, NamedBack, Kinds, Passing, Late
  <2>8. CASE LeaveRef \/ EndRefs \/ TakeIndex \/ WriteIndex
    <3>1. UNCHANGED <<runs, finished, result>> /\ pc \in {"refs", "index", "indexTaken"}
          /\ pc' \in {"refs", "index", "indexTaken", "verify"}
      BY <2>8 DEF LeaveRef, EndRefs, TakeIndex, WriteIndex
    <3> QED
      BY <2>1, <3>1 DEF RefsTrue, Kinds, Passing, Late
  <2>9. CASE Verify
    <3>1. /\ UNCHANGED <<runs>> /\ pc = "verify" /\ pc' = "idle" /\ finished' = TRUE
          /\ result'.dropped = result.dropped /\ result'.restored = result.restored
          /\ result'.clean = FsckClean
      BY <2>9 DEF Verify, Exit, TypeOK
    <3>2. FsckClean => disk.prefs # "bad" /\ \A f \in Refs : disk.ref[f] # "malformed"
      BY DEF FsckClean
    <3> QED
      BY <2>1, <3>1, <3>2 DEF RefsTrue, LostLine, NamedBack, Kinds, Passing, Late
  <2>10. CASE Kill
    <3>1. UNCHANGED <<runs, finished>> /\ pc # "idle" /\ pc' = "idle" /\ result' = NoResult
      BY <2>10 DEF Kill, Exit
    <3>2. NamedBack(NoResult)
      BY DEF NamedBack, NoResult
    <3> QED
      BY <2>1, <3>1, <3>2 DEF RefsTrue, Kinds, Passing, Late
  <2> QED
    BY <1>7, <2>2, <2>3, <2>4, <2>5, <2>6, <2>7, <2>8, <2>9, <2>10 DEF Next, Step, Rest
<1> QED
  BY <1>1, <1>2, <1>3, <1>4, <1>5, <1>6, <1>7

-----------------------------------------------------------------------------
(***************************************************************************)
(* The walk of a scan, and of a descent.                                   *)
(***************************************************************************)

\* What a walk reads is the least set that has its starts and, of each object
\* that reads, what it names and is not known (walk).
LEMMA WalkedFacts ==
  ASSUME NEW S, S \subseteq Objects, NEW K
  PROVE  /\ S \subseteq Walked(S, K) /\ Walked(S, K) \subseteq Objects
         /\ \A o \in Walked(S, K) : Reads(o) => (Links[o] \ K) \subseteq Walked(S, K)
         /\ \A T \in SUBSET Objects :
              S \subseteq T /\ (\A o \in T : Reads(o) => (Links[o] \ K) \subseteq T)
                => Walked(S, K) \subseteq T
<1> DEFINE Closed(T) == /\ S \subseteq T
                        /\ \A o \in T : Reads(o) => (Links[o] \ K) \subseteq T
<1>1. Walked(S, K) = {o \in Objects : \A T \in SUBSET Objects : Closed(T) => o \in T}
  BY DEF Walked
<1>2. S \subseteq Walked(S, K)
  BY <1>1
<1>3. ASSUME NEW o \in Walked(S, K), Reads(o), NEW x \in Links[o], x \notin K
      PROVE  x \in Walked(S, K)
  <2>1. o \in Objects
    BY <1>1
  <2>2. x \in Objects
    BY <2>1, RunAssumption
  <2>3. ASSUME NEW T \in SUBSET Objects, Closed(T) PROVE x \in T
    <3>1. o \in T
      BY <1>1, <2>3
    <3> QED
      BY <1>3, <2>3, <3>1
  <2> HIDE DEF Closed
  <2> QED
    BY <1>1, <2>2, <2>3
<1>4. ASSUME NEW T \in SUBSET Objects, Closed(T) PROVE Walked(S, K) \subseteq T
  BY <1>1, <1>4
<1> QED
  BY <1>1, <1>2, <1>3, <1>4

\* A scan gives what the references lead to, and what of it does not read.
LEMMA ScanExact ==
  ASSUME disk \in Disk, roots = Roots
  PROVE  Exactly(Walked(Roots, {}), Unreadable(Walked(Roots, {})))
<1> DEFINE W == Walked(Roots, {})
           B == Unreadable(W)
<1>1. Roots \subseteq Objects
  BY ScanTyped
<1>2. /\ Roots \subseteq W /\ W \subseteq Objects
      /\ \A o \in W : Reads(o) => Links[o] \subseteq W
      /\ \A T \in SUBSET Objects :
           Roots \subseteq T /\ (\A o \in T : Reads(o) => Links[o] \subseteq T) => W \subseteq T
  <2>1. \A o : Links[o] \ {} = Links[o]
    OBVIOUS
  <2> QED
    BY <1>1, <2>1, WalkedFacts
<1>3. B \subseteq W /\ \A o \in W : Reads(o) <=> o \notin B
  BY DEF Unreadable
<1> HIDE DEF W, B
<1>4. ASSUME NEW T \in SUBSET Objects, Roots \subseteq T,
             \A o \in T \cap (W \ B) : Links[o] \subseteq T
      PROVE  W \subseteq T
  <2>1. T \cap W \in SUBSET Objects /\ Roots \subseteq T \cap W
    BY <1>2, <1>4
  <2>2. \A o \in T \cap W : Reads(o) => Links[o] \subseteq T \cap W
    BY <1>2, <1>3, <1>4
  <2>3. W \subseteq T \cap W
    BY <1>2, <2>1, <2>2
  <2> QED
    BY <2>3
<1>5. Spans(W, B)
  BY <1>2, <1>3, <1>4 DEF Spans
<1> QED
  BY <1>3, <1>5 DEF Exactly, W, B

\* And what is exactly that is what a walk would find.
LEMMA ExactlyWalked ==
  ASSUME NEW S, NEW B, Exactly(S, B)
  PROVE  Unreadable(Walked(roots, {})) = B
<1> DEFINE W == Walked(roots, {})
<1>1. /\ roots \subseteq S /\ B \subseteq S /\ S \subseteq Objects
      /\ \A o \in S \ B : Links[o] \subseteq S
      /\ \A o \in S : Reads(o) <=> o \notin B
      /\ \A T \in SUBSET Objects :
           roots \subseteq T /\ (\A o \in T \cap (S \ B) : Links[o] \subseteq T) => S \subseteq T
  BY DEF Exactly, Spans
<1>2. /\ roots \subseteq W /\ W \subseteq Objects
      /\ \A o \in W : Reads(o) => Links[o] \subseteq W
      /\ \A T \in SUBSET Objects :
           roots \subseteq T /\ (\A o \in T : Reads(o) => Links[o] \subseteq T) => W \subseteq T
  <2>1. \A o : Links[o] \ {} = Links[o]
    OBVIOUS
  <2>2. roots \subseteq Objects
    BY <1>1
  <2> QED
    BY <2>1, <2>2, WalkedFacts
<1> HIDE DEF W
<1>3. W \subseteq S
  <2>1. \A o \in S : Reads(o) => Links[o] \subseteq S
    BY <1>1
  <2> QED
    BY <1>1, <1>2, <2>1
<1>4. S \subseteq W
  <2>1. \A o \in W \cap (S \ B) : Links[o] \subseteq W
    BY <1>1, <1>2
  <2> QED
    BY <1>1, <1>2, <2>1
<1>5. W = S
  BY <1>3, <1>4
<1>6. Unreadable(S) = B
  BY <1>1 DEF Unreadable
<1> QED
  BY <1>5, <1>6 DEF W

\* A descent goes on where the walk before it stopped: what the pass put back
\* is walked again, and what it left stays as it is (descend, Retarget).
LEMMA DescendSpans ==
  ASSUME NEW S, NEW stay, NEW again, Spans(S, stay \cup again), stay \cap again = {},
         \A o \in S \ (stay \cup again) : Reads(o), \A o \in stay : ~Reads(o)
  PROVE  LET R == Walked(again, S \ again)
             N == (S \ again) \cup R
             B == Unreadable(R) \cup stay
         IN  Spans(N, B) /\ \A o \in N : Reads(o) <=> o \notin B
<1> DEFINE K == S \ again
           R == Walked(again, K)
           N == K \cup R
           B == Unreadable(R) \cup stay
<1>1. /\ roots \subseteq S /\ stay \subseteq S /\ again \subseteq S /\ S \subseteq Objects
      /\ \A o \in S \ (stay \cup again) : Links[o] \subseteq S
      /\ \A T \in SUBSET Objects :
           roots \subseteq T /\ (\A o \in T \cap (S \ (stay \cup again)) : Links[o] \subseteq T) => S \subseteq T
  BY DEF Spans
<1>2. /\ again \subseteq R /\ R \subseteq Objects
      /\ \A o \in R : Reads(o) => (Links[o] \ K) \subseteq R
      /\ \A T \in SUBSET Objects :
           again \subseteq T /\ (\A o \in T : Reads(o) => (Links[o] \ K) \subseteq T) => R \subseteq T
  <2>1. again \subseteq Objects
    BY <1>1
  <2> HIDE DEF K
  <2> QED
    BY <2>1, WalkedFacts
<1>3. \A o : o \in Unreadable(R) <=> o \in R /\ ~Reads(o)
  BY DEF Unreadable
<1> HIDE DEF R
<1>4. S \subseteq N /\ N \subseteq Objects /\ B \subseteq N
  BY <1>1, <1>2, <1>3
<1>5. ASSUME NEW o \in N PROVE Reads(o) <=> o \notin B
  BY <1>1, <1>3, <1>5
<1>6. ASSUME NEW o \in N, o \notin B PROVE Links[o] \subseteq N
  <2>1. CASE o \in R
    BY <1>2, <1>5, <1>6, <2>1
  <2>2. CASE o \notin R
    BY <1>1, <1>4, <1>6, <2>2
  <2> QED
    BY <2>1, <2>2
<1>7. ASSUME NEW T \in SUBSET Objects, roots \subseteq T,
             \A o \in T \cap (N \ B) : Links[o] \subseteq T
      PROVE  N \subseteq T
  <2>1. ASSUME NEW o \in T \cap (S \ (stay \cup again)) PROVE o \in N \ B
    BY <1>3, <2>1
  <2>2. S \subseteq T
    BY <1>1, <1>7, <2>1
  <2>3. \A o \in T \cap R : Reads(o) => (Links[o] \ K) \subseteq T \cap R
    <3>1. \A o \in T \cap R : Reads(o) => o \in N \ B
      BY <1>5
    <3> QED
      BY <1>2, <1>7, <3>1
  <2>4. again \subseteq T \cap R /\ T \cap R \in SUBSET Objects
    BY <1>1, <1>2, <2>2
  <2>5. R \subseteq T \cap R
    BY <1>2, <2>3, <2>4
  <2> QED
    BY <2>2, <2>5
<1>8. Spans(N, B)
  <2> HIDE DEF N, B
  <2> QED
    BY <1>1, <1>4, <1>6, <1>7 DEF Spans
<1> QED
  BY <1>5, <1>8 DEF R

\* Two states that agree on the roots, and on what reads.
LEMMA SameSpans ==
  ASSUME roots' = roots
  PROVE  /\ \A S, B : Spans(S, B)' <=> Spans(S, B)
         /\ (\A o : Reads(o)' <=> Reads(o)) => \A S, B : Exactly(S, B)' <=> Exactly(S, B)
<1>1. \A S, B : Spans(S, B)' <=> Spans(S, B)
  BY DEF Spans
<1> QED
  BY <1>1 DEF Exactly

\* The files of one object are moved or written, and the others read as before.
LEMMA OthersRead ==
  ASSUME NEW c, disk'.entry = disk.entry, disk'.pack = disk.pack,
         \A o \in Objects \ {c} : disk'.loose[o] = disk.loose[o] /\ disk'.alt[o] = disk.alt[o]
  PROVE  \A o \in Objects \ {c} : (Reads(o)' <=> Reads(o)) /\ (FromDuplicate(o)' <=> FromDuplicate(o))
<1> TAKE o \in Objects \ {c}
<1>1. Holders(o)' = Holders(o)
  BY SamePacks
<1>2. disk'.loose[o] = disk.loose[o] /\ disk'.alt[o] = disk.alt[o]
  OBVIOUS
<1>3. Reads(o)' <=> Reads(o)
  BY <1>1, <1>2 DEF Reads
<1> QED
  BY <1>1, <1>2, <1>3 DEF FromDuplicate, HasFile

-----------------------------------------------------------------------------
(***************************************************************************)
(* What the remote answers.                                                *)
(***************************************************************************)

\* What objects lead to is the least set that has them and all they name.
LEMMA BelowFacts ==
  ASSUME NEW S, S \subseteq Objects
  PROVE  /\ S \subseteq Rung!Below(S) /\ Rung!Below(S) \subseteq Objects
         /\ \A o \in Rung!Below(S) : Links[o] \subseteq Rung!Below(S)
         /\ \A T \in SUBSET Objects :
              S \subseteq T /\ (\A o \in T : Links[o] \subseteq T) => Rung!Below(S) \subseteq T
<1> DEFINE Closed(T) == S \subseteq T /\ \A o \in T : Links[o] \subseteq T
<1>1. Rung!Below(S) = {o \in Objects : \A T \in SUBSET Objects : Closed(T) => o \in T}
  BY DEF Rung!Below
<1>2. S \subseteq Rung!Below(S)
  BY <1>1
<1>3. ASSUME NEW o \in Rung!Below(S), NEW x \in Links[o] PROVE x \in Rung!Below(S)
  <2>1. o \in Objects
    BY <1>1
  <2>2. x \in Objects
    BY <2>1, RunAssumption
  <2>3. ASSUME NEW T \in SUBSET Objects, Closed(T) PROVE x \in T
    <3>1. o \in T
      BY <1>1, <2>3
    <3> QED
      BY <2>3, <3>1
  <2> HIDE DEF Closed
  <2> QED
    BY <1>1, <2>2, <2>3
<1>4. ASSUME NEW T \in SUBSET Objects, Closed(T) PROVE Rung!Below(S) \subseteq T
  BY <1>1, <1>4
<1> QED
  BY <1>1, <1>2, <1>3, <1>4

\* What lies below something lies below what that lies below.
LEMMA BelowBelow ==
  ASSUME NEW x \in Objects, NEW z \in Rung!Below({x}), NEW y \in Rung!Below({z})
  PROVE  y \in Rung!Below({x})
<1>1. {x} \subseteq Objects
  OBVIOUS
<1>2. /\ Rung!Below({x}) \in SUBSET Objects
      /\ \A o \in Rung!Below({x}) : Links[o] \subseteq Rung!Below({x})
  BY <1>1, BelowFacts
<1>3. {z} \subseteq Objects /\ {z} \subseteq Rung!Below({x})
  BY <1>2
<1>4. \A T \in SUBSET Objects :
        {z} \subseteq T /\ (\A o \in T : Links[o] \subseteq T) => Rung!Below({z}) \subseteq T
  BY <1>3, BelowFacts
<1>5. Rung!Below({z}) \subseteq Rung!Below({x})
  BY <1>2, <1>3, <1>4
<1> QED
  BY <1>5

\* What lies below a set lies below a member of it.
LEMMA BelowOne ==
  ASSUME NEW S, S \subseteq Objects, NEW y \in Rung!Below(S)
  PROVE  \E x \in S : y \in Rung!Below({x})
<1> DEFINE U == {z \in Objects : \E x \in S : z \in Rung!Below({x})}
<1>1. ASSUME NEW x \in S
      PROVE  /\ x \in Rung!Below({x}) /\ Rung!Below({x}) \subseteq Objects
             /\ \A o \in Rung!Below({x}) : Links[o] \subseteq Rung!Below({x})
  <2>1. {x} \subseteq Objects
    OBVIOUS
  <2> QED
    BY <2>1, BelowFacts
<1>2. S \subseteq U /\ U \in SUBSET Objects
  BY <1>1
<1>3. \A o \in U : Links[o] \subseteq U
  BY <1>1
<1>4. \A T \in SUBSET Objects :
        S \subseteq T /\ (\A o \in T : Links[o] \subseteq T) => Rung!Below(S) \subseteq T
  BY BelowFacts
<1>5. Rung!Below(S) \subseteq U
  <2> HIDE DEF U
  <2> QED
    BY <1>2, <1>3, <1>4
<1> QED
  BY <1>5

\* What a fetch by name brings is what it names, or lies below it.
LEMMA BroughtBelow ==
  ASSUME NEW S, S \subseteq Objects, NEW b \in Rung!Brought(S), NEW y \in b
  PROVE  \E x \in S : y \in Rung!Below({x})
<1>1. PICK m \in SUBSET (Rung!Below(S) \cap Remote) : b = S \cup m
  BY DEF Rung!Brought
<1>2. S \subseteq Rung!Below(S)
  BY BelowFacts
<1>3. y \in Rung!Below(S)
  BY <1>1, <1>2
<1> QED
  BY <1>3, BelowOne

\* A name the remote was asked for is had, unless every ref was fetched or the
\* remote failed (Prime).
LEMMA OutcomesAnswer ==
  ASSUME NEW r \in Rungs, NEW S, NEW n \in Rung!Outcomes(r, S)
  PROVE  /\ r.got \subseteq n.got
         /\ n.all \/ n.failed \/ S \subseteq n.got
         /\ r.all \/ r.failed => n = r
<1> DEFINE w == S \ r.got
<1>1. CASE r.failed \/ r.all \/ w = {}
  BY <1>1 DEF Rung!Outcomes
<1>2. CASE ~ (r.failed \/ r.all \/ w = {})
  <2>1. n \in Rung!ByName(r, w) \cup Rung!ByEveryRef(r, w) \cup Rung!Fails(r, w) /\ ~r.failed /\ ~r.all
    BY <1>2 DEF Rung!Outcomes
  <2>2. CASE n \in Rung!ByName(r, w)
    <3>1. PICK b \in Rung!Brought(w) : n = [got |-> r.got \cup b, all |-> FALSE, failed |-> FALSE]
      BY <2>2 DEF Rung!ByName
    <3>2. w \subseteq b
      BY <3>1 DEF Rung!Brought
    <3> QED
      BY <2>1, <3>1, <3>2
  <2>3. CASE n \in Rung!ByEveryRef(r, w)
    <3>1. PICK p, out : n = [got |-> r.got \cup p \cup (Remote \ out), all |-> TRUE, failed |-> FALSE]
      BY <2>3 DEF Rung!ByEveryRef
    <3> QED
      BY <2>1, <3>1
  <2>4. CASE n \in Rung!Fails(r, w)
    <3>1. PICK p : n = [got |-> r.got \cup p, all |-> FALSE, failed |-> TRUE]
      BY <2>4 DEF Rung!Fails
    <3> QED
      BY <2>1, <3>1
  <2> QED
    BY <2>1, <2>2, <2>3, <2>4
<1> QED
  BY <1>1, <1>2

\* A name that was sent and an object that was left out lie below a name that
\* was asked for, before or now, or below what was had already (Prime).
LEMMA OutcomesBelow ==
  ASSUME NEW r \in Rungs, NEW S, S \subseteq Objects, NEW n \in Rung!Outcomes(r, S), n # r
  PROVE  /\ ~r.all /\ ~r.failed /\ ~ (n.all /\ n.failed)
         /\ \A y \in n.got : ~n.all /\ ~n.failed =>
              y \in r.got \/ \E x \in S \cap Remote \cap n.got : y \in Rung!Below({x})
         /\ \A y \in Remote \ n.got : n.all =>
              \/ \E x \in S \cap Remote \cap n.got : y \in Rung!Below({x})
              \/ \E z \in r.got : y \in Rung!Below({z})
<1> DEFINE w == S \ r.got
<1>1. n \in Rung!ByName(r, w) \cup Rung!ByEveryRef(r, w) \cup Rung!Fails(r, w) /\ ~r.failed /\ ~r.all
  BY DEF Rung!Outcomes
<1>2. r.got \subseteq Remote /\ Remote \subseteq Objects
  BY RunAssumption DEF Rungs
<1>3. CASE n \in Rung!ByName(r, w)
  <2>1. PICK b : n = [got |-> r.got \cup b, all |-> FALSE, failed |-> FALSE]
                 /\ b \in (IF Rung!Serves(w) THEN Rung!Brought(w) ELSE {})
    BY <1>3 DEF Rung!ByName
  <2>2. w \subseteq Remote /\ b \in Rung!Brought(w)
    BY <2>1 DEF Rung!Serves
  <2>3. w \subseteq b
    BY <2>2 DEF Rung!Brought
  <2>4. \A y \in b : \E x \in w : y \in Rung!Below({x})
    BY <2>2, BroughtBelow
  <2> QED
    BY <1>1, <2>1, <2>2, <2>3, <2>4
<1>4. CASE n \in Rung!ByEveryRef(r, w)
  <2>1. PICK p \in Rung!Parts(w) : \E out \in SUBSET Rung!Below(r.got \cup p) :
          n = [got |-> r.got \cup p \cup (Remote \ out), all |-> TRUE, failed |-> FALSE]
    BY <1>4 DEF Rung!ByEveryRef
  <2>2. PICK out \in SUBSET Rung!Below(r.got \cup p) :
          n = [got |-> r.got \cup p \cup (Remote \ out), all |-> TRUE, failed |-> FALSE]
    BY <2>1
  <2>3. PICK q \in SUBSET (w \cap Remote) : p \in Rung!Brought(q)
    BY <2>1 DEF Rung!Parts
  <2>4. q \subseteq p /\ q \subseteq Objects
    BY <1>2, <2>3 DEF Rung!Brought
  <2>5. p \subseteq Remote
    BY <2>3 DEF Rung!Brought
  <2>6. ASSUME NEW y \in Remote, y \notin n.got
        PROVE  (\E x \in q : y \in Rung!Below({x})) \/ \E z \in r.got : y \in Rung!Below({z})
    <3>1. y \in Rung!Below(r.got \cup p)
      BY <2>2, <2>6
    <3>2. PICK z \in r.got \cup p : y \in Rung!Below({z})
      BY <1>2, <2>5, <3>1, BelowOne
    <3>3. CASE z \in p
      <4>1. PICK x \in q : z \in Rung!Below({x})
        BY <2>3, <2>4, <3>3, BroughtBelow
      <4>2. y \in Rung!Below({x})
        BY <2>4, <3>2, <4>1, BelowBelow
      <4> QED
        BY <4>1, <4>2
    <3> QED
      BY <3>2, <3>3
  <2>7. q \subseteq n.got /\ q \subseteq S \cap Remote
    BY <2>2, <2>3, <2>4
  <2> QED
    BY <1>1, <2>2, <2>6, <2>7
<1>5. CASE n \in Rung!Fails(r, w)
  <2>1. PICK p : n = [got |-> r.got \cup p, all |-> FALSE, failed |-> TRUE]
    BY <1>5 DEF Rung!Fails
  <2> QED
    BY <1>1, <2>1
<1> QED
  BY <1>1, <1>3, <1>4, <1>5

-----------------------------------------------------------------------------
(***************************************************************************)
(* The passes.                                                             *)
(***************************************************************************)

\* What reads does not change when the references, the caches and the indexes
\* do, nor when nothing does.
LEMMA ReadsStay ==
  TypeOK /\ [Next]_vars
    /\ ~KeepLoose /\ ~TakePack /\ ~TakeCompanions /\ ~TakeCopies /\ ~WriteObject =>
    /\ disk'.loose = disk.loose /\ disk'.alt = disk.alt
    /\ disk'.entry = disk.entry /\ disk'.pack = disk.pack
<1> SUFFICES ASSUME TypeOK, [Next]_vars, disk' # disk,
                    ~KeepLoose /\ ~TakePack /\ ~TakeCompanions /\ ~TakeCopies /\ ~WriteObject
    PROVE /\ disk'.loose = disk.loose /\ disk'.alt = disk.alt
          /\ disk'.entry = disk.entry /\ disk'.pack = disk.pack
  OBVIOUS
<1>0. disk \in Disk
  BY DEF TypeOK
<1>1. CASE TakeDerived
  BY <1>0, <1>1 DEF TakeDerived, Disk
<1>2. CASE TakePackedRefs
  BY <1>0, <1>2 DEF TakePackedRefs, Disk
<1>3. CASE WritePackedRefs
  BY <1>0, <1>3 DEF WritePackedRefs, Disk
<1>4. CASE TakeRef
  BY <1>0, <1>4 DEF TakeRef, Disk
<1>5. CASE CreateRef
  BY <1>0, <1>5 DEF CreateRef, Disk
<1>6. CASE FillRef
  BY <1>0, <1>6 DEF FillRef, Disk
<1>7. CASE TakeIndex \/ WriteIndex
  BY <1>0, <1>7 DEF TakeIndex, WriteIndex, Disk
<1> QED
  BY <1>1, <1>2, <1>3, <1>4, <1>5, <1>6, <1>7
  DEF Next, Step, vars, process, history, StartRun, FirstScan, EndDerived, RefusePack, OpenPack,
      KeepFails, CompanionsFail, EndPacks, Rescan, OpenSources, Prime, LeaveStuck, FindObject,
      EndPass, NothingToDo, Descend, LeaveRef, EndRefs, Verify, Kill, Rest

\* What moving or writing the files of an object leaves alone.
LEMMA FileMoves ==
  TypeOK /\ Kinds /\ (TakeCopies \/ WriteObject) =>
    /\ cur \in Objects /\ pc = "take" /\ cur \in todo
    /\ disk'.entry = disk.entry /\ disk'.pack = disk.pack /\ disk'.idx = disk.idx
    /\ \A o \in Objects \ {cur} : disk'.loose[o] = disk.loose[o] /\ disk'.alt[o] = disk.alt[o]
<1> SUFFICES ASSUME TypeOK, Kinds, TakeCopies \/ WriteObject
    PROVE /\ cur \in Objects /\ pc = "take" /\ cur \in todo
          /\ disk'.entry = disk.entry /\ disk'.pack = disk.pack /\ disk'.idx = disk.idx
          /\ \A o \in Objects \ {cur} : disk'.loose[o] = disk.loose[o] /\ disk'.alt[o] = disk.alt[o]
  OBVIOUS
<1>0. disk \in Disk
  BY DEF TypeOK
<1>1. cur \in Objects /\ pc = "take" /\ cur \in todo
  BY CurKinds DEF Kinds, TakeCopies, WriteObject
<1>2. CASE TakeCopies
  <2>1. CASE disk' = [disk EXCEPT !.loose[cur] = "none"]
    BY <1>0, <1>1, <2>1 DEF Disk
  <2>2. CASE disk' = [disk EXCEPT !.alt[cur] = "none"]
    BY <1>0, <1>1, <2>2 DEF Disk
  <2> QED
    BY <1>2, <2>1, <2>2 DEF TakeCopies
<1>3. CASE WriteObject
  BY <1>0, <1>1, <1>3 DEF WriteObject, Disk
<1> QED
  BY <1>1, <1>2, <1>3

\* The last scan holds until something is put back (Run).
LEMMA FreshStep == TypeOK /\ Kinds /\ Fresh /\ [Next]_vars => Fresh'
<1> SUFFICES ASSUME TypeOK, Kinds, Fresh, [Next]_vars PROVE Fresh'
  OBVIOUS
<1>0. disk \in Disk
  BY DEF TypeOK
<1> USE DEF recovery, notes, NotTaking, GoOn
<1>1. CASE FirstScan \/ Rescan
  <2>1. /\ disk' = disk /\ dmg' = ScanOf /\ seen' = Walked(Roots, {}) /\ roots' = Roots
        /\ pc' \in {"derived", "verify", "prefs"}
    BY <1>1 DEF FirstScan, Rescan
  <2>2. dmg'.objs = Unreadable(seen')
    BY <2>1 DEF ScanOf
  <2>3. (disk \in Disk /\ roots = Roots)' => Exactly(Walked(Roots, {}), Unreadable(Walked(Roots, {})))'
    BY ScanExact, PTL
  <2>4. Roots' = Roots /\ Walked(Roots, {})' = Walked(Roots, {})
        /\ Unreadable(Walked(Roots, {}))' = Unreadable(Walked(Roots, {}))
    BY <2>1 DEF Roots, Visible, Walked, Unreadable, Reads, Holders, Opens
  <2>5. Exactly(Walked(Roots, {}), Unreadable(Walked(Roots, {})))'
    BY <1>0, <2>1, <2>3, <2>4
  <2>6. Exactly(seen, dmg.objs)'
    BY <2>1, <2>2, <2>4, <2>5 DEF Exactly, Spans
  <2> QED
    BY <2>1, <2>6 DEF Fresh
<1>2. CASE KeepLoose \/ TakePack \/ TakeCompanions \/ KeepFails \/ CompanionsFail \/ RefusePack \/ OpenPack
  <2>1. dmg' = dmg /\ pc' \in {"packs", "rescue", "displace"} /\ todo' \subseteq todo
        /\ pc \in {"packs", "rescue", "displace"} /\ todo # {}
    BY <1>2 DEF KeepLoose, TakePack, TakeCompanions, KeepFails, CompanionsFail, RefusePack, OpenPack,
                Refuse, Kinds
  <2> QED
    BY <2>1 DEF Fresh
<1>3. CASE TakeCopies \/ WriteObject
  BY <1>3 DEF TakeCopies, WriteObject, Fresh
<1>4. CASE TakeDerived \/ EndDerived \/ EndPacks \/ TakePackedRefs \/ UNCHANGED vars
  <2>1. \/ ~KeepLoose /\ ~TakePack /\ ~TakeCompanions /\ ~TakeCopies /\ ~WriteObject
        \/ UNCHANGED vars
    BY <1>4 DEF KeepLoose, TakePack, TakeCompanions, TakeCopies, WriteObject, TakeDerived, EndDerived,
                EndPacks, TakePackedRefs
  <2>2. /\ disk'.loose = disk.loose /\ disk'.alt = disk.alt
        /\ disk'.entry = disk.entry /\ disk'.pack = disk.pack
    BY <2>1, ReadsStay DEF vars
  <2>3. roots' = roots /\ seen' = seen /\ dmg' = dmg
    BY <1>4 DEF TakeDerived, EndDerived, EndPacks, TakePackedRefs, vars, process, history
  <2>4. \A o : Reads(o)' <=> Reads(o)
    BY <2>2, SameReads
  <2>5. \A S, B : Exactly(S, B)' <=> Exactly(S, B)
    BY <2>3, <2>4, SameSpans
  <2>6. Exactly(seen, dmg.objs) => Exactly(seen, dmg.objs)'
    BY <2>3, <2>4 DEF Exactly, Spans
  <2> QED
    BY <1>4, <2>3, <2>6 DEF Fresh, TakeDerived, EndDerived, EndPacks, TakePackedRefs, vars, process
<1> QED
  BY <1>1, <1>2, <1>3, <1>4
  DEF Next, Step, Fresh, StartRun, WritePackedRefs, OpenSources, Prime, LeaveStuck, FindObject,
      EndPass, NothingToDo, Descend, LeaveRef, TakeRef, CreateRef, FillRef, EndRefs, TakeIndex,
      WriteIndex, Verify, Kill, Exit, Rest

\* What was put back stays (Sources.Write).
LEMMA PutBackStep == TypeOK /\ Kinds /\ Pass /\ PutBack /\ [Next]_vars => PutBack'
<1> SUFFICES ASSUME TypeOK, Kinds, Pass, PutBack, [Next]_vars PROVE PutBack'
  OBVIOUS
<1>0. disk \in Disk /\ done \subseteq Objects
  BY DEF TypeOK
<1> USE DEF recovery, notes, NotTaking, GoOn
<1>1. CASE TakeCopies
  <2>1. cur \notin done
    BY <1>1 DEF TakeCopies, Pass, Passing
  <2> QED
    BY <1>0, <1>1, <2>1, FileMoves DEF TakeCopies, PutBack, Early
<1>2. CASE WriteObject
  <2>1. disk'.loose[cur] = "good"
    BY <1>0, <1>2, CurKinds DEF WriteObject, Disk
  <2> QED
    BY <1>0, <1>2, <2>1, FileMoves DEF WriteObject, PutBack, Early
<1>3. CASE KeepLoose \/ TakePack \/ TakeCompanions
  <2>1. pc \in Early /\ done' = done
    BY <1>3 DEF KeepLoose, TakePack, TakeCompanions, Early
  <2> QED
    BY <2>1 DEF PutBack
<1>4. CASE ~KeepLoose /\ ~TakePack /\ ~TakeCompanions /\ ~TakeCopies /\ ~WriteObject
  <2>1. disk'.loose = disk.loose
    BY <1>4, ReadsStay
  <2>2. done' = {} \/ (done' = done /\ (pc' \in Early \cup {"idle"} => pc \in Early \cup {"idle"}))
    <3>1. CASE \/ StartRun \/ FirstScan \/ TakeDerived \/ EndDerived \/ RefusePack \/ OpenPack \/ KeepFails
               \/ CompanionsFail \/ EndPacks \/ Rescan \/ TakePackedRefs \/ WritePackedRefs \/ OpenSources
      <4>1. done' = done /\ pc \in Early \cup {"idle"}
        BY <3>1 DEF StartRun, FirstScan, TakeDerived, EndDerived, RefusePack, OpenPack, KeepFails,
                    CompanionsFail, EndPacks, Rescan, TakePackedRefs, WritePackedRefs, OpenSources, Early
      <4> QED
        BY <4>1
    <3>2. CASE \/ Prime \/ LeaveStuck \/ FindObject \/ EndPass \/ NothingToDo \/ Descend \/ LeaveRef \/ TakeRef
               \/ CreateRef \/ FillRef \/ EndRefs \/ TakeIndex \/ WriteIndex
      <4>1. done' = done /\ pc' \in Passing \cup Late
        BY <3>2 DEF Prime, LeaveStuck, FindObject, EndPass, NothingToDo, Descend, LeaveRef, TakeRef,
                    CreateRef, FillRef, EndRefs, TakeIndex, WriteIndex, Passing, Late
      <4> QED
        BY <4>1 DEF Early, Passing, Late
    <3>3. CASE Verify \/ Kill
      <4>1. Exit
        BY <3>3 DEF Verify, Kill
      <4>2. done' = {}
        BY <4>1 DEF Exit
      <4> QED
        BY <4>2
    <3>4. CASE UNCHANGED vars
      BY <3>4 DEF vars, process
    <3> QED
      BY <1>4, <3>1, <3>2, <3>3, <3>4 DEF Next, Step, Rest
  <2> QED
    BY <2>1, <2>2 DEF PutBack
<1> QED
  BY <1>1, <1>2, <1>3, <1>4

\* Moving or writing the files of one object changes what another can be had
\* from no more than how it reads (Sources.Find).
LEMMA OthersFound ==
  TypeOK /\ Kinds /\ (TakeCopies \/ WriteObject) =>
    \A o \in Objects \ {cur} :
      (Reads(o)' <=> Reads(o)) /\ (FromDuplicate(o)' <=> FromDuplicate(o)) /\ (Local(o)' <=> Local(o))
<1> SUFFICES ASSUME TypeOK, Kinds, TakeCopies \/ WriteObject, NEW o \in Objects, o # cur
    PROVE (Reads(o)' <=> Reads(o)) /\ (FromDuplicate(o)' <=> FromDuplicate(o)) /\ (Local(o)' <=> Local(o))
  OBVIOUS
<1>1. /\ disk'.entry = disk.entry /\ disk'.pack = disk.pack /\ disk'.idx = disk.idx
      /\ \A x \in Objects \ {cur} : disk'.loose[x] = disk.loose[x] /\ disk'.alt[x] = disk.alt[x]
  BY FileMoves
<1>2. (Reads(o)' <=> Reads(o)) /\ (FromDuplicate(o)' <=> FromDuplicate(o))
  BY <1>1, OthersRead
<1>3. FromIndex(o)' <=> FromIndex(o)
  BY <1>1 DEF FromIndex
<1> QED
  BY <1>2, <1>3 DEF Local

\* What reads and what can be had when the disk stays.
LEMMA DiskStays ==
  ASSUME disk' = disk
  PROVE  /\ \A o : (Reads(o)' <=> Reads(o)) /\ (Local(o)' <=> Local(o))
         /\ \A o : (FromDuplicate(o)' <=> FromDuplicate(o)) /\ (FromIndex(o)' <=> FromIndex(o))
                   /\ Holders(o)' = Holders(o)
         /\ \A S, K : Walked(S, K)' = Walked(S, K) /\ Unreadable(S)' = Unreadable(S)
<1>1. /\ \A o : Holders(o)' = Holders(o) /\ (Reads(o)' <=> Reads(o))
      /\ \A o : FromDuplicate(o)' <=> FromDuplicate(o)
      /\ \A S : Unreadable(S)' = Unreadable(S)
      /\ \A S, K : Walked(S, K)' = Walked(S, K)
  BY SameReads
<1>2. \A o : FromIndex(o)' <=> FromIndex(o)
  BY DEF FromIndex
<1> QED
  BY <1>1, <1>2 DEF Local

\* The first pass is over what the last scan found (OpenSources).
LEMMA PassOpens ==
  TypeOK /\ Kinds /\ Fresh /\ OpenSources => Pass'
<1> SUFFICES ASSUME TypeOK, Kinds, Fresh, OpenSources PROVE Pass'
  OBVIOUS
<1>1. /\ pc = "prefs" /\ pc' = "prime" /\ todo' = dmg.objs /\ disk' = disk /\ dmg' = dmg
      /\ UNCHANGED <<seen, done, stuck, back, remote, roots, result>>
  BY DEF OpenSources, GoOn, stillBad, recovery, notes
<1>2. Exactly(seen, dmg.objs) /\ result.unrec = {}
  BY <1>1 DEF Fresh, Kinds, Early
<1>3. \A o : Reads(o)' <=> Reads(o)
  BY <1>1, DiskStays
<1>4. Spans(seen, todo)' /\ \A o \in seen' : Reads(o)' <=> o \notin todo'
  BY <1>1, <1>2, <1>3 DEF Exactly, Spans
<1>5. Spans(seen, Before)'
  BY <1>1, <1>4 DEF Before, Spans
<1>6. todo' \subseteq seen' /\ result'.unrec \subseteq todo' /\ todo' \ dmg'.objs = {}
  BY <1>1, <1>2, <1>4 DEF Spans
<1> QED
  BY <1>1, <1>4, <1>5, <1>6 DEF Pass, Before

\* A pass begins when the remote has been asked (Prime).
LEMMA PassPrimes ==
  TypeOK /\ Kinds /\ Pass /\ Prime => Pass'
<1> SUFFICES ASSUME TypeOK, Kinds, Pass, Prime PROVE Pass'
  OBVIOUS
<1>1. /\ pc = "prime" /\ pc' = "ladder" /\ stuck' = {} /\ back' = {}
      /\ remote' \in Rung!Outcomes(remote, Wanted)
      /\ UNCHANGED <<disk, dmg, todo, seen, done, roots, result>>
  BY DEF Prime, notes
<1>2. \A o : (Reads(o)' <=> Reads(o)) /\ (Local(o)' <=> Local(o))
  BY <1>1, DiskStays
<1>3. /\ Spans(seen, todo)
      /\ \A o \in seen \ todo : Reads(o)
      /\ \A o \in todo : ~Reads(o)
      /\ \A o \in todo \ dmg.objs : Lost(o)
  BY <1>1 DEF Pass, Passing, Before
<1>4. todo \cup {} \cup {} = todo
  OBVIOUS
<1>5. Before' = todo' /\ Spans(seen, Before)'
  BY <1>1, <1>3, <1>4 DEF Before, Spans
<1>6. /\ remote'.all \/ remote'.failed \/ Wanted \subseteq remote'.got
      /\ remote.all \/ remote.failed => remote' = remote
  BY <1>1, OutcomesAnswer DEF TypeOK, Rungs
<1>7. \A o \in todo : Lost(o) => Lost(o)'
  BY <1>1, <1>2, <1>6 DEF Lost
<1>8. \A o \in todo : Local(o)' \/ o \in remote'.got \/ remote'.all \/ remote'.failed
  BY <1>2, <1>6 DEF Wanted
<1> QED
  BY <1>1, <1>2, <1>3, <1>5, <1>7, <1>8 DEF Pass

\* What is given up in a pass no later pass finds (Find, LeaveStuck).
LEMMA PassLeaves ==
  TypeOK /\ Kinds /\ Pass /\ LeaveStuck => Pass'
<1> SUFFICES ASSUME TypeOK, Kinds, Pass, LeaveStuck PROVE Pass'
  OBVIOUS
<1>1. PICK o \in todo : (o \in done \/ ~Found(o)) /\ stuck' = stuck \cup {o} /\ todo' = todo \ {o}
  BY DEF LeaveStuck, PutBackBefore
<1>2. /\ pc = "ladder" /\ pc' = "ladder"
      /\ UNCHANGED <<disk, dmg, cur, seen, done, back, remote, roots, result>>
  BY DEF LeaveStuck, notes
<1>3. \A x : (Reads(x)' <=> Reads(x)) /\ (Local(x)' <=> Local(x)) /\ (Lost(x)' <=> Lost(x))
  BY <1>2, DiskStays DEF Lost
<1>4. /\ Spans(seen, todo \cup stuck \cup back)
      /\ \A x \in seen \ (todo \cup stuck \cup back) : Reads(x)
      /\ stuck \cap (todo \cup back) = {} /\ todo \cap back = {}
      /\ \A x \in todo \cup stuck : ~Reads(x)
      /\ \A x \in stuck : Lost(x)
      /\ \A x \in todo \ dmg.objs : Lost(x)
      /\ \A x \in todo : Local(x) \/ x \in remote.got \/ remote.all \/ remote.failed
  BY <1>2 DEF Pass, Passing, Before
<1>5. Lost(o)
  BY <1>1, <1>4 DEF Lost, Found
<1>6. todo' \cup stuck' \cup back' = todo \cup stuck \cup back
  BY <1>1, <1>2
<1>7. Before' = todo \cup stuck \cup back /\ Spans(seen, Before)'
  BY <1>2, <1>4, <1>6 DEF Before, Spans
<1> QED
  BY <1>1, <1>2, <1>3, <1>4, <1>5, <1>7 DEF Pass

\* What is found was found unreadable by the last scan or descent (Find).
LEMMA PassFinds ==
  TypeOK /\ Kinds /\ Pass /\ FindObject => Pass'
<1> SUFFICES ASSUME TypeOK, Kinds, Pass, FindObject PROVE Pass'
  OBVIOUS
<1>1. cur' \in todo /\ cur' \notin done /\ \E o \in todo : o = cur' /\ Found(o)
  BY DEF FindObject, PutBackBefore
<1>2. /\ pc = "ladder" /\ pc' = "take"
      /\ UNCHANGED <<disk, dmg, todo, seen, done, stuck, back, remote, roots, result>>
  BY DEF FindObject, recovery, notes
<1>3. \A x : (Reads(x)' <=> Reads(x)) /\ (Local(x)' <=> Local(x)) /\ (Lost(x)' <=> Lost(x))
  BY <1>2, DiskStays DEF Lost
<1>4. /\ Spans(seen, todo \cup stuck \cup back)
      /\ \A x \in seen \ (todo \cup stuck \cup back) : Reads(x)
      /\ stuck \cap (todo \cup back) = {} /\ todo \cap back = {}
      /\ \A x \in todo \cup stuck : ~Reads(x)
      /\ \A x \in stuck : Lost(x)
      /\ \A x \in todo \ dmg.objs : Lost(x)
      /\ \A x \in todo : Local(x) \/ x \in remote.got \/ remote.all \/ remote.failed
  BY <1>2 DEF Pass, Passing, Before
<1>5. cur' \in dmg.objs
  BY <1>1, <1>4 DEF Lost, Found
<1>6. \A x \in todo : ~Reads(x)'
  BY <1>3, <1>4
<1>7. ~Reads(cur)'
  <2>1. PICK x \in todo : x = cur'
    BY <1>1
  <2>2. ~Reads(x)'
    BY <1>6
  <2> QED
    BY <2>1, <2>2 DEF Reads, Holders, Opens
<1>8. Before' = todo \cup stuck \cup back /\ Spans(seen, Before)'
  BY <1>2, <1>4 DEF Before, Spans
<1> QED
  BY <1>1, <1>2, <1>3, <1>4, <1>5, <1>7, <1>8 DEF Pass

\* The files of the object are taken while it is the only one in hand (Take).
LEMMA PassTakes ==
  TypeOK /\ Kinds /\ Pass /\ TakeCopies => Pass'
<1> SUFFICES ASSUME TypeOK, Kinds, Pass, TakeCopies PROVE Pass'
  OBVIOUS
<1>1. /\ pc = "take" /\ pc' = "take"
      /\ UNCHANGED <<dmg, todo, cur, seen, done, stuck, back, remote, roots, result>>
  BY DEF TakeCopies, recovery, notes
<1>2. /\ cur \in Objects /\ cur \in todo
      /\ \A x \in Objects \ {cur} : (Reads(x)' <=> Reads(x)) /\ (Local(x)' <=> Local(x)) /\ (Lost(x)' <=> Lost(x))
  BY <1>1, FileMoves, OthersFound DEF Lost
<1>3. disk'.loose[cur] = "none"
  BY <1>2 DEF TakeCopies, TypeOK, Disk
<1>4. /\ Spans(seen, todo \cup stuck \cup back)
      /\ \A x \in seen \ (todo \cup stuck \cup back) : Reads(x)
      /\ stuck \cap (todo \cup back) = {} /\ todo \cap back = {}
      /\ \A x \in (todo \cup stuck) \ {cur} : ~Reads(x)
      /\ \A x \in stuck : Lost(x)
      /\ \A x \in todo \ dmg.objs : Lost(x)
      /\ \A x \in todo \ {cur} : Local(x) \/ x \in remote.got \/ remote.all \/ remote.failed
      /\ cur \in dmg.objs \ done
  BY <1>1 DEF Pass, Passing, Before
<1>5. seen \subseteq Objects /\ todo \subseteq Objects /\ stuck \subseteq Objects
  BY <1>1 DEF TypeOK, Kinds
<1>6. Before' = todo \cup stuck \cup back /\ Spans(seen, Before)'
  BY <1>1, <1>4 DEF Before, Spans
<1> QED
  BY <1>1, <1>2, <1>3, <1>4, <1>5, <1>6 DEF Pass

\* And the object is written, and counts as put back (Write).
LEMMA PassWrites ==
  TypeOK /\ Kinds /\ Pass /\ WriteObject => Pass'
<1> SUFFICES ASSUME TypeOK, Kinds, Pass, WriteObject PROVE Pass'
  OBVIOUS
<1>1. /\ pc = "take" /\ pc' = "ladder" /\ todo' = todo \ {cur}
      /\ done' = done \cup {cur} /\ back' = back \cup {cur}
      /\ UNCHANGED <<dmg, seen, stuck, remote, roots, result>>
  BY DEF WriteObject, GoOn, notes
<1>2. /\ cur \in Objects /\ cur \in todo
      /\ \A x \in Objects \ {cur} : (Reads(x)' <=> Reads(x)) /\ (Local(x)' <=> Local(x)) /\ (Lost(x)' <=> Lost(x))
  BY <1>1, FileMoves, OthersFound DEF Lost
<1>3. /\ Spans(seen, todo \cup stuck \cup back)
      /\ \A x \in seen \ (todo \cup stuck \cup back) : Reads(x)
      /\ stuck \cap (todo \cup back) = {} /\ todo \cap back = {}
      /\ \A x \in (todo \cup stuck) \ {cur} : ~Reads(x)
      /\ \A x \in stuck : Lost(x)
      /\ \A x \in todo \ dmg.objs : Lost(x)
      /\ \A x \in todo \ {cur} : Local(x) \/ x \in remote.got \/ remote.all \/ remote.failed
  BY <1>1 DEF Pass, Passing, Before
<1>4. seen \subseteq Objects /\ todo \subseteq Objects /\ stuck \subseteq Objects
  BY <1>1 DEF TypeOK, Kinds
<1>5. todo' \cup stuck' \cup back' = todo \cup stuck \cup back
  BY <1>1, <1>2
<1>6. Before' = todo \cup stuck \cup back /\ Spans(seen, Before)'
  BY <1>1, <1>3, <1>5 DEF Before, Spans
<1> QED
  BY <1>1, <1>2, <1>3, <1>4, <1>6 DEF Pass

\* A pass that put something back is followed by a descent (Run).
LEMMA PassEnds ==
  TypeOK /\ Kinds /\ Pass /\ EndPass => Pass'
<1> SUFFICES ASSUME TypeOK, Kinds, Pass, EndPass, back # {} PROVE Pass'
  BY DEF EndPass, GoOn, Pass, Passing
<1>1. /\ pc = "ladder" /\ pc' = "descend" /\ todo = {} /\ todo' = {} /\ result'.unrec = stuck
      /\ UNCHANGED <<disk, dmg, seen, done, stuck, back, remote, roots>>
  BY DEF EndPass, GoOn, recovery, notes, TypeOK
<1>2. \A x : (Reads(x)' <=> Reads(x)) /\ (Lost(x)' <=> Lost(x))
  BY <1>1, DiskStays DEF Lost
<1>3. /\ Spans(seen, todo \cup stuck \cup back)
      /\ \A x \in seen \ (todo \cup stuck \cup back) : Reads(x)
      /\ stuck \cap (todo \cup back) = {} /\ todo \cap back = {}
      /\ \A x \in todo \cup stuck : ~Reads(x)
      /\ \A x \in stuck : Lost(x)
  BY <1>1 DEF Pass, Passing, Before
<1>4. Before' = todo \cup stuck \cup back /\ Spans(seen, Before)'
  BY <1>1, <1>3 DEF Before, Spans
<1> QED
  BY <1>1, <1>2, <1>3, <1>4 DEF Pass

\* The descent leaves what no source had, and what it found (descend, stillBad).
LEMMA PassDescends ==
  TypeOK /\ Kinds /\ Pass /\ Descend => Pass'
<1> SUFFICES ASSUME TypeOK, Kinds, Pass, Descend PROVE Pass'
  OBVIOUS
<1> DEFINE R == Walked(back, seen \ back)
<1>1. /\ pc = "descend" /\ pc' = "prime" /\ todo' = Unreadable(R) \cup stuck
      /\ seen' = (seen \ back) \cup R /\ dmg'.objs = Unreadable(R)
      /\ UNCHANGED <<disk, done, stuck, back, remote, roots, result>>
  BY DEF Descend, GoOn, stillBad, NoDamage, notes
<1>2. \A x : (Reads(x)' <=> Reads(x)) /\ (Lost(x)' <=> Lost(x))
  BY <1>1, DiskStays DEF Lost
<1>3. /\ Spans(seen, stuck \cup back)
      /\ \A x \in seen \ (stuck \cup back) : Reads(x)
      /\ stuck \cap back = {}
      /\ \A x \in stuck : ~Reads(x)
      /\ \A x \in stuck : Lost(x)
      /\ result.unrec = stuck
  <2>1. todo = {} /\ todo \cup stuck \cup back = stuck \cup back
    BY <1>1 DEF Kinds
  <2> QED
    BY <1>1, <2>1 DEF Pass, Passing, Before
<1>4. Spans((seen \ back) \cup R, Unreadable(R) \cup stuck)
      /\ \A x \in (seen \ back) \cup R : Reads(x) <=> x \notin Unreadable(R) \cup stuck
  BY <1>3, DescendSpans
<1> HIDE DEF R
<1>5. Spans(seen, todo)' /\ \A x \in seen' : Reads(x)' <=> x \notin todo'
  BY <1>1, <1>2, <1>4 DEF Spans
<1>6. Before' = todo' /\ Spans(seen, Before)' /\ todo' \subseteq seen'
  BY <1>1, <1>5 DEF Before, Spans
<1> QED
  BY <1>1, <1>2, <1>3, <1>5, <1>6 DEF Pass

\* So the passes keep the walk, whatever the run does (Run).
LEMMA PassStep == TypeOK /\ Kinds /\ Fresh /\ Pass /\ [Next]_vars => Pass'
<1> SUFFICES ASSUME TypeOK, Kinds, Fresh, Pass, [Next]_vars PROVE Pass'
  OBVIOUS
<1>1. CASE \/ OpenSources \/ Prime \/ LeaveStuck \/ FindObject \/ TakeCopies \/ WriteObject \/ EndPass \/ Descend
  BY <1>1, PassOpens, PassPrimes, PassLeaves, PassFinds, PassTakes, PassWrites, PassEnds, PassDescends
<1>2. CASE UNCHANGED vars
  <2>1. UNCHANGED <<disk, pc, dmg, todo, cur, seen, done, stuck, back, remote, roots, result>>
    BY <1>2 DEF vars, process, history
  <2>2. \A x : (Reads(x)' <=> Reads(x)) /\ (Local(x)' <=> Local(x)) /\ (Lost(x)' <=> Lost(x))
    BY <2>1, DiskStays DEF Lost
  <2>3. Reads(cur)' <=> Reads(cur)
    BY <2>1 DEF Reads, Holders, Opens
  <2>4. Before' = Before /\ (Spans(seen, Before)' <=> Spans(seen, Before))
    BY <2>1 DEF Before, Spans
  <2> QED
    BY <2>1, <2>2, <2>3, <2>4 DEF Pass
<1>3. CASE ~ (OpenSources \/ Prime \/ LeaveStuck \/ FindObject \/ TakeCopies \/ WriteObject \/ EndPass \/ Descend)
           /\ ~UNCHANGED vars
  <2>1. pc' \notin Passing
    BY <1>3 DEF Next, Step, Rest, Passing, GoOn, Exit, StartRun, FirstScan, TakeDerived, EndDerived, RefusePack,
        Refuse, OpenPack, KeepLoose, KeepFails, TakePack, TakeCompanions, CompanionsFail, EndPacks, Rescan,
        TakePackedRefs, WritePackedRefs, NothingToDo, LeaveRef, TakeRef, CreateRef, FillRef, EndRefs,
        TakeIndex, WriteIndex, Verify, Kill
  <2> QED
    BY <2>1 DEF Pass
<1> QED
  BY <1>1, <1>2, <1>3

\* What the remote sent or left out lies below a name it was asked for, and
\* that one has been put back when the pass is over (Prime, Run).
LEMMA SentPrimes ==
  TypeOK /\ Kinds /\ Sent /\ Prime => Sent'
<1> SUFFICES ASSUME TypeOK, Kinds, Sent, Prime, NEW y \in Remote,
                    \/ ~remote'.all /\ ~remote'.failed /\ y \in remote'.got
                    \/ remote'.all /\ y \notin remote'.got
    PROVE \E x \in Remote \cap remote'.got :
            (x \in done' \/ (pc' \in {"ladder", "take"} /\ x \in todo')) /\ y \in Rung!Below({x})
  BY DEF Sent, Restored
<1>1. /\ pc = "prime" /\ pc' = "ladder" /\ remote' \in Rung!Outcomes(remote, Wanted)
      /\ todo' = todo /\ done' = done
  BY DEF Prime
<1>2. remote \in Rungs /\ remote' \in Rungs /\ Wanted \subseteq todo /\ Wanted \subseteq Objects
  <2>1. todo \subseteq Objects
    BY <1>1 DEF Kinds
  <2>2. remote \in Rungs
    BY DEF TypeOK, Rungs
  <2>3. Wanted \subseteq todo
    BY DEF Wanted
  <2>4. remote' \in Rungs
    BY <1>1, <2>2, OutcomesTyped
  <2> QED
    BY <2>1, <2>2, <2>3, <2>4
<1>3. \A z \in Remote :
        (~remote.all /\ ~remote.failed /\ z \in remote.got) \/ (remote.all /\ z \notin remote.got)
          => \E x \in Remote \cap remote.got : x \in done /\ z \in Rung!Below({x})
  BY <1>1 DEF Sent, Restored, Passing
<1>4. CASE remote' = remote
  BY <1>1, <1>3, <1>4
<1>5. CASE remote' # remote
  <2>1. /\ ~remote.all /\ ~remote.failed /\ ~ (remote'.all /\ remote'.failed)
        /\ \A z \in remote'.got : ~remote'.all /\ ~remote'.failed =>
             z \in remote.got \/ \E x \in Wanted \cap Remote \cap remote'.got : z \in Rung!Below({x})
        /\ \A z \in Remote \ remote'.got : remote'.all =>
              \/ \E x \in Wanted \cap Remote \cap remote'.got : z \in Rung!Below({x})
              \/ \E u \in remote.got : z \in Rung!Below({u})
    BY <1>1, <1>2, <1>5, OutcomesBelow
  <2>2. remote.got \subseteq remote'.got
    BY <1>1, <1>2, OutcomesAnswer
  <2>3. CASE \E x \in Wanted \cap Remote \cap remote'.got : y \in Rung!Below({x})
    BY <1>1, <1>2, <2>3
  <2>4. CASE y \in remote.got
    <3>1. PICK x \in Remote \cap remote.got : x \in done /\ y \in Rung!Below({x})
      BY <1>3, <2>1, <2>4
    <3> QED
      BY <1>1, <2>2, <3>1
  <2>5. CASE \E u \in remote.got : y \in Rung!Below({u})
    <3>1. PICK u \in remote.got : y \in Rung!Below({u})
      BY <2>5
    <3>2. u \in Remote
      BY <1>2 DEF Rungs
    <3>3. PICK x \in Remote \cap remote.got : x \in done /\ u \in Rung!Below({x})
      BY <1>3, <2>1, <3>2
    <3>4. x \in Objects
      BY RunAssumption
    <3>5. y \in Rung!Below({x})
      BY <3>1, <3>3, <3>4, BelowBelow
    <3> QED
      BY <1>1, <2>2, <3>3, <3>5
  <2> QED
    BY <2>1, <2>3, <2>4, <2>5
<1> QED
  BY <1>4, <1>5

LEMMA SentStep == TypeOK /\ Kinds /\ Sent /\ [Next]_vars => Sent'
<1> SUFFICES ASSUME TypeOK, Kinds, Sent, [Next]_vars PROVE Sent'
  OBVIOUS
<1> USE DEF recovery, notes, NotTaking, GoOn
<1>1. CASE OpenSources
  <2>1. remote' = Rung!NoRung
    BY <1>1 DEF OpenSources, Kinds, Early
  <2>2. remote'.got = {} /\ remote'.all = FALSE
    BY <2>1 DEF Rung!NoRung
  <2> QED
    BY <2>2 DEF Sent
<1>2. CASE Prime
  BY <1>2, SentPrimes
<1>3. CASE LeaveStuck
  <2>1. PICK o \in todo : (o \in done \/ ~Found(o)) /\ todo' = todo \ {o}
    BY <1>3 DEF LeaveStuck, PutBackBefore
  <2>2. pc = "ladder" /\ pc' = "ladder" /\ UNCHANGED <<done, remote>>
    BY <1>3 DEF LeaveStuck
  <2>3. \A x \in remote.got : Restored(x) => Restored(x)'
    BY <2>1, <2>2 DEF Restored, Found
  <2> QED
    BY <2>2, <2>3 DEF Sent, Passing
<1>4. CASE FindObject \/ TakeCopies
  <2>1. pc \in {"ladder", "take"} /\ pc' = "take" /\ UNCHANGED <<done, todo, remote>>
    BY <1>4 DEF FindObject, TakeCopies
  <2> QED
    BY <2>1 DEF Sent, Passing, Restored
<1>5. CASE WriteObject
  <2>1. pc = "take" /\ pc' = "ladder" /\ done' = done \cup {cur} /\ todo' = todo \ {cur} /\ remote' = remote
    BY <1>5 DEF WriteObject
  <2> QED
    BY <2>1 DEF Sent, Passing, Restored
<1>6. CASE EndPass
  <2>1. pc = "ladder" /\ pc' \in {"descend", "refs"} /\ todo = {} /\ UNCHANGED <<done, remote>>
    BY <1>6 DEF EndPass
  <2> QED
    BY <2>1 DEF Sent, Passing, Restored
<1>7. CASE Descend
  <2>1. pc = "descend" /\ pc' = "prime" /\ UNCHANGED <<done, remote>>
    BY <1>7 DEF Descend
  <2> QED
    BY <2>1 DEF Sent, Passing, Restored
<1>8. CASE UNCHANGED vars
  BY <1>8 DEF vars, process, Sent, Restored
<1>9. CASE ~ (OpenSources \/ Prime \/ LeaveStuck \/ FindObject \/ TakeCopies \/ WriteObject \/ EndPass \/ Descend)
           /\ ~UNCHANGED vars
  <2>1. pc' \notin Passing
    BY <1>9 DEF Next, Step, Rest, Passing, Exit, StartRun, FirstScan, TakeDerived, EndDerived, RefusePack,
        Refuse, OpenPack, KeepLoose, KeepFails, TakePack, TakeCompanions, CompanionsFail, EndPacks, Rescan,
        TakePackedRefs, WritePackedRefs, NothingToDo, LeaveRef, TakeRef, CreateRef, FillRef, EndRefs,
        TakeIndex, WriteIndex, Verify, Kill
  <2> QED
    BY <2>1 DEF Sent
<1> QED
  BY <1>1, <1>2, <1>3, <1>4, <1>5, <1>6, <1>7, <1>8, <1>9

\* What a pass that put nothing back leaves had no source (Run, Find).
LEMMA GivenUpAtEnd ==
  ASSUME TypeOK, Kinds, Pass, PutBack, Sent, pc = "ladder", todo = {}, NEW o \in stuck
  PROVE  \/ Holders(o) # {}
         \/ /\ ~FromDuplicate(o) /\ ~FromIndex(o)
            /\ o \in Remote =>
                 \/ remote.failed
                 \/ \E x \in Remote \ {o} : disk.loose[x] = "good" /\ o \in Rung!Below({x})
<1>1. Lost(o) /\ ~Reads(o)
  BY DEF Pass, Passing
<1>2. CASE o \in done
  <2>1. disk.loose[o] = "good"
    BY <1>2 DEF PutBack
  <2> QED
    BY <1>1, <2>1 DEF Reads
<1>3. CASE o \notin done
  <2>1. ~FromDuplicate(o) /\ ~FromIndex(o) /\ o \notin remote.got /\ (remote.all \/ remote.failed)
    BY <1>1, <1>3 DEF Lost, Local
  <2>2. ASSUME o \in Remote, ~remote.failed
        PROVE  \E x \in Remote \ {o} : disk.loose[x] = "good" /\ o \in Rung!Below({x})
    <3>1. PICK x \in Remote \cap remote.got : Restored(x) /\ o \in Rung!Below({x})
      BY <2>1, <2>2 DEF Sent, Passing
    <3>2. x \in done /\ x # o
      BY <2>1, <3>1 DEF Restored
    <3> QED
      BY <3>1, <3>2 DEF PutBack
  <2> QED
    BY <2>1, <2>2
<1> QED
  BY <1>2, <1>3

\* The end of a run: what is left is what a walk would find, and each of it was
\* given up for a reason (Run, verify).
LEMMA EndingStep ==
  TypeOK /\ Kinds /\ Pass /\ PutBack /\ Sent /\ Ending /\ [Next]_vars => Ending'
<1> SUFFICES ASSUME TypeOK, Kinds, Pass, PutBack, Sent, Ending, [Next]_vars PROVE Ending'
  OBVIOUS
<1>0. disk \in Disk
  BY DEF TypeOK
<1> USE DEF recovery, notes, NotTaking, GoOn, Take
<1>1. CASE FirstScan
  <2>1. /\ disk' = disk /\ dmg' = ScanOf /\ seen' = Walked(Roots, {}) /\ roots' = Roots
        /\ pc' \in {"derived", "verify"} /\ (pc' = "verify" => ScanOf = NoDamage)
        /\ pc = "scan" /\ result' = result /\ finished' = finished
    BY <1>1 DEF FirstScan
  <2>2. result'.unrec = {} /\ ~finished'
    BY <2>1 DEF Kinds, Early
  <2>3. ScanOf = NoDamage => Unreadable(seen') = {}
    BY <2>1 DEF ScanOf, NoDamage
  <2>4. (disk \in Disk /\ roots = Roots)' => Exactly(Walked(Roots, {}), Unreadable(Walked(Roots, {})))'
    BY ScanExact, PTL
  <2>5. Roots' = Roots /\ Walked(Roots, {})' = Walked(Roots, {})
        /\ Unreadable(Walked(Roots, {}))' = Unreadable(Walked(Roots, {}))
    BY <2>1 DEF Roots, Visible, Walked, Unreadable, Reads, Holders, Opens
  <2>6. Exactly(Walked(Roots, {}), Unreadable(Walked(Roots, {})))'
    BY <1>0, <2>1, <2>4, <2>5
  <2>7. pc' = "verify" => Exactly(seen, result.unrec)'
    BY <2>1, <2>2, <2>3, <2>5, <2>6 DEF Exactly, Spans
  <2> QED
    BY <2>1, <2>2, <2>7 DEF Ending, ReportExact, Late
<1>2. CASE EndPass /\ back = {}
  <2>1. /\ pc = "ladder" /\ pc' = "refs" /\ todo = {} /\ result'.unrec = stuck
        /\ result'.remoteErr = remote.failed
        /\ UNCHANGED <<disk, seen, roots, kept, finished>>
    BY <1>2 DEF EndPass, TypeOK
  <2>2. todo \cup stuck \cup back = stuck
    BY <1>2, <2>1
  <2>3. Spans(seen, stuck) /\ (\A x \in seen \ stuck : Reads(x)) /\ (\A x \in stuck : ~Reads(x))
    BY <2>1, <2>2 DEF Pass, Passing, Before
  <2>4. \A x : Reads(x)' <=> Reads(x)
    BY <2>1, DiskStays
  <2>5. Exactly(seen, result.unrec)'
    BY <2>1, <2>3, <2>4 DEF Exactly, Spans
  <2>6. ASSUME NEW o \in stuck PROVE GivenUp(o)'
    <3>1. \/ Holders(o) # {}
          \/ /\ ~FromDuplicate(o) /\ ~FromIndex(o)
             /\ o \in Remote =>
                  \/ remote.failed
                  \/ \E x \in Remote \ {o} : disk.loose[x] = "good" /\ o \in Rung!Below({x})
      BY <2>1, GivenUpAtEnd
    <3>2. Holders(o)' = Holders(o) /\ (FromDuplicate(o)' <=> FromDuplicate(o)) /\ (FromIndex(o)' <=> FromIndex(o))
      BY <2>1, DiskStays
    <3> QED
      BY <2>1, <3>1, <3>2 DEF GivenUp
  <2>7. ~finished'
    BY <2>1 DEF Kinds
  <2> QED
    BY <2>1, <2>5, <2>6, <2>7 DEF Ending, ReportExact
<1>3. CASE NothingToDo
  <2>1. /\ pc = "prime" /\ pc' = "refs" /\ todo = {}
        /\ UNCHANGED <<disk, seen, roots, kept, finished, result>>
    BY <1>3 DEF NothingToDo
  <2>2. Spans(seen, {}) /\ (\A x \in seen : Reads(x)) /\ result.unrec = {}
    BY <2>1 DEF Pass, Passing, Before
  <2>3. \A x : Reads(x)' <=> Reads(x)
    BY <2>1, DiskStays
  <2>4. Exactly(seen, result.unrec)'
    BY <2>1, <2>2, <2>3 DEF Exactly, Spans
  <2>5. ~finished'
    BY <2>1 DEF Kinds
  <2> QED
    BY <2>1, <2>2, <2>4, <2>5 DEF Ending, ReportExact
<1>4. CASE LeaveRef \/ TakeRef \/ CreateRef \/ FillRef \/ EndRefs \/ TakeIndex \/ WriteIndex
  <2>1. /\ pc \in Late /\ pc' \in Late /\ kept \subseteq kept'
        /\ UNCHANGED <<seen, roots, finished, result>>
    BY <1>4 DEF LeaveRef, TakeRef, CreateRef, FillRef, EndRefs, TakeIndex, WriteIndex, Late
  <2>2. /\ disk'.loose = disk.loose /\ disk'.alt = disk.alt
        /\ disk'.entry = disk.entry /\ disk'.pack = disk.pack
    <3>1. ~KeepLoose /\ ~TakePack /\ ~TakeCompanions /\ ~TakeCopies /\ ~WriteObject
      BY <2>1 DEF Late, KeepLoose, TakePack, TakeCompanions, TakeCopies, WriteObject
    <3> QED
      BY <3>1, ReadsStay
  <2>3. /\ \A o : Holders(o)' = Holders(o) /\ (Reads(o)' <=> Reads(o))
        /\ \A o : FromDuplicate(o)' <=> FromDuplicate(o)
    BY <2>2, SameReads
  <2>4. \/ disk'.idx = disk.idx
        \/ \E w \in Worktrees : <<"index", w>> \in kept'
    <3>1. CASE LeaveRef \/ EndRefs
      BY <3>1 DEF LeaveRef, EndRefs
    <3>2. CASE TakeRef
      BY <1>0, <3>2 DEF TakeRef, Disk
    <3>3. CASE CreateRef
      BY <1>0, <3>3 DEF CreateRef, Disk
    <3>4. CASE FillRef
      BY <1>0, <3>4 DEF FillRef, Disk
    <3>5. CASE TakeIndex
      BY <3>5 DEF TakeIndex, TypeOK
    <3>6. CASE WriteIndex
      BY <2>1, <3>6 DEF WriteIndex, Ending
    <3> QED
      BY <1>4, <3>1, <3>2, <3>3, <3>4, <3>5, <3>6
  <2>5. \A o : (FromIndex(o)' <=> FromIndex(o)) \/ \E w \in Worktrees : <<"index", w>> \in kept'
    BY <2>4 DEF FromIndex
  <2>6. Exactly(seen, result.unrec)'
    BY <2>1, <2>3 DEF Ending, Exactly, Spans
  <2>7. ASSUME NEW o \in result.unrec PROVE GivenUp(o)'
    <3>1. GivenUp(o)
      BY <2>1 DEF Ending
    <3> QED
      BY <2>1, <2>2, <2>3, <2>5, <3>1 DEF GivenUp
  <2>8. ~finished'
    BY <2>1 DEF Kinds, Late
  <2>9. pc' = "indexTaken" => \E w \in Worktrees : <<"index", w>> \in kept'
    BY <1>4, <2>1 DEF LeaveRef, TakeRef, CreateRef, FillRef, EndRefs, TakeIndex, WriteIndex, Ending, TypeOK
  <2> QED
    BY <2>1, <2>6, <2>7, <2>8, <2>9 DEF Ending, ReportExact
<1>5. CASE Verify
  <2>1. /\ pc = "verify" /\ pc' = "idle" /\ UNCHANGED <<disk, roots, kept>>
        /\ result'.unrec = result.unrec /\ result'.remoteErr = result.remoteErr
    BY <1>5 DEF Verify, Exit, TypeOK
  <2>2. Exactly(seen, result.unrec) /\ \A o \in result.unrec : GivenUp(o)
    BY <2>1 DEF Ending, Late
  <2>3. Unreadable(Walked(roots, {})) = result.unrec
    BY <2>2, ExactlyWalked
  <2>4. Unreadable(Walked(roots, {}))' = Unreadable(Walked(roots, {}))
    BY <2>1 DEF Walked, Unreadable, Reads, Holders, Opens
  <2>5. \A o : Holders(o)' = Holders(o) /\ (FromDuplicate(o)' <=> FromDuplicate(o)) /\ (FromIndex(o)' <=> FromIndex(o))
    BY <2>1, DiskStays
  <2>6. \A o \in result.unrec : GivenUp(o)'
    BY <2>1, <2>2, <2>5 DEF GivenUp
  <2> QED
    BY <2>1, <2>3, <2>4, <2>6 DEF Ending, ReportExact, Late
<1>6. CASE Kill
  <2>1. pc' = "idle" /\ ~finished'
    BY <1>6 DEF Kill, Exit, Kinds
  <2> QED
    BY <2>1 DEF Ending, ReportExact, Late
<1>7. CASE UNCHANGED vars
  <2>1. UNCHANGED <<disk, pc, seen, roots, kept, finished, result>>
    BY <1>7 DEF vars, process, history
  <2>2. Unreadable(Walked(roots, {}))' = Unreadable(Walked(roots, {}))
    BY <2>1 DEF Walked, Unreadable, Reads, Holders, Opens
  <2>3. /\ \A o : Holders(o)' = Holders(o) /\ (FromDuplicate(o)' <=> FromDuplicate(o)) /\ (FromIndex(o)' <=> FromIndex(o))
        /\ \A o : Reads(o)' <=> Reads(o)
    BY <2>1, DiskStays
  <2>4. Exactly(seen, result.unrec)' <=> Exactly(seen, result.unrec)
    BY <2>1, <2>3 DEF Exactly, Spans
  <2>5. \A o : GivenUp(o)' <=> GivenUp(o)
    BY <2>1, <2>3 DEF GivenUp
  <2> QED
    BY <2>1, <2>2, <2>4, <2>5 DEF Ending, ReportExact
<1>8. CASE \/ StartRun \/ TakeDerived \/ EndDerived \/ RefusePack \/ OpenPack \/ KeepLoose \/ KeepFails
           \/ TakePack \/ TakeCompanions \/ CompanionsFail \/ EndPacks \/ Rescan \/ TakePackedRefs
           \/ WritePackedRefs \/ OpenSources
  <2>1. pc' \notin Late \cup {"idle"}
    BY <1>8 DEF StartRun, TakeDerived, EndDerived, RefusePack, Refuse, OpenPack, KeepLoose, KeepFails,
        TakePack, TakeCompanions, CompanionsFail, EndPacks, Rescan, TakePackedRefs, WritePackedRefs,
        OpenSources, Late
  <2>2. ~finished'
    <3>1. StartRun \/ (finished' = finished /\ pc # "idle")
      BY <1>8 DEF StartRun, TakeDerived, EndDerived, RefusePack, Refuse, OpenPack, KeepLoose, KeepFails,
        TakePack, TakeCompanions, CompanionsFail, EndPacks, Rescan, TakePackedRefs, WritePackedRefs,
        OpenSources
    <3> QED
      BY <3>1 DEF StartRun, Kinds
  <2> QED
    BY <2>1, <2>2 DEF Ending, ReportExact, Late
<1>9. CASE Prime \/ LeaveStuck \/ FindObject \/ TakeCopies \/ WriteObject \/ (EndPass /\ back # {}) \/ Descend
  <2>1. pc' \in Passing /\ finished' = finished /\ pc # "idle"
    BY <1>9 DEF Prime, LeaveStuck, FindObject, TakeCopies, WriteObject, EndPass, Descend, Passing
  <2> QED
    BY <2>1 DEF Ending, ReportExact, Late, Passing, Kinds
<1> QED
  BY <1>1, <1>2, <1>3, <1>4, <1>5, <1>6, <1>7, <1>8, <1>9 DEF Next, Step, Rest

-----------------------------------------------------------------------------
(***************************************************************************)
(* The second file of a path, and what stays readable.                     *)
(***************************************************************************)

\* A path is taken twice for an object that a pack the run could not displace
\* answers for, and no other (Run, Take).
LEMMA TwiceStep ==
  TypeOK /\ Kinds /\ Emptying /\ Packwise /\ KeptTrue /\ Pass /\ TwiceOnlyShadowed /\ [Next]_vars
    => TwiceOnlyShadowed'
<1> SUFFICES ASSUME TypeOK, Kinds, Emptying, Packwise, KeptTrue, Pass, TwiceOnlyShadowed, [Next]_vars
    PROVE TwiceOnlyShadowed'
  OBVIOUS
<1>0. disk \in Disk /\ disk'.entry = disk.entry
  BY PacksStay DEF TypeOK
<1> USE DEF recovery, notes, NotTaking, GoOn, Take
<1>1. CASE StartRun
  BY <1>1 DEF StartRun, TwiceOnlyShadowed
<1>2. CASE TakeDerived \/ KeepLoose \/ TakePack \/ TakeCompanions \/ TakePackedRefs \/ TakeRef \/ TakeIndex
  <2>1. over' = over
    <3>1. CASE TakeDerived
      BY <3>1 DEF TakeDerived, KeptTrue
    <3>2. CASE KeepLoose
      <4>1. PICK o \in inside :
              \/ over' = over
              \/ disk.loose[o] \notin {"good", "none"} /\ over' = over \cup (kept \cap {<<"loose", o>>})
        BY <3>2 DEF KeepLoose, Present
      <4>2. o \in Objects /\ disk.loose[o] \in {"none", "good", "bad"}
        BY <1>0 DEF TypeOK, Disk, Copy
      <4> QED
        BY <4>1, <4>2 DEF KeptTrue
    <3>3. CASE TakePack
      BY <3>3, CurKinds DEF TakePack, KeptTrue, Emptying, Opens
    <3>4. CASE TakeCompanions
      BY <3>4, CurKinds DEF TakeCompanions, KeptTrue, Emptying
    <3>5. CASE TakePackedRefs
      BY <3>5 DEF TakePackedRefs, KeptTrue
    <3>6. CASE TakeRef
      <4>1. PICK f \in todo : pc = "refs" /\ over' = over \cup (kept \cap {<<"ref", f>>})
        BY <3>6 DEF TakeRef
      <4>2. f \in Refs /\ <<"ref", f>> \notin kept
        BY <4>1 DEF KeptTrue, Kinds
      <4> QED
        BY <4>1, <4>2
    <3>7. CASE TakeIndex
      BY <3>7 DEF TakeIndex, KeptTrue, TypeOK
    <3> QED
      BY <1>2, <3>1, <3>2, <3>3, <3>4, <3>5, <3>6, <3>7
  <2>2. UNCHANGED <<result>> /\ pc # "idle"
    BY <1>2 DEF TakeDerived, KeepLoose, TakePack, TakeCompanions, TakePackedRefs, TakeRef, TakeIndex
  <2> QED
    BY <1>0, <2>1, <2>2 DEF TwiceOnlyShadowed
<1>3. CASE TakeCopies
  <2>1. cur \in Objects /\ pc = "take" /\ result' = result
    BY <1>3, CurKinds DEF TakeCopies
  <2>2. CASE over' = over
    BY <1>0, <2>1, <2>2 DEF TwiceOnlyShadowed
  <2>3. CASE over' # over
    <3>1. <<"loose", cur>> \in kept /\ disk.loose[cur] # "none" /\ over' = over \cup {<<"loose", cur>>}
      BY <1>3, <2>1, <2>3 DEF TakeCopies, KeptTrue
    <3>2. disk.loose[cur] = "good" /\ ~Reads(cur)
      BY <1>0, <2>1, <3>1 DEF KeptTrue, Pass, Passing, Disk, Copy
    <3>3. Holders(cur) # {} /\ disk.entry[First(Holders(cur))][cur] # "good"
      BY <3>2 DEF Reads
    <3>4. First(Holders(cur)) \in Holders(cur)
      <4>1. Holders(cur) \subseteq Nat
        BY RunAssumption DEF Holders
      <4> QED
        BY <3>3, <4>1, FirstIn
    <3>5. PICK p \in Packs : Opens(p) /\ disk.entry[p][cur] # "none" /\ disk.entry[p][cur] # "good"
      BY <3>3, <3>4 DEF Holders
    <3>6. disk.entry[p][cur] = "bad"
      BY <1>0, <2>1, <3>5 DEF Disk, Copy
    <3>7. PackBad(p)
      BY <2>1, <3>5, <3>6 DEF PackBad, Opens
    <3>8. p \in result.refused
      BY <2>1, <3>7 DEF Packwise, Passing
    <3>9. <<"loose", cur>> \in over' => \E o \in Objects, q \in result'.refused :
            <<"loose", cur>> = <<"loose", o>> /\ disk'.entry[q][o] # "none"
      BY <1>0, <2>1, <3>5, <3>8
    <3> QED
      BY <1>0, <2>1, <3>1, <3>9 DEF TwiceOnlyShadowed
  <2> QED
    BY <2>2, <2>3
<1>4. CASE ~ (StartRun \/ TakeDerived \/ KeepLoose \/ TakePack \/ TakeCompanions \/ TakePackedRefs
              \/ TakeRef \/ TakeIndex \/ TakeCopies)
  <2>1. CASE \/ FirstScan \/ EndDerived \/ OpenPack \/ EndPacks \/ Rescan \/ OpenSources \/ Prime
             \/ LeaveStuck \/ FindObject \/ WriteObject \/ NothingToDo \/ Descend \/ LeaveRef
             \/ CreateRef \/ FillRef \/ EndRefs \/ WriteIndex
    <3>1. over' = over /\ result' = result /\ pc # "idle"
      BY <2>1 DEF FirstScan, EndDerived, OpenPack, EndPacks, Rescan, OpenSources, Prime,
        LeaveStuck, FindObject, WriteObject, NothingToDo, Descend, LeaveRef, CreateRef, FillRef,
        EndRefs, WriteIndex
    <3> QED
      BY <1>0, <3>1 DEF TwiceOnlyShadowed
  <2>2. CASE RefusePack \/ KeepFails \/ CompanionsFail
    <3>1. over' = over /\ result.refused \subseteq result'.refused /\ pc # "idle"
      BY <2>2 DEF RefusePack, KeepFails, CompanionsFail, Refuse, TypeOK
    <3> QED
      BY <1>0, <3>1 DEF TwiceOnlyShadowed
  <2>3. CASE WritePackedRefs \/ EndPass \/ Verify
    <3>1. over' = over /\ result'.refused = result.refused /\ pc # "idle"
      BY <2>3 DEF WritePackedRefs, EndPass, Verify, TypeOK
    <3> QED
      BY <1>0, <3>1 DEF TwiceOnlyShadowed
  <2>4. CASE Kill
    BY <2>4 DEF Kill, Exit, TwiceOnlyShadowed, Kinds
  <2>5. CASE UNCHANGED vars
    BY <2>5 DEF vars, process, history, TwiceOnlyShadowed
  <2> QED
    BY <1>4, <2>1, <2>2, <2>3, <2>4, <2>5 DEF Next, Step, Rest
<1> QED
  BY <1>1, <1>2, <1>3, <1>4

\* An object that is in a pack that opens reads as it did when its loose file
\* is moved or written: a pack answers first (keepLoose).
LEMMA PackedReads ==
  ASSUME NEW o, Holders(o) # {}, Holders(o)' = Holders(o), disk'.entry = disk.entry
  PROVE  Reads(o)' <=> Reads(o)
BY DEF Reads

\* Emptying a pack takes nothing that reads away (keepLoose).
LEMMA KeepReads ==
  TypeOK /\ Kinds /\ Emptying /\ KeepLoose => \A o \in Objects : Reads(o) => Reads(o)'
<1> SUFFICES ASSUME TypeOK, Kinds, Emptying, KeepLoose, NEW o \in Objects, Reads(o) PROVE Reads(o)'
  OBVIOUS
<1>0. disk \in Disk
  BY DEF TypeOK
<1>1. pc = "rescue" /\ cur \in Packs /\ Opens(cur) /\ inside \subseteq Yield(cur)
  BY CurKinds DEF KeepLoose, Emptying
<1>2. PICK x \in inside :
       disk' \in {disk, [disk EXCEPT !.loose[x] = "none"], [disk EXCEPT !.loose[x] = "good"]}
  BY DEF KeepLoose
<1>3. x \in Objects /\ disk.entry[cur][x] = "good"
  BY <1>1 DEF Yield
<1>4. /\ disk'.entry = disk.entry /\ disk'.pack = disk.pack /\ disk'.alt = disk.alt
      /\ \A y \in Objects \ {x} : disk'.loose[y] = disk.loose[y]
  BY <1>0, <1>2, <1>3 DEF Disk
<1>5. CASE o = x
  <2>1. cur \in Holders(o)
    BY <1>1, <1>3, <1>5 DEF Holders, Opens
  <2>2. Holders(o)' = Holders(o)
    BY <1>4, SamePacks
  <2> QED
    BY <1>4, <2>1, <2>2, PackedReads
<1>6. CASE o # x
  BY <1>4, <1>6, OthersRead
<1> QED
  BY <1>5, <1>6

\* And displacing it leaves what it held in files, or behind another pack
\* (rescuePack).
LEMMA DisplaceReads ==
  TypeOK /\ Kinds /\ Emptying /\ TakePack =>
    \A o \in Objects : Reads(o) => Reads(o)' \/ \E p \in Packs : Opens(p)' /\ disk.entry[p][o] = "bad"
<1> SUFFICES ASSUME TypeOK, Kinds, Emptying, TakePack, NEW o \in Objects, Reads(o),
                    \A p \in Packs : Opens(p)' => disk.entry[p][o] # "bad"
    PROVE Reads(o)'
  OBVIOUS
<1>0. disk \in Disk
  BY DEF TypeOK
<1>1. /\ pc = "rescue" /\ inside = {} /\ cur \in Packs /\ Opens(cur)
      /\ disk.pack[cur] = "headless" => \A x \in Objects : disk.entry[cur][x] = "none"
      /\ \A x \in Yield(cur) : disk.loose[x] = "good"
  BY CurKinds DEF TakePack, AllOut, Emptying
<1>2. /\ disk'.entry = disk.entry /\ disk'.loose = disk.loose /\ disk'.alt = disk.alt
      /\ disk'.pack[cur] = "halfgone" /\ \A p \in Packs \ {cur} : disk'.pack[p] = disk.pack[p]
  BY <1>0, <1>1 DEF TakePack, Disk
<1>3. \A p \in Packs : Opens(p)' <=> Opens(p) /\ p # cur
  BY <1>1, <1>2 DEF Opens
<1>4. Holders(o)' = Holders(o) \ {cur}
  BY <1>2, <1>3 DEF Holders
<1>5. CASE Holders(o)' # {}
  <2>1. Holders(o)' \subseteq Nat
    BY RunAssumption DEF Holders
  <2>2. First(Holders(o)') \in Holders(o)'
    BY <1>5, <2>1, FirstIn
  <2>3. PICK q \in Packs : q = First(Holders(o)') /\ q \in Holders(o) /\ q # cur
    <3>1. Holders(o)' \subseteq Packs
      BY DEF Holders
    <3> QED
      BY <1>4, <2>2, <3>1
  <2>4. Opens(q)' /\ disk.entry[q][o] # "none"
    BY <1>3, <2>3 DEF Holders
  <2>5. disk.entry[q][o] = "good"
    <3>1. disk.entry[q][o] # "bad"
      BY <2>4
    <3>2. disk.entry[q][o] \in Copy
      BY <1>0, <2>3 DEF Disk
    <3> QED
      BY <2>4, <3>1, <3>2 DEF Copy
  <2> QED
    BY <1>2, <1>5, <2>3, <2>5 DEF Reads
<1>6. CASE Holders(o)' = {} /\ cur \in Holders(o)
  <2>1. Holders(o) = {cur}
    BY <1>4, <1>6
  <2>2. First({cur}) = cur
    <3>1. {cur} \subseteq Nat /\ {cur} # {}
      BY <1>1, RunAssumption
    <3>2. First({cur}) \in {cur}
      BY <3>1, FirstIn
    <3> QED
      BY <3>2
  <2>3. disk.entry[cur][o] = "good"
    BY <2>1, <2>2 DEF Reads
  <2>4. disk.loose[o] = "good"
    BY <1>1, <2>3 DEF Yield, Opens
  <2> QED
    BY <1>2, <1>6, <2>4 DEF Reads
<1>7. CASE Holders(o)' = {} /\ cur \notin Holders(o)
  <2>1. Holders(o)' = Holders(o)
    BY <1>4, <1>7
  <2> QED
    BY <1>2, <2>1 DEF Reads
<1> QED
  BY <1>5, <1>6, <1>7

\* No step loses an object that reads, but the two ways the property names.
LEMMA StaysStep ==
  TypeOK /\ Kinds /\ Emptying /\ Pass /\ [Next]_vars =>
    \A o \in Objects : Reads(o) =>
       \/ Reads(o)'
       \/ \E p \in Packs : Opens(p)' /\ disk.entry[p][o] = "bad"
       \/ pc = "take" /\ o = cur /\ o \in dmg.objs
<1> SUFFICES ASSUME TypeOK, Kinds, Emptying, Pass, [Next]_vars, NEW o \in Objects, Reads(o)
    PROVE \/ Reads(o)'
          \/ \E p \in Packs : Opens(p)' /\ disk.entry[p][o] = "bad"
          \/ pc = "take" /\ o = cur /\ o \in dmg.objs
  OBVIOUS
<1>0. disk \in Disk
  BY DEF TypeOK
<1>1. CASE KeepLoose
  BY <1>1, KeepReads
<1>2. CASE TakePack
  BY <1>2, DisplaceReads
<1>3. CASE TakeCompanions
  <2>1. pc = "displace" /\ cur \in Packs /\ disk.pack[cur] = "halfgone"
    BY <1>3, CurKinds DEF TakeCompanions, Emptying
  <2>2. /\ disk'.entry = disk.entry /\ disk'.loose = disk.loose /\ disk'.alt = disk.alt
        /\ disk'.pack[cur] = "gone" /\ \A p \in Packs \ {cur} : disk'.pack[p] = disk.pack[p]
    BY <1>0, <1>3, <2>1 DEF TakeCompanions, Disk
  <2>3. \A p \in Packs : Opens(p)' <=> Opens(p)
    BY <2>1, <2>2 DEF Opens
  <2>4. Holders(o)' = Holders(o)
    BY <2>2, <2>3 DEF Holders
  <2> QED
    BY <2>2, <2>4 DEF Reads
<1>4. CASE TakeCopies \/ WriteObject
  <2>1. pc = "take" /\ cur \in dmg.objs
    BY <1>4, FileMoves DEF Pass, Passing
  <2> QED
    BY <1>4, <2>1, OthersFound
<1>5. CASE ~KeepLoose /\ ~TakePack /\ ~TakeCompanions /\ ~TakeCopies /\ ~WriteObject
  BY <1>5, ReadsStay, SameReads
<1> QED
  BY <1>1, <1>2, <1>3, <1>4, <1>5

-----------------------------------------------------------------------------
(***************************************************************************)
(* The theorems.                                                           *)
(***************************************************************************)

IInv ==
  /\ TypeOK /\ Kinds
  /\ Emptying /\ Packwise /\ KeptTrue /\ ListTrue
  /\ RefsTrue
  /\ Fresh /\ Pass /\ PutBack /\ Sent /\ Ending
  /\ TwiceOnlyShadowed

\* Before the first run nothing has been done.
LEMMA InitHolds == Init => IInv
<1> SUFFICES ASSUME Init PROVE IInv
  OBVIOUS
<1>1. TypeOK /\ Kinds
  BY TypeInit
<1>2. pc = "idle" /\ finished = FALSE /\ kept = {} /\ over = {} /\ done = {} /\ runs = 0 /\ disk \in Damages
  BY DEF Init
<1>3. Emptying /\ Packwise /\ ListTrue /\ TwiceOnlyShadowed /\ PutBack
  BY <1>2 DEF Emptying, Packwise, ListTrue, TwiceOnlyShadowed, PutBack, Passing
<1>4. KeptTrue
  BY <1>2 DEF KeptTrue
<1>5. RefsTrue
  <2>1. NamedBack(result)
    BY DEF Init, NamedBack, NoResult
  <2> QED
    BY <1>2, <2>1 DEF RefsTrue, Passing, Late
<1>6. Fresh /\ Pass /\ Sent /\ Ending
  BY <1>2 DEF Fresh, Pass, Sent, Ending, ReportExact, Passing, Late
<1> QED
  BY <1>1, <1>3, <1>4, <1>5, <1>6 DEF IInv

LEMMA StepHolds == IInv /\ [Next]_vars => IInv'
BY TypeStep, EmptyingStep, PackwiseStep, KeptTrueStep, ListTrueStep, RefsTrueStep, FreshStep, PassStep,
   PutBackStep, SentStep, EndingStep, TwiceStep
DEF IInv

LEMMA Holds == Spec => []IInv
<1>1. Init => IInv
  BY InitHolds
<1>2. IInv /\ [Next]_vars => IInv'
  BY StepHolds
<1> QED
  BY <1>1, <1>2, PTL DEF Spec

\* What displacing a pack costs a run, and nothing else does: a list of packs
\* that is stale, and the first of two files taken from one path, which is that
\* of an object a refused pack answers for (packsListStale, keepLoose, Take).
\* With it, that every variable has its type.
THEOREM DisplacingCosts == Spec => []CostOfDisplacing
<1>1. IInv => CostOfDisplacing
  <2> SUFFICES ASSUME IInv PROVE StaleOnlyByDisplacing
    BY DEF IInv, CostOfDisplacing
  <2>1. Ok => finished /\ pc = "idle"
    BY DEF Ok, IInv, Kinds
  <2>2. disk.list \subseteq Packs
    BY DEF IInv, TypeOK, Disk
  <2> QED
    BY <2>1, <2>2 DEF IInv, ListTrue, StaleOnlyByDisplacing, Stale
<1> QED
  BY <1>1, Holds, PTL

\* No step of a run, wherever it is killed, makes an object that could be read
\* unreadable, but where another pack that opens has it bad, or where its own
\* files are being replaced (rescuePack, keepLoose, Quarantine.Take).
THEOREM NothingLost == Spec => StaysReadable
<1>1. IInv /\ [Next]_vars =>
        [\A o \in Objects : Reads(o) =>
           \/ Reads(o)'
           \/ \E p \in Packs : Opens(p)' /\ disk.entry[p][o] = "bad"
           \/ pc = "take" /\ o = cur /\ o \in dmg.objs]_vars
  BY StaysStep DEF IInv
<1> QED
  BY <1>1, Holds, PTL DEF Spec, StaysReadable

\* What a finished run reports as unrecovered is what the references it scanned
\* lead to and still cannot read, however many passes it took (Run, descend,
\* stillBad).
THEOREM ReportsExactly == Spec => []ReportExact
<1>1. IInv => ReportExact
  BY DEF IInv, Ending
<1> QED
  BY <1>1, Holds, PTL

\* A run gives an object up only when a pack it could not displace answers for
\* it, or when no source had it (Run, Sources.Find, Prime).
THEOREM GivenUpForCause == Spec => []SourcesExhausted
<1>1. IInv => SourcesExhausted
  BY DEF IInv, Ending, GivenUp, SourcesExhausted
<1> QED
  BY <1>1, Holds, PTL

\* And a good loose file of what it gives up is that of a blob (fromDuplicate,
\* ReadLoose).
THEOREM OnlyBlobsUnused == Spec => []CopiesUnusedOnlyOfBlobs
<1>1. IInv => CopiesUnusedOnlyOfBlobs
  <2> SUFFICES ASSUME IInv, finished, NEW o \in result.unrec, o \notin Blobs, Holders(o) = {}
      PROVE "good" \notin {disk.loose[o], disk.alt[o]}
    BY DEF CopiesUnusedOnlyOfBlobs
  <2>1. ~FromDuplicate(o)
    BY DEF IInv, Ending, GivenUp
  <2> QED
    BY <2>1 DEF FromDuplicate, HasFile
<1> QED
  BY <1>1, Holds, PTL

\* When every line is single, one whose reference is lost gives nothing back, so
\* that fewer references come back than there are lines (droppedRefs).
LEMMA LostCounts ==
  ASSUME NEW r, r.dropped \in Seq(Line), NamedBack(r),
         \A i \in DOMAIN r.dropped : Single(r.dropped[i]),
         NEW f, LostLine(f, r)
  PROVE  Len(r.dropped) - Cardinality(r.restored) # 0
<1> DEFINE n == Len(r.dropped)
           at(g) == CHOOSE i \in 1 .. n : g \in r.dropped[i].names
<1>1. n \in Nat /\ DOMAIN r.dropped = 1 .. n
  OBVIOUS
<1>2. PICK k \in 1 .. n : f \in r.dropped[k].of
  BY <1>1 DEF LostLine
<1>3. \A g \in r.restored : at(g) \in 1 .. n /\ g \in r.dropped[at(g)].names
  BY <1>1 DEF NamedBack
<1>4. ASSUME NEW g \in r.restored PROVE at(g) # k
  <2>1. g # f
    BY DEF LostLine
  <2> QED
    BY <1>1, <1>2, <1>3, <2>1 DEF Single
<1>5. ASSUME NEW g \in r.restored, NEW h \in r.restored, at(g) = at(h) PROVE g = h
  BY <1>1, <1>3, <1>5 DEF Single
<1> HIDE DEF at
<1>6. [g \in r.restored |-> at(g)] \in Injection(r.restored, (1 .. n) \ {k})
  BY <1>3, <1>4, <1>5 DEF Injection, IsInjective
<1>7. IsFiniteSet(1 .. n) /\ Cardinality(1 .. n) = n
  BY <1>1, FS_Interval
<1>8. IsFiniteSet((1 .. n) \ {k}) /\ Cardinality((1 .. n) \ {k}) = n - 1
  <2>1. /\ IsFiniteSet((1 .. n) \ {k})
        /\ Cardinality((1 .. n) \ {k}) = IF k \in 1 .. n THEN Cardinality(1 .. n) - 1 ELSE Cardinality(1 .. n)
    BY <1>7, FS_RemoveElement
  <2> QED
    BY <1>2, <1>7, <2>1
<1>9. Cardinality(r.restored) <= n - 1 /\ Cardinality(r.restored) \in Nat
  BY <1>6, <1>8, FS_Injection, FS_CardinalityType
<1> QED
  BY <1>1, <1>9

\* A first run that calls the repository healthy has left every reference in
\* place, when every line of packed-refs that did not read was one line
\* (repairPackedRefs, droppedRefs, repairRef, Result.Ok).
THEOREM HealthyKeepsRefs == Spec => []SingleLinesKept
<1>1. IInv => SingleLinesKept
  <2> SUFFICES ASSUME IInv, Ok, runs = 1, \A i \in DOMAIN result.dropped : Single(result.dropped[i]),
                      NEW f \in Refs
      PROVE Visible(f)
    BY DEF SingleLinesKept
  <2>1. finished /\ result.clean /\ droppedRefs = 0 /\ pc = "idle"
    BY DEF Ok, IInv, Kinds
  <2>2. disk.ref[f] \in {"ok", "malformed", "garbled", "gone"} /\ result.dropped \in Seq(Line)
    BY DEF IInv, TypeOK, Disk
  <2>3. ~LostLine(f, result)
    <3>1. NamedBack(result)
      BY DEF IInv, RefsTrue
    <3> QED
      BY <2>1, <2>2, <3>1, LostCounts DEF droppedRefs
  <2>4. /\ disk.ref[f] # "gone" /\ disk.ref[f] # "garbled" /\ disk.ref[f] # "malformed"
        /\ f \in Packed => disk.prefs # "absent"
    BY <2>1, <2>3 DEF IInv, RefsTrue
  <2> QED
    BY <2>2, <2>4 DEF Visible
<1> QED
  BY <1>1, Holds, PTL
=============================================================================
