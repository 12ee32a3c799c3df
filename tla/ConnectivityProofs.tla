-------------------------- MODULE ConnectivityProofs --------------------------
(***************************************************************************)
(* Proofs about Connectivity, for every graph, every set of roots, every   *)
(* batch, any number of workers and every interleaving of them.            *)
(***************************************************************************)
EXTENDS Connectivity, FiniteSetTheorems, TLAPS

(***************************************************************************)
(* The inductive invariant, one named part per idea.                       *)
(***************************************************************************)
Counted == {w \in Workers : holding[w]}

\* active is the number of those that are counted.
CountRight == active = Cardinality(Counted)

\* What a worker has goes with where it is.
InPlace ==
  \A w \in Workers :
    /\ Busy(w) => holding[w]
    /\ pc[w] \in {"wait", "leave", "exit"} => ~holding[w]
    /\ ~Busy(w) => local[w] = {}
    /\ pc[w] = "mark" => cur[w] # Nobody
    /\ pc[w] # "mark" => cur[w] = Nobody /\ todo[w] = {}

\* Who leaves has seen nothing on the stack and nobody counted.
LeftDry ==
  (\E w \in Workers : pc[w] \in {"leave", "exit"}) =>
    stack = {} /\ \A v \in Workers : ~holding[v]

\* Whatever is to be traversed was flagged and is there.
Flagged ==
  /\ stack \subseteq reach \cap repo.has
  /\ \A w \in Workers :
       /\ local[w] \subseteq reach \cap repo.has
       /\ cur[w] # Nobody => cur[w] \in reach \cap repo.has /\ todo[w] \subseteq repo.links[cur[w]]

\* How far the walk is with an object that is flagged and there.
Pending(o) ==
  \/ o \in stack
  \/ \E w \in Workers : o \in local[w]
  \/ \E w \in Workers : cur[w] = o /\ repo.links[o] \subseteq reach \cup todo[w]

\* The flags are between the roots and what the roots reach, and no link of a
\* flagged object is forgotten.
Traced ==
  /\ repo.roots \subseteq reach /\ reach \subseteq Reach(repo)
  /\ \A o \in reach \cap repo.has : Pending(o) \/ repo.links[o] \subseteq reach

\* What has been blamed is what was flagged and is not there.
BlamedSoFar ==
  \A o \in Objects :
    blamed[o] = IF o \in reach \ (repo.roots \cup repo.has \cup repo.file) THEN 1 ELSE 0

\* The marks are those of before the walk until the report is made.
MarkedSoFar ==
  /\ ~report.made => used = UsedBefore(repo)
  /\ report.made =>
       Done /\ report.dangling = repo.has \ (reach \cup Used(repo, UsedBefore(repo), reach))

\* The conjuncts of TypeOK.
Kinds ==
  /\ repo \in Repos /\ partial \in BOOLEAN
  /\ reach \in SUBSET Objects /\ used \in SUBSET Objects
  /\ report \in [missing : SUBSET Objects, unreachable : SUBSET Objects,
                 dangling : SUBSET Objects, made : BOOLEAN]

Stacks ==
  /\ stack \in SUBSET Objects /\ local \in [Workers -> SUBSET Objects]
  /\ cur \in [Workers -> Objects \cup {Nobody}] /\ todo \in [Workers -> SUBSET Objects]

Places == holding \in [Workers -> BOOLEAN] /\ pc \in [Workers -> PC]

Blames == blamed \in [Objects -> Nat]

IInv ==
  /\ Kinds /\ Stacks /\ Places /\ Blames
  /\ CountRight /\ InPlace /\ NobodySleepsThrough /\ LeftDry
  /\ Flagged /\ TraversedOnce /\ Traced /\ BlamedSoFar /\ MarkedSoFar

-----------------------------------------------------------------------------
(***************************************************************************)
(* The graph and the workers.                                              *)
(***************************************************************************)
\* What is known of the repository.
LEMMA RepoFacts ==
  ASSUME Kinds
  PROVE  /\ repo.roots \subseteq Objects /\ repo.has \subseteq Objects
         /\ repo.links \in [Objects -> SUBSET Objects]
         /\ repo.only \in BOOLEAN
BY ConnectivityAssumption DEF Kinds, RepoType

\* The roots are reached, and what a reached object that is there names.
LEMMA ReachClosed ==
  ASSUME Kinds
  PROVE  /\ repo.roots \subseteq Reach(repo)
         /\ \A o \in Reach(repo) \cap repo.has : repo.links[o] \subseteq Reach(repo)
<1>1. repo.roots \subseteq Objects /\ repo.links \in [Objects -> SUBSET Objects]
  BY RepoFacts
<1>2. repo.roots \subseteq Reach(repo)
  BY <1>1 DEF Reach, Closed
<1>3. ASSUME NEW o \in Reach(repo) \cap repo.has, NEW c \in repo.links[o]
      PROVE  c \in Reach(repo)
  <2>1. o \in Objects /\ c \in Objects
    BY <1>1, <1>3 DEF Reach
  <2>2. ASSUME NEW S \in SUBSET Objects, Closed(repo, S) PROVE c \in S
    <3>1. o \in S
      BY <1>3, <2>2 DEF Reach
    <3> QED
      BY <1>3, <2>2, <3>1 DEF Closed
  <2> QED
    BY <2>1, <2>2 DEF Reach
<1> QED
  BY <1>2, <1>3

\* The counted workers are finitely many.
LEMMA CountedFinite ==
  ASSUME Places
  PROVE  /\ IsFiniteSet(Counted) /\ Cardinality(Counted) \in 0 .. Cardinality(Workers)
         /\ Cardinality(Counted) = 0 <=> \A w \in Workers : ~holding[w]
<1>1. Counted \in SUBSET Workers
  BY DEF Counted
<1>2. IsFiniteSet(Counted) /\ Cardinality(Counted) <= Cardinality(Workers)
  BY <1>1, ConnectivityAssumption, FS_Subset
<1>3. Cardinality(Counted) \in Nat /\ Cardinality(Workers) \in Nat
  BY <1>2, ConnectivityAssumption, FS_CardinalityType
<1>4. Cardinality(Counted) = 0 <=> Counted = {}
  BY <1>2, FS_EmptySet
<1> QED
  BY <1>2, <1>3, <1>4 DEF Counted

\* Where a step leaves the workers.
LEMMA MovesTo ==
  ASSUME Places, NEW w \in Workers, NEW l \in PC, NEW b \in BOOLEAN, Moves(w, l, b)
  PROVE  /\ pc' \in [Workers -> PC] /\ pc'[w] = l
         /\ ~b => pc' = [pc EXCEPT ![w] = l]
         /\ b => \A v \in Workers \ {w} : pc'[v] # "wait"
         /\ \A v \in Workers \ {w} : pc'[v] = pc[v] \/ (pc[v] = "wait" /\ pc'[v] = "lock")
<1> USE DEF Places, Moves
<1>1. pc' = [v \in Workers |->
               IF v = w THEN l ELSE IF b /\ pc[v] = "wait" THEN "lock" ELSE pc[v]]
  OBVIOUS
<1>2. "lock" \in PC /\ pc \in [Workers -> PC]
  BY DEF PC
<1>3. pc' \in [Workers -> PC] /\ pc'[w] = l
  BY <1>1, <1>2
<1>4. ~b => pc' = [pc EXCEPT ![w] = l]
  BY <1>1, <1>2
<1>5. \A v \in Workers \ {w} : pc'[v] = IF b /\ pc[v] = "wait" THEN "lock" ELSE pc[v]
  BY <1>1
<1> QED
  BY <1>3, <1>4, <1>5

\* TypeOK, from its parts.
LEMMA TypeParts == IInv => TypeOK
<1> SUFFICES ASSUME IInv PROVE TypeOK
  OBVIOUS
<1>1. Kinds /\ Stacks /\ Places /\ Blames /\ CountRight
  BY DEF IInv
<1>2. active \in 0 .. Cardinality(Workers)
  BY <1>1, CountedFinite DEF CountRight
<1> QED
  BY <1>1, <1>2 DEF TypeOK, Kinds, Stacks, Places, Blames

-----------------------------------------------------------------------------
(***************************************************************************)
(* Types.                                                                  *)
(***************************************************************************)
LEMMA InitInv == Init => IInv
<1> SUFFICES ASSUME Init PROVE IInv
  OBVIOUS
<1> USE DEF Init
<1>1. repo \in RepoType
  BY ConnectivityAssumption
<1>2. /\ repo.roots \subseteq Objects /\ repo.has \subseteq Objects
      /\ repo.links \in [Objects -> SUBSET Objects]
  BY <1>1 DEF RepoType
<1>3. UsedBefore(repo) \subseteq Objects
  <2>1. \A o \in repo.has : repo.links[o] \subseteq Objects
    BY <1>2
  <2> QED
    BY <1>2, <2>1 DEF UsedBefore
<1>4. Kinds /\ Stacks /\ Places /\ Blames
  BY <1>2, <1>3 DEF Kinds, Stacks, Places, Blames, NoReport, PC
<1>5. \A w \in Workers : /\ pc[w] = "lock" /\ ~holding[w] /\ local[w] = {}
                         /\ cur[w] = Nobody /\ todo[w] = {}
  OBVIOUS
<1>6. CountRight
  BY <1>4, <1>5, CountedFinite DEF CountRight
<1>7. InPlace /\ NobodySleepsThrough /\ LeftDry /\ Flagged
  BY <1>5 DEF InPlace, NobodySleepsThrough, LeftDry, Flagged, Busy
<1>8. TraversedOnce
  BY <1>2, <1>5, ConnectivityAssumption DEF TraversedOnce
<1>9. Traced
  BY <1>4, ReachClosed DEF Traced, Pending
<1>10. BlamedSoFar
  BY DEF BlamedSoFar
<1>11. MarkedSoFar
  BY DEF MarkedSoFar, NoReport
<1> QED
  BY <1>4, <1>6, <1>7, <1>8, <1>9, <1>10, <1>11 DEF IInv

LEMMA KindsStep == Kinds /\ Stacks /\ [Next]_vars => Kinds'
<1> SUFFICES ASSUME Kinds, Stacks, [Next]_vars PROVE Kinds'
  OBVIOUS
<1> USE DEF Kinds
<1>1. ASSUME NEW w \in Workers, worker(w) PROVE Kinds'
  <2>1. CASE RunDry(w) \/ FindDry(w) \/ TakeBatch(w) \/ Leave(w)
    BY <2>1 DEF RunDry, FindDry, TakeBatch, Leave
  <2>2. CASE Pop(w)
    <3>1. partial' \in BOOLEAN
      BY <2>2, Zenon DEF Pop
    <3> QED
      BY <2>2, <3>1 DEF Pop
  <2>3. CASE MarkLink(w)
    BY <2>3 DEF MarkLink, Stacks
  <2>4. CASE Traversed(w) \/ HandBack(w) \/ NoSurplus(w)
    BY <2>4 DEF Traversed, HandBack, NoSurplus
  <2> QED
    BY <1>1, <2>1, <2>2, <2>3, <2>4 DEF worker
<1>2. CASE checkConnectivity
  <2>1. /\ repo.has \subseteq Objects /\ repo.links \in [Objects -> SUBSET Objects]
    BY RepoFacts
  <2>2. \A o \in repo.has : repo.links[o] \subseteq Objects
    BY <2>1
  <2>3. used' \in SUBSET Objects
    BY <1>2, <2>2 DEF checkConnectivity, Used
  <2> QED
    BY <1>2, <2>1, <2>3 DEF checkConnectivity
<1>3. CASE UNCHANGED vars
  BY <1>3 DEF vars
<1> QED
  BY <1>1, <1>2, <1>3 DEF Next, Finished

LEMMA StacksStep == Kinds /\ Stacks /\ [Next]_vars => Stacks'
<1> SUFFICES ASSUME Kinds, Stacks, [Next]_vars PROVE Stacks'
  OBVIOUS
<1> USE DEF Stacks
<1>1. ASSUME NEW w \in Workers, worker(w) PROVE Stacks'
  <2>1. CASE RunDry(w) \/ FindDry(w) \/ Leave(w) \/ NoSurplus(w)
    BY <2>1 DEF RunDry, FindDry, Leave, NoSurplus
  <2>2. CASE TakeBatch(w)
    BY <2>2 DEF TakeBatch
  <2>3. CASE Pop(w)
    <3>1. PICK o \in local[w] : /\ local' = [local EXCEPT ![w] = @ \ {o}]
                                /\ cur' = [cur EXCEPT ![w] = o]
                                /\ todo' = [todo EXCEPT ![w] = repo.links[o]]
      BY <2>3 DEF Pop
    <3>2. o \in Objects /\ repo.links[o] \subseteq Objects
      BY <3>1, RepoFacts
    <3> QED
      BY <2>3, <3>1, <3>2 DEF Pop
  <2>4. CASE MarkLink(w)
    <3>1. PICK c \in todo[w] :
            /\ todo' = [todo EXCEPT ![w] = @ \ {c}]
            /\ local' = [local EXCEPT ![w] = IF c \notin reach /\ c \in repo.has
                                             THEN @ \cup {c} ELSE @]
      BY <2>4 DEF MarkLink
    <3>2. c \in Objects
      BY <3>1
    <3> QED
      BY <2>4, <3>1, <3>2 DEF MarkLink
  <2>5. CASE Traversed(w)
    BY <2>5 DEF Traversed
  <2>6. CASE HandBack(w)
    BY <2>6 DEF HandBack
  <2> QED
    BY <1>1, <2>1, <2>2, <2>3, <2>4, <2>5, <2>6 DEF worker
<1>2. CASE checkConnectivity \/ UNCHANGED vars
  BY <1>2 DEF checkConnectivity, vars
<1> QED
  BY <1>1, <1>2 DEF Next, Finished

LEMMA BlamesStep == Stacks /\ Blames /\ [Next]_vars => Blames'
<1> SUFFICES ASSUME Stacks, Blames, [Next]_vars PROVE Blames'
  OBVIOUS
<1> USE DEF Blames
<1>1. ASSUME NEW w \in Workers, worker(w) PROVE Blames'
  <2>1. CASE MarkLink(w)
    BY <2>1 DEF MarkLink, Stacks
  <2>2. CASE RunDry(w) \/ FindDry(w) \/ TakeBatch(w) \/ Leave(w) \/ Pop(w)
    BY <2>2 DEF RunDry, FindDry, TakeBatch, Leave, Pop
  <2>3. CASE Traversed(w) \/ HandBack(w) \/ NoSurplus(w)
    BY <2>3 DEF Traversed, HandBack, NoSurplus
  <2> QED
    BY <1>1, <2>1, <2>2, <2>3 DEF worker
<1>2. CASE checkConnectivity \/ UNCHANGED vars
  BY <1>2 DEF checkConnectivity, vars
<1> QED
  BY <1>1, <1>2 DEF Next, Finished

\* Where each step of a worker leaves it, and whether it is counted then.
LEMMA Goes ==
  ASSUME Places, NEW w \in Workers, worker(w)
  PROVE  /\ Places'
         /\ \A v \in Workers \ {w} : pc'[v] = pc[v] \/ (pc[v] = "wait" /\ pc'[v] = "lock")
         /\ \A v \in Workers \ {w} : holding'[v] = holding[v]
<1> USE DEF Places
<1>1. ASSUME NEW l \in PC, NEW b \in BOOLEAN, Moves(w, l, b)
      PROVE  /\ pc' \in [Workers -> PC]
             /\ \A v \in Workers \ {w} : pc'[v] = pc[v] \/ (pc[v] = "wait" /\ pc'[v] = "lock")
  BY <1>1, MovesTo
<1>2. /\ holding' \in [Workers -> BOOLEAN]
      /\ \A v \in Workers \ {w} : holding'[v] = holding[v]
  <2>1. CASE RunDry(w) \/ TakeBatch(w)
    BY <2>1 DEF RunDry, TakeBatch
  <2>2. CASE FindDry(w) \/ Leave(w) \/ Pop(w) \/ MarkLink(w)
    BY <2>2 DEF FindDry, Leave, Pop, MarkLink
  <2>3. CASE Traversed(w) \/ HandBack(w) \/ NoSurplus(w)
    BY <2>3 DEF Traversed, HandBack, NoSurplus
  <2> QED
    BY <2>1, <2>2, <2>3 DEF worker
<1>3. CASE MarkLink(w)
  BY <1>2, <1>3 DEF MarkLink
<1>4. CASE RunDry(w)
  <2>1. Moves(w, IF active' > 0 THEN "wait" ELSE "leave", active' = 0)
    BY <1>4 DEF RunDry
  <2> QED
    BY <1>1, <1>2, <2>1 DEF PC
<1>5. CASE FindDry(w)
  <2>1. Moves(w, IF active > 0 THEN "wait" ELSE "leave", FALSE)
    BY <1>5 DEF FindDry
  <2> QED
    BY <1>1, <1>2, <2>1 DEF PC
<1>6. CASE TakeBatch(w)
  <2>1. Moves(w, "pop", holding[w])
    BY <1>6 DEF TakeBatch
  <2> QED
    BY <1>1, <1>2, <2>1 DEF PC
<1>7. CASE NoSurplus(w)
  <2>1. Moves(w, IF local[w] = {} THEN "lock" ELSE "pop", FALSE)
    BY <1>7 DEF NoSurplus
  <2> QED
    BY <1>1, <1>2, <2>1 DEF PC
<1>8. CASE Leave(w) \/ Pop(w) \/ Traversed(w) \/ HandBack(w)
  <2>1. Moves(w, "exit", TRUE) \/ Moves(w, "mark", FALSE) \/ Moves(w, "surplus", FALSE)
        \/ Moves(w, "pop", TRUE)
    BY <1>8 DEF Leave, Pop, Traversed, HandBack
  <2> QED
    BY <1>1, <1>2, <2>1 DEF PC
<1> QED
  BY <1>3, <1>4, <1>5, <1>6, <1>7, <1>8 DEF worker

\* A worker's step leaves what the others have.
LEMMA OthersKeep ==
  ASSUME Stacks, NEW w \in Workers, worker(w), NEW v \in Workers \ {w}
  PROVE  local'[v] = local[v] /\ cur'[v] = cur[v] /\ todo'[v] = todo[v]
<1> USE DEF Stacks
<1>1. CASE RunDry(w) \/ FindDry(w) \/ Leave(w) \/ NoSurplus(w) \/ TakeBatch(w)
  BY <1>1 DEF RunDry, FindDry, Leave, NoSurplus, TakeBatch
<1>2. CASE Pop(w) \/ MarkLink(w)
  BY <1>2 DEF Pop, MarkLink
<1>3. CASE Traversed(w) \/ HandBack(w)
  BY <1>3 DEF Traversed, HandBack
<1> QED
  BY <1>1, <1>2, <1>3 DEF worker

-----------------------------------------------------------------------------
(***************************************************************************)
(* Who is counted, who sleeps and who has left.                            *)
(***************************************************************************)
\* How each step moves its worker, and what it does to the count.
LEMMA OwnMove ==
  ASSUME Places, NEW w \in Workers
  PROVE  /\ RunDry(w) => /\ pc'[w] = IF active' > 0 THEN "wait" ELSE "leave"
                         /\ ~holding'[w]
                         /\ active' = 0 => \A v \in Workers \ {w} : pc'[v] # "wait"
         /\ FindDry(w) => pc'[w] = IF active > 0 THEN "wait" ELSE "leave"
         /\ TakeBatch(w) => pc'[w] = "pop" /\ holding'[w]
         /\ Leave(w) => pc'[w] = "exit"
         /\ Pop(w) => pc'[w] = "mark"
         /\ MarkLink(w) => pc' = pc
         /\ Traversed(w) => pc'[w] = "surplus"
         /\ HandBack(w) => pc'[w] = "pop" /\ \A v \in Workers : pc'[v] # "wait"
         /\ NoSurplus(w) => pc'[w] = IF local[w] = {} THEN "lock" ELSE "pop"
<1>1. ASSUME NEW l \in PC, NEW b \in BOOLEAN, Moves(w, l, b)
      PROVE  pc'[w] = l /\ (b => \A v \in Workers \ {w} : pc'[v] # "wait")
  BY <1>1, MovesTo
<1> USE DEF Places
<1>2. ASSUME RunDry(w)
      PROVE  /\ pc'[w] = IF active' > 0 THEN "wait" ELSE "leave"
             /\ ~holding'[w]
             /\ active' = 0 => \A v \in Workers \ {w} : pc'[v] # "wait"
  <2>1. Moves(w, IF active' > 0 THEN "wait" ELSE "leave", active' = 0)
    BY <1>2 DEF RunDry
  <2>2. (IF active' > 0 THEN "wait" ELSE "leave") \in PC
    BY DEF PC
  <2>3. ~holding'[w]
    BY <1>2 DEF RunDry
  <2>4. (active' = 0) \in BOOLEAN
    OBVIOUS
  <2> QED
    BY <1>1, <2>1, <2>2, <2>3, <2>4
<1>3. ASSUME FindDry(w) PROVE pc'[w] = IF active > 0 THEN "wait" ELSE "leave"
  <2>1. Moves(w, IF active > 0 THEN "wait" ELSE "leave", FALSE)
    BY <1>3 DEF FindDry
  <2> QED
    BY <1>1, <2>1 DEF PC
<1>4. ASSUME TakeBatch(w) PROVE pc'[w] = "pop" /\ holding'[w]
  <2>1. Moves(w, "pop", holding[w]) /\ holding'[w]
    BY <1>4 DEF TakeBatch
  <2> QED
    BY <1>1, <2>1 DEF PC
<1>5. ASSUME Leave(w) PROVE pc'[w] = "exit"
  BY <1>1, <1>5 DEF Leave, PC
<1>6. ASSUME Pop(w) PROVE pc'[w] = "mark"
  BY <1>1, <1>6 DEF Pop, PC
<1>7. ASSUME Traversed(w) PROVE pc'[w] = "surplus"
  BY <1>1, <1>7 DEF Traversed, PC
<1>8. ASSUME HandBack(w) PROVE pc'[w] = "pop" /\ \A v \in Workers : pc'[v] # "wait"
  BY <1>1, <1>8 DEF HandBack, PC
<1>9. ASSUME NoSurplus(w) PROVE pc'[w] = IF local[w] = {} THEN "lock" ELSE "pop"
  <2>1. Moves(w, IF local[w] = {} THEN "lock" ELSE "pop", FALSE)
    BY <1>9 DEF NoSurplus
  <2> QED
    BY <1>1, <2>1 DEF PC
<1>10. MarkLink(w) => pc' = pc
  BY DEF MarkLink
<1> QED
  BY <1>2, <1>3, <1>4, <1>5, <1>6, <1>7, <1>8, <1>9, <1>10

LEMMA CountStep == Places /\ CountRight /\ [Next]_vars => CountRight'
<1> SUFFICES ASSUME Places, CountRight, [Next]_vars PROVE CountRight'
  OBVIOUS
<1> USE DEF CountRight
<1>1. ASSUME NEW w \in Workers, worker(w) PROVE CountRight'
  <2>1. \A v \in Workers \ {w} : holding'[v] = holding[v]
    BY <1>1, Goes
  <2>2. IsFiniteSet(Counted) /\ Cardinality(Counted) \in Nat
    BY CountedFinite
  <2>3. CASE RunDry(w)
    <3>1. holding[w] /\ ~holding'[w] /\ active' = active - 1
      BY <2>3, OwnMove DEF RunDry
    <3>2. Counted' = Counted \ {w} /\ w \in Counted
      BY <2>1, <3>1 DEF Counted
    <3> QED
      BY <2>2, <3>1, <3>2, FS_RemoveElement
  <2>4. CASE TakeBatch(w)
    <3>1. holding'[w] /\ active' = IF holding[w] THEN active ELSE active + 1
      BY <2>4, OwnMove DEF TakeBatch
    <3>2. Counted' = Counted \cup {w} /\ (w \in Counted <=> holding[w])
      BY <2>1, <3>1 DEF Counted
    <3> QED
      BY <2>2, <3>1, <3>2, FS_AddElement
  <2>5. CASE FindDry(w) \/ Leave(w)
    BY <2>5, ZenonT(60) DEF FindDry, Leave, Counted
  <2>6. CASE Pop(w) \/ MarkLink(w)
    BY <2>6, ZenonT(60) DEF Pop, MarkLink, Counted
  <2>7. CASE Traversed(w) \/ HandBack(w) \/ NoSurplus(w)
    BY <2>7 DEF Traversed, HandBack, NoSurplus, Counted
  <2> QED
    BY <1>1, <2>3, <2>4, <2>5, <2>6, <2>7 DEF worker
<1>2. CASE checkConnectivity \/ UNCHANGED vars
  BY <1>2 DEF checkConnectivity, vars, Counted
<1> QED
  BY <1>1, <1>2 DEF Next, Finished

LEMMA InPlaceStep == Kinds /\ Stacks /\ Places /\ InPlace /\ [Next]_vars => InPlace'
<1> SUFFICES ASSUME Kinds, Stacks, Places, InPlace, [Next]_vars PROVE InPlace'
  OBVIOUS
<1> DEFINE At(v) ==
      /\ Busy(v) => holding[v]
      /\ pc[v] \in {"wait", "leave", "exit"} => ~holding[v]
      /\ ~Busy(v) => local[v] = {}
      /\ pc[v] = "mark" => cur[v] # Nobody
      /\ pc[v] # "mark" => cur[v] = Nobody /\ todo[v] = {}
<1>1. ASSUME NEW w \in Workers, worker(w) PROVE InPlace'
  <2>1. ASSUME NEW v \in Workers \ {w} PROVE At(v)'
    <3>1. At(v)
      BY DEF InPlace
    <3>2. /\ local'[v] = local[v] /\ cur'[v] = cur[v] /\ todo'[v] = todo[v]
          /\ holding'[v] = holding[v]
          /\ pc'[v] = pc[v] \/ (pc[v] = "wait" /\ pc'[v] = "lock")
      BY <1>1, OthersKeep, Goes
    <3> QED
      BY <3>1, <3>2 DEF Busy
  <2>2. At(w)'
    <3>0. At(w) /\ DOMAIN local = Workers /\ DOMAIN cur = Workers /\ DOMAIN todo = Workers
      BY DEF InPlace, Stacks
    <3>1. CASE RunDry(w)
      <4>1. /\ pc'[w] \in {"wait", "leave"} /\ ~holding'[w] /\ pc[w] = "lock"
            /\ local' = local /\ cur' = cur /\ todo' = todo
        BY <3>1, OwnMove DEF RunDry
      <4> QED
        BY <3>0, <4>1 DEF Busy
    <3>2. CASE FindDry(w)
      <4>1. /\ pc'[w] \in {"wait", "leave"} /\ ~holding[w] /\ pc[w] = "lock"
            /\ local' = local /\ cur' = cur /\ todo' = todo /\ holding' = holding
        BY <3>2, OwnMove DEF FindDry
      <4> QED
        BY <3>0, <4>1 DEF Busy
    <3>3. CASE TakeBatch(w)
      <4>1. /\ pc'[w] = "pop" /\ holding'[w] /\ pc[w] = "lock" /\ cur' = cur /\ todo' = todo
        BY <3>3, OwnMove DEF TakeBatch
      <4> QED
        BY <3>0, <4>1 DEF Busy
    <3>4. CASE Leave(w)
      <4>1. /\ pc'[w] = "exit" /\ pc[w] = "leave" /\ local' = local
            /\ cur' = cur /\ todo' = todo /\ holding' = holding
        BY <3>4, OwnMove DEF Leave
      <4> QED
        BY <3>0, <4>1 DEF Busy
    <3>5. CASE Pop(w)
      <4>1. /\ pc'[w] = "mark" /\ pc[w] = "pop" /\ holding' = holding /\ cur'[w] \in local[w]
        BY <3>0, <3>5, OwnMove DEF Pop
      <4>2. cur'[w] # Nobody
        BY <4>1, ConnectivityAssumption DEF Stacks
      <4> QED
        BY <3>0, <4>1, <4>2 DEF Busy
    <3>6. CASE MarkLink(w)
      <4>1. pc' = pc /\ pc[w] = "mark" /\ holding' = holding /\ cur' = cur
        BY <3>6 DEF MarkLink
      <4> QED
        BY <3>0, <4>1 DEF Busy
    <3>7. CASE Traversed(w)
      <4>1. /\ pc'[w] = "surplus" /\ pc[w] = "mark" /\ holding' = holding
            /\ cur'[w] = Nobody /\ todo' = todo /\ todo[w] = {} /\ local' = local
        BY <3>0, <3>7, OwnMove DEF Traversed
      <4> QED
        BY <3>0, <4>1 DEF Busy
    <3>8. CASE HandBack(w)
      <4>1. /\ pc'[w] = "pop" /\ pc[w] = "surplus" /\ holding' = holding
            /\ cur' = cur /\ todo' = todo
        BY <3>8, OwnMove DEF HandBack
      <4> QED
        BY <3>0, <4>1 DEF Busy
    <3>9. CASE NoSurplus(w)
      <4>1. /\ pc'[w] = IF local[w] = {} THEN "lock" ELSE "pop"
            /\ pc[w] = "surplus" /\ holding' = holding /\ local' = local
            /\ cur' = cur /\ todo' = todo
        BY <3>9, OwnMove DEF NoSurplus
      <4> QED
        BY <3>0, <4>1 DEF Busy
    <3> QED
      BY <1>1, <3>1, <3>2, <3>3, <3>4, <3>5, <3>6, <3>7, <3>8, <3>9 DEF worker
  <2> QED
    BY <2>1, <2>2 DEF InPlace
<1>2. CASE checkConnectivity \/ UNCHANGED vars
  BY <1>2 DEF checkConnectivity, vars, InPlace, Busy
<1> QED
  BY <1>1, <1>2 DEF Next, Finished

\* Somebody is counted as long as the count says so.
Agreeing ==
  /\ active \in Nat
  /\ active > 0 <=> \E v \in Workers : holding[v]
  /\ active = 0 <=> \A v \in Workers : ~holding[v]

LEMMA SomebodyCounted == Places /\ CountRight => Agreeing
<1> SUFFICES ASSUME Places, CountRight PROVE Agreeing
  OBVIOUS
<1>1. /\ Cardinality(Counted) \in 0 .. Cardinality(Workers)
      /\ Cardinality(Counted) = 0 <=> \A w \in Workers : ~holding[w]
  BY CountedFinite
<1>2. active \in Nat
  BY <1>1, ConnectivityAssumption, FS_CardinalityType DEF CountRight
<1> QED
  BY <1>1, <1>2 DEF CountRight, Agreeing

\* The same after a step.
LEMMA SomebodyCountedNext == Places' /\ CountRight' => Agreeing'
BY SomebodyCounted, PTL

\* A worker that is past the lock is counted.
LEMMA PastTheLock ==
  ASSUME InPlace, NEW w \in Workers,
         Pop(w) \/ MarkLink(w) \/ Traversed(w) \/ HandBack(w) \/ NoSurplus(w)
  PROVE  holding[w]
BY DEF InPlace, Busy, Pop, MarkLink, Traversed, HandBack, NoSurplus

LEMMA SleepStep == IInv /\ [Next]_vars => NobodySleepsThrough'
<1> SUFFICES ASSUME IInv, [Next]_vars, NEW v \in Workers, pc'[v] = "wait"
             PROVE  stack' = {} /\ \E u \in Workers : holding'[u]
  BY DEF NobodySleepsThrough
<1>1. Places /\ CountRight /\ Places' /\ CountRight'
  <2>1. Places /\ CountRight
    BY DEF IInv
  <2>2. CASE checkConnectivity \/ UNCHANGED vars
    BY <2>1, <2>2 DEF checkConnectivity, vars, Places, CountRight, Counted
  <2>3. CASE \E w \in Workers : worker(w)
    BY <2>1, <2>3, Goes, CountStep
  <2> QED
    BY <2>1, <2>2, <2>3 DEF Next, Finished
<1>2. pc[v] = "wait" => stack = {} /\ \E u \in Workers : holding[u]
  BY DEF IInv, NobodySleepsThrough
<1>3. ASSUME NEW w \in Workers, worker(w)
      PROVE  stack' = {} /\ \E u \in Workers : holding'[u]
  <2>1. v # w => pc[v] = "wait"
    BY <1>1, <1>3, Goes
  <2>2. CASE RunDry(w)
    <3>1. active' # 0
      <4>1. CASE v = w
        BY <1>1, <2>2, <4>1, OwnMove
      <4>2. CASE v # w
        BY <1>1, <2>2, <4>2, OwnMove
      <4> QED
        BY <4>1, <4>2
    <3>2. \E u \in Workers : holding'[u]
      <4>1. CountRight'
        BY <1>1, <1>3, CountStep
      <4> QED
        BY <1>1, <3>1, <4>1, SomebodyCountedNext DEF Agreeing
    <3> QED
      BY <2>2, <3>2 DEF RunDry
  <2>3. CASE FindDry(w)
    <3>1. stack' = {} /\ holding' = holding
      BY <2>3 DEF FindDry
    <3>2. CASE v = w
      <4>1. active > 0
        BY <1>1, <2>3, <3>2, OwnMove
      <4> QED
        BY <1>1, <3>1, <4>1, SomebodyCounted DEF Agreeing
    <3> QED
      BY <1>2, <2>1, <3>1, <3>2
  <2>4. CASE TakeBatch(w)
    BY <1>1, <1>2, <2>1, <2>4, OwnMove DEF TakeBatch
  <2>5. CASE HandBack(w)
    BY <1>1, <2>5, OwnMove
  <2>6. CASE Leave(w) \/ Pop(w) \/ MarkLink(w) \/ Traversed(w) \/ NoSurplus(w)
    <3>1. stack' = stack /\ holding' = holding
      BY <2>6 DEF Leave, Pop, MarkLink, Traversed, NoSurplus
    <3>2. pc[v] = "wait"
      <4>1. CASE v = w /\ ~MarkLink(w)
        BY <1>1, <2>6, <4>1, OwnMove
      <4>2. CASE MarkLink(w)
        BY <4>2 DEF MarkLink
      <4> QED
        BY <2>1, <4>1, <4>2
    <3> QED
      BY <1>2, <3>1, <3>2
  <2> QED
    BY <1>3, <2>2, <2>3, <2>4, <2>5, <2>6 DEF worker
<1>4. CASE checkConnectivity \/ UNCHANGED vars
  BY <1>2, <1>4 DEF checkConnectivity, vars
<1> QED
  BY <1>3, <1>4 DEF Next, Finished

LEMMA LeftStep == IInv /\ [Next]_vars => LeftDry'
<1> SUFFICES ASSUME IInv, [Next]_vars, NEW v \in Workers, pc'[v] \in {"leave", "exit"}
             PROVE  stack' = {} /\ \A u \in Workers : ~holding'[u]
  BY DEF LeftDry
<1>1. Places /\ CountRight /\ InPlace
  BY DEF IInv
<1>2. pc[v] \in {"leave", "exit"} => stack = {} /\ \A u \in Workers : ~holding[u]
  BY DEF IInv, LeftDry
<1>3. ASSUME NEW w \in Workers, worker(w)
      PROVE  stack' = {} /\ \A u \in Workers : ~holding'[u]
  <2>1. v # w => pc[v] \in {"leave", "exit"}
    BY <1>1, <1>3, Goes
  <2>2. Places' /\ CountRight'
    BY <1>1, <1>3, Goes, CountStep
  <2>3. CASE RunDry(w)
    <3>1. v = w
      BY <1>2, <2>1, <2>3 DEF RunDry
    <3>2. ~(active' > 0)
      BY <1>1, <2>3, <3>1, OwnMove
    <3>3. \A u \in Workers : ~holding'[u]
      BY <2>2, <3>2, SomebodyCountedNext DEF Agreeing
    <3> QED
      BY <2>3, <3>3 DEF RunDry
  <2>4. CASE FindDry(w)
    <3>1. stack' = {} /\ holding' = holding
      BY <2>4 DEF FindDry
    <3>2. CASE v = w
      <4>1. ~(active > 0)
        BY <1>1, <2>4, <3>2, OwnMove
      <4> QED
        BY <1>1, <3>1, <4>1, SomebodyCounted DEF Agreeing
    <3> QED
      BY <1>2, <2>1, <3>1, <3>2
  <2>5. CASE TakeBatch(w)
    BY <1>1, <1>2, <2>1, <2>5, OwnMove DEF TakeBatch
  <2>6. CASE Leave(w)
    <3>1. pc[w] = "leave" /\ stack' = stack /\ holding' = holding
      BY <2>6 DEF Leave
    <3> QED
      BY <3>1 DEF IInv, LeftDry
  <2>7. CASE Pop(w) \/ MarkLink(w) \/ Traversed(w) \/ HandBack(w) \/ NoSurplus(w)
    <3>1. holding[w]
      BY <1>1, <2>7, PastTheLock
    <3>2. v # w
      <4>1. pc'[w] \in {"mark", "surplus", "pop", "lock"}
        BY <1>1, <2>7, OwnMove DEF MarkLink
      <4> QED
        BY <4>1
    <3> QED
      BY <1>2, <2>1, <3>1, <3>2
  <2> QED
    BY <1>3, <2>3, <2>4, <2>5, <2>6, <2>7 DEF worker
<1>4. CASE checkConnectivity \/ UNCHANGED vars
  BY <1>2, <1>4 DEF checkConnectivity, vars
<1> QED
  BY <1>3, <1>4 DEF Next, Finished

-----------------------------------------------------------------------------
(***************************************************************************)
(* The flags, the stacks and what is left to do.                           *)
(***************************************************************************)
\* What a Pop takes and what a MarkLink marks.
LEMMA Popped ==
  ASSUME IInv, NEW w \in Workers, Pop(w)
  PROVE  \E o \in local[w] :
           /\ o \in reach \cap repo.has /\ o \in Objects /\ o # Nobody
           /\ local' = [local EXCEPT ![w] = local[w] \ {o}]
           /\ cur' = [cur EXCEPT ![w] = o]
           /\ todo' = [todo EXCEPT ![w] = repo.links[o]]
           /\ stack' = stack /\ reach' = reach /\ repo' = repo
           /\ cur[w] = Nobody
<1>1. PICK o \in local[w] : /\ local' = [local EXCEPT ![w] = local[w] \ {o}]
                            /\ cur' = [cur EXCEPT ![w] = o]
                            /\ todo' = [todo EXCEPT ![w] = repo.links[o]]
  BY DEF Pop
<1>2. o \in reach \cap repo.has /\ o \in Objects
  BY DEF IInv, Flagged, Kinds
<1>3. cur[w] = Nobody
  BY DEF IInv, InPlace, Pop
<1>4. stack' = stack /\ reach' = reach /\ repo' = repo
  BY DEF Pop
<1> QED
  BY <1>1, <1>2, <1>3, <1>4, ConnectivityAssumption

LEMMA Marked ==
  ASSUME IInv, NEW w \in Workers, MarkLink(w)
  PROVE  \E c \in todo[w] :
           /\ c \in Objects /\ c \in Reach(repo)
           /\ todo' = [todo EXCEPT ![w] = todo[w] \ {c}]
           /\ reach' = reach \cup {c}
           /\ local' = [local EXCEPT ![w] = IF c \notin reach /\ c \in repo.has
                                            THEN local[w] \cup {c} ELSE local[w]]
           /\ blamed' = [blamed EXCEPT ![c] =
                           IF c \notin reach /\ c \notin repo.has \cup repo.file
                           THEN blamed[c] + 1 ELSE blamed[c]]
           /\ stack' = stack /\ cur' = cur /\ repo' = repo
<1>1. PICK c \in todo[w] :
           /\ todo' = [todo EXCEPT ![w] = todo[w] \ {c}]
           /\ reach' = reach \cup {c}
           /\ local' = [local EXCEPT ![w] = IF c \notin reach /\ c \in repo.has
                                            THEN local[w] \cup {c} ELSE local[w]]
           /\ blamed' = [blamed EXCEPT ![c] =
                           IF c \notin reach /\ c \notin repo.has \cup repo.file
                           THEN blamed[c] + 1 ELSE blamed[c]]
  BY DEF MarkLink
<1>2. c \in Objects
  BY DEF IInv, Stacks
<1>3. cur[w] \in reach \cap repo.has /\ c \in repo.links[cur[w]]
  BY DEF IInv, InPlace, Flagged, MarkLink
<1>4. c \in Reach(repo)
  BY <1>3, ReachClosed DEF IInv, Traced
<1>5. stack' = stack /\ cur' = cur /\ repo' = repo
  BY DEF MarkLink
<1> QED
  BY <1>1, <1>2, <1>4, <1>5

\* The steps that touch none of it.
LEMMA Untouched ==
  ASSUME NEW w \in Workers, RunDry(w) \/ FindDry(w) \/ Leave(w) \/ NoSurplus(w)
  PROVE  UNCHANGED <<repo, reach, stack, local, cur, todo>>
BY DEF RunDry, FindDry, Leave, NoSurplus

LEMMA FlaggedStep == IInv /\ [Next]_vars => Flagged'
<1> SUFFICES ASSUME IInv, [Next]_vars PROVE Flagged'
  OBVIOUS
<1>0. Flagged /\ Stacks
  BY DEF IInv
<1> USE DEF Stacks
<1>1. ASSUME NEW w \in Workers, worker(w) PROVE Flagged'
  <2>1. CASE RunDry(w) \/ FindDry(w) \/ Leave(w) \/ NoSurplus(w)
    BY <1>0, <2>1, Untouched DEF Flagged
  <2>2. CASE TakeBatch(w)
    <3>1. PICK batch \in SUBSET stack :
            local' = [local EXCEPT ![w] = batch] /\ stack' = stack \ batch
      BY <2>2 DEF TakeBatch
    <3> QED
      BY <1>0, <2>2, <3>1 DEF Flagged, TakeBatch
  <2>3. CASE Pop(w)
    BY <1>0, <2>3, Popped DEF Flagged
  <2>4. CASE MarkLink(w)
    BY <1>0, <2>4, Marked DEF Flagged
  <2>5. CASE Traversed(w)
    BY <1>0, <2>5 DEF Flagged, Traversed
  <2>6. CASE HandBack(w)
    <3>1. PICK kept \in SUBSET local[w] :
            local' = [local EXCEPT ![w] = kept] /\ stack' = stack \cup (local[w] \ kept)
      BY <2>6 DEF HandBack
    <3> QED
      BY <1>0, <2>6, <3>1 DEF Flagged, HandBack
  <2> QED
    BY <1>1, <2>1, <2>2, <2>3, <2>4, <2>5, <2>6 DEF worker
<1>2. CASE checkConnectivity \/ UNCHANGED vars
  BY <1>0, <1>2 DEF Flagged, checkConnectivity, vars
<1> QED
  BY <1>1, <1>2 DEF Next, Finished

LEMMA OnceStep == IInv /\ [Next]_vars => TraversedOnce'
<1> SUFFICES ASSUME IInv, [Next]_vars PROVE TraversedOnce'
  OBVIOUS
<1>0. TraversedOnce /\ Stacks /\ Flagged /\ Nobody \notin Objects
  BY ConnectivityAssumption DEF IInv
<1> USE DEF Stacks
<1>1. ASSUME NEW w \in Workers, worker(w) PROVE TraversedOnce'
  <2>1. CASE RunDry(w) \/ FindDry(w) \/ Leave(w) \/ NoSurplus(w)
    BY <1>0, <2>1, Untouched DEF TraversedOnce
  <2>2. CASE TakeBatch(w)
    <3>1. PICK batch \in SUBSET stack :
            local' = [local EXCEPT ![w] = batch] /\ stack' = stack \ batch
      BY <2>2 DEF TakeBatch
    <3>2. cur' = cur
      BY <2>2 DEF TakeBatch
    <3> QED
      BY <1>0, <3>1, <3>2 DEF TraversedOnce
  <2>3. CASE Pop(w)
    <3>1. PICK o \in local[w] :
            /\ o # Nobody
            /\ local' = [local EXCEPT ![w] = local[w] \ {o}]
            /\ cur' = [cur EXCEPT ![w] = o] /\ stack' = stack
      BY <2>3, Popped
    <3>2. /\ local'[w] = local[w] \ {o} /\ cur'[w] = o
          /\ \A v \in Workers \ {w} : local'[v] = local[v] /\ cur'[v] = cur[v]
      BY <1>0, <3>1
    <3> QED
      BY <1>0, <3>1, <3>2 DEF TraversedOnce
  <2>4. CASE MarkLink(w)
    <3>1. PICK c \in Objects :
            /\ local' = [local EXCEPT ![w] = IF c \notin reach /\ c \in repo.has
                                             THEN local[w] \cup {c} ELSE local[w]]
            /\ stack' = stack /\ cur' = cur
      BY <2>4, Marked
    <3>2. CASE c \notin reach /\ c \in repo.has
      <4>1. c \notin stack /\ \A v \in Workers : c \notin local[v] /\ cur[v] # c
        BY <1>0, <3>2 DEF Flagged
      <4>2. /\ local'[w] = local[w] \cup {c}
            /\ \A v \in Workers \ {w} : local'[v] = local[v]
        BY <1>0, <3>1, <3>2
      <4> QED
        BY <1>0, <3>1, <4>1, <4>2 DEF TraversedOnce
    <3>3. CASE ~(c \notin reach /\ c \in repo.has)
      BY <1>0, <3>1, <3>3 DEF TraversedOnce
    <3> QED
      BY <3>2, <3>3
  <2>5. CASE Traversed(w)
    <3>1. /\ cur'[w] = Nobody /\ stack' = stack /\ local' = local
          /\ \A v \in Workers \ {w} : cur'[v] = cur[v]
      BY <1>0, <2>5 DEF Traversed
    <3>2. Nobody \notin stack /\ \A v \in Workers : Nobody \notin local[v]
      BY <1>0
    <3> QED
      BY <1>0, <3>1, <3>2 DEF TraversedOnce
  <2>6. CASE HandBack(w)
    <3>1. PICK kept \in SUBSET local[w] :
            local' = [local EXCEPT ![w] = kept] /\ stack' = stack \cup (local[w] \ kept)
      BY <2>6 DEF HandBack
    <3>2. /\ cur' = cur /\ local'[w] = kept
          /\ \A v \in Workers \ {w} : local'[v] = local[v]
      BY <1>0, <2>6, <3>1 DEF HandBack
    <3> QED
      BY <1>0, <3>1, <3>2 DEF TraversedOnce
  <2> QED
    BY <1>1, <2>1, <2>2, <2>3, <2>4, <2>5, <2>6 DEF worker
<1>2. CASE checkConnectivity \/ UNCHANGED vars
  BY <1>0, <1>2 DEF TraversedOnce, checkConnectivity, vars
<1> QED
  BY <1>1, <1>2 DEF Next, Finished

LEMMA TracedStep == IInv /\ [Next]_vars => Traced'
<1> SUFFICES ASSUME IInv, [Next]_vars PROVE Traced'
  OBVIOUS
<1>0. Traced /\ Stacks /\ InPlace
  BY DEF IInv
<1> USE DEF Stacks
<1>1. ASSUME NEW w \in Workers, worker(w) PROVE Traced'
  <2>1. CASE RunDry(w) \/ FindDry(w) \/ Leave(w) \/ NoSurplus(w)
    BY <1>0, <2>1, Untouched DEF Traced, Pending
  <2>2. CASE TakeBatch(w)
    <3>1. PICK batch \in SUBSET stack :
            local' = [local EXCEPT ![w] = batch] /\ stack' = stack \ batch
      BY <2>2 DEF TakeBatch
    <3>2. /\ local[w] = {} /\ local'[w] = batch
          /\ \A v \in Workers \ {w} : local'[v] = local[v]
          /\ UNCHANGED <<repo, reach, cur, todo>>
      BY <1>0, <2>2, <3>1 DEF TakeBatch, InPlace, Busy
    <3>3. ASSUME NEW o, Pending(o) PROVE Pending(o)'
      BY <3>1, <3>2, <3>3 DEF Pending
    <3> QED
      BY <1>0, <3>2, <3>3 DEF Traced
  <2>3. CASE Pop(w)
    <3>1. PICK o \in local[w] :
            /\ o \in Objects /\ local' = [local EXCEPT ![w] = local[w] \ {o}]
            /\ cur' = [cur EXCEPT ![w] = o] /\ todo' = [todo EXCEPT ![w] = repo.links[o]]
            /\ stack' = stack /\ reach' = reach /\ repo' = repo /\ cur[w] = Nobody
      BY <2>3, Popped
    <3>2. /\ local'[w] = local[w] \ {o} /\ cur'[w] = o /\ todo'[w] = repo.links[o]
          /\ \A v \in Workers \ {w} :
               local'[v] = local[v] /\ cur'[v] = cur[v] /\ todo'[v] = todo[v]
      BY <3>1, <1>0
    <3>3. ASSUME NEW p \in Objects, Pending(p) PROVE Pending(p)'
      <4>1. CASE p = o
        BY <3>1, <3>2, <4>1 DEF Pending
      <4>2. CASE p # o
        BY <3>1, <3>2, <3>3, <4>2, ConnectivityAssumption DEF Pending
      <4> QED
        BY <4>1, <4>2
    <3>4. reach \subseteq Objects
      BY DEF IInv, Kinds
    <3> QED
      BY <1>0, <3>1, <3>3, <3>4 DEF Traced
  <2>4. CASE MarkLink(w)
    <3>1. PICK c \in todo[w] :
            /\ c \in Reach(repo) /\ todo' = [todo EXCEPT ![w] = todo[w] \ {c}]
            /\ reach' = reach \cup {c}
            /\ local' = [local EXCEPT ![w] = IF c \notin reach /\ c \in repo.has
                                             THEN local[w] \cup {c} ELSE local[w]]
            /\ stack' = stack /\ cur' = cur /\ repo' = repo
      BY <2>4, Marked
    <3>2. /\ \A v \in Workers : local[v] \subseteq local'[v]
          /\ \A v \in Workers : todo[v] \subseteq todo'[v] \cup {c}
          /\ c \notin reach /\ c \in repo.has => c \in local'[w]
      BY <1>0, <3>1
    <3>3. ASSUME NEW p, Pending(p) PROVE Pending(p)'
      BY <3>1, <3>2, <3>3 DEF Pending
    <3>4. ASSUME NEW p \in reach' \cap repo.has
          PROVE  Pending(p)' \/ repo.links[p] \subseteq reach'
      <4>1. CASE p \in reach
        BY <1>0, <3>1, <3>3, <3>4, <4>1 DEF Traced
      <4>2. CASE p \notin reach
        BY <3>1, <3>2, <3>4, <4>2 DEF Pending
      <4> QED
        BY <4>1, <4>2
    <3> QED
      BY <1>0, <3>1, <3>4 DEF Traced
  <2>5. CASE Traversed(w)
    <3>1. /\ todo[w] = {} /\ UNCHANGED <<repo, reach, stack, local, todo>>
          /\ \A v \in Workers \ {w} : cur'[v] = cur[v]
      BY <1>0, <2>5 DEF Traversed
    <3>2. ASSUME NEW p, Pending(p) PROVE Pending(p)' \/ repo.links[p] \subseteq reach
      BY <3>1, <3>2 DEF Pending
    <3> QED
      BY <1>0, <3>1, <3>2 DEF Traced
  <2>6. CASE HandBack(w)
    <3>1. PICK kept \in SUBSET local[w] :
            local' = [local EXCEPT ![w] = kept] /\ stack' = stack \cup (local[w] \ kept)
      BY <2>6 DEF HandBack
    <3>2. /\ UNCHANGED <<repo, reach, cur, todo>> /\ local'[w] = kept
          /\ \A v \in Workers \ {w} : local'[v] = local[v]
      BY <1>0, <2>6, <3>1 DEF HandBack
    <3>3. ASSUME NEW p, Pending(p) PROVE Pending(p)'
      BY <3>1, <3>2, <3>3 DEF Pending
    <3> QED
      BY <1>0, <3>2, <3>3 DEF Traced
  <2> QED
    BY <1>1, <2>1, <2>2, <2>3, <2>4, <2>5, <2>6 DEF worker
<1>2. CASE checkConnectivity \/ UNCHANGED vars
  BY <1>0, <1>2 DEF Traced, Pending, checkConnectivity, vars
<1> QED
  BY <1>1, <1>2 DEF Next, Finished

\* Every step of a worker but MarkLink leaves the flags and who was blamed.
LEMMA OnlyMarkLinkFlags ==
  ASSUME NEW w \in Workers, worker(w), ~MarkLink(w)
  PROVE  UNCHANGED <<repo, reach, blamed, used, report>>
<1>1. CASE RunDry(w) \/ FindDry(w) \/ Leave(w) \/ NoSurplus(w)
  BY <1>1 DEF RunDry, FindDry, Leave, NoSurplus
<1>2. CASE TakeBatch(w) \/ Pop(w) \/ Traversed(w) \/ HandBack(w)
  BY <1>2 DEF TakeBatch, Pop, Traversed, HandBack
<1> QED
  BY <1>1, <1>2 DEF worker

LEMMA BlamedStep == IInv /\ [Next]_vars => BlamedSoFar'
<1> SUFFICES ASSUME IInv, [Next]_vars PROVE BlamedSoFar'
  OBVIOUS
<1>0. BlamedSoFar /\ Blames /\ repo.roots \subseteq reach
  BY DEF IInv, Traced
<1>1. ASSUME NEW w \in Workers, MarkLink(w) PROVE BlamedSoFar'
  <2>1. PICK c \in Objects :
          /\ reach' = reach \cup {c} /\ repo' = repo
          /\ blamed' = [blamed EXCEPT ![c] =
                          IF c \notin reach /\ c \notin repo.has \cup repo.file
                          THEN blamed[c] + 1 ELSE blamed[c]]
    BY <1>1, Marked
  <2>2. ASSUME NEW o \in Objects
        PROVE  blamed'[o] = IF o \in reach' \ (repo.roots \cup repo.has \cup repo.file)
                            THEN 1 ELSE 0
    <3>1. blamed[o] = IF o \in reach \ (repo.roots \cup repo.has \cup repo.file) THEN 1 ELSE 0
      BY <1>0 DEF BlamedSoFar
    <3>2. CASE o # c
      BY <1>0, <2>1, <3>1, <3>2 DEF Blames
    <3>3. CASE o = c
      <4>1. blamed'[c] = IF c \notin reach /\ c \notin repo.has \cup repo.file
                         THEN blamed[c] + 1 ELSE blamed[c]
        BY <1>0, <2>1 DEF Blames
      <4>2. CASE c \in reach
        BY <2>1, <3>1, <3>3, <4>1, <4>2
      <4>3. CASE c \notin reach
        <5>1. blamed[c] = 0 /\ c \notin repo.roots /\ c \in reach'
          BY <1>0, <2>1, <3>1, <3>3, <4>3
        <5> QED
          BY <3>3, <4>1, <4>3, <5>1
      <4> QED
        BY <4>2, <4>3
    <3> QED
      BY <3>2, <3>3
  <2> QED
    BY <2>1, <2>2 DEF BlamedSoFar
<1>2. ASSUME NEW w \in Workers, worker(w), ~MarkLink(w) PROVE BlamedSoFar'
  BY <1>0, <1>2, OnlyMarkLinkFlags DEF BlamedSoFar
<1>3. CASE checkConnectivity \/ UNCHANGED vars
  BY <1>0, <1>3 DEF BlamedSoFar, checkConnectivity, vars
<1> QED
  BY <1>1, <1>2, <1>3 DEF Next, Finished

LEMMA MarkedStep == IInv /\ [Next]_vars => MarkedSoFar'
<1> SUFFICES ASSUME IInv, [Next]_vars PROVE MarkedSoFar'
  OBVIOUS
<1>0. MarkedSoFar
  BY DEF IInv
<1>1. ASSUME NEW w \in Workers, worker(w) PROVE MarkedSoFar'
  <2>1. ~report.made
    <3>1. pc[w] # "exit"
      BY <1>1 DEF worker, RunDry, FindDry, TakeBatch, Leave, Pop, MarkLink, Traversed,
                  HandBack, NoSurplus
    <3> QED
      BY <1>0, <3>1 DEF MarkedSoFar, Done
  <2>2. UNCHANGED <<repo, used, report>>
    BY <1>1, OnlyMarkLinkFlags DEF MarkLink
  <2> QED
    BY <1>0, <2>1, <2>2 DEF MarkedSoFar
<1>2. CASE checkConnectivity
  <2>1. used = UsedBefore(repo) /\ Done /\ report'.made
    BY <1>0, <1>2 DEF MarkedSoFar, checkConnectivity
  <2>2. report'.dangling = repo.has \ (reach \cup Used(repo, used, reach))
    BY <1>2 DEF checkConnectivity
  <2> QED
    BY <1>2, <2>1, <2>2 DEF MarkedSoFar, checkConnectivity, Done
<1>3. CASE UNCHANGED vars
  BY <1>0, <1>3 DEF MarkedSoFar, Done, vars
<1> QED
  BY <1>1, <1>2, <1>3 DEF Next, Finished

LEMMA InvStep == IInv /\ [Next]_vars => IInv'
<1> SUFFICES ASSUME IInv, [Next]_vars PROVE IInv'
  OBVIOUS
<1>1. Kinds /\ Stacks /\ Places /\ Blames /\ CountRight /\ InPlace
  BY DEF IInv
<1>2. Kinds' /\ Stacks' /\ Blames' /\ CountRight' /\ InPlace'
  BY <1>1, KindsStep, StacksStep, BlamesStep, CountStep, InPlaceStep
<1>3. Places'
  <2>1. CASE \E w \in Workers : worker(w)
    BY <1>1, <2>1, Goes
  <2>2. CASE checkConnectivity \/ UNCHANGED vars
    BY <1>1, <2>2 DEF checkConnectivity, vars, Places
  <2> QED
    BY <2>1, <2>2 DEF Next, Finished
<1>4. NobodySleepsThrough' /\ LeftDry' /\ Flagged' /\ TraversedOnce' /\ Traced'
  BY SleepStep, LeftStep, FlaggedStep, OnceStep, TracedStep
<1>5. BlamedSoFar' /\ MarkedSoFar'
  BY BlamedStep, MarkedStep
<1> QED
  BY <1>2, <1>3, <1>4, <1>5 DEF IInv

\* The inductive invariant holds in every state of the walk and of the report.
LEMMA Invariant == Spec => []IInv
<1>1. Init => IInv
  BY InitInv
<1>2. IInv /\ [Next]_vars => IInv'
  BY InvStep
<1> QED
  BY <1>1, <1>2, PTL DEF Spec

-----------------------------------------------------------------------------
(***************************************************************************)
(* What it gives.                                                          *)
(***************************************************************************)
\* Once every worker has left, what is flagged is what the roots reach.
LEMMA ExactWhenDone == IInv => TraverseExact
<1> SUFFICES ASSUME IInv, Done PROVE reach = Reach(repo)
  BY DEF TraverseExact
<1>1. PICK w \in Workers : TRUE
  BY ConnectivityAssumption
<1>2. stack = {} /\ \A v \in Workers : ~holding[v]
  BY <1>1 DEF Done, IInv, LeftDry
<1>3. \A v \in Workers : local[v] = {} /\ cur[v] = Nobody
  BY <1>2 DEF IInv, InPlace, Done, Busy
<1>4. repo.has \subseteq Objects /\ reach \subseteq Objects
  BY RepoFacts DEF IInv, Kinds
<1>5. \A o \in reach \cap repo.has : ~Pending(o)
  BY <1>2, <1>3, <1>4, ConnectivityAssumption DEF Pending
<1>6. Closed(repo, reach)
  BY <1>5 DEF IInv, Traced, Closed
<1>7. Reach(repo) \subseteq reach
  BY <1>4, <1>6 DEF Reach
<1> QED
  BY <1>7 DEF IInv, Traced

\* At every step the count, the stacks and the flags agree with what each
\* worker is doing: nobody sleeps while there is work or after the end, who has
\* left left nothing behind, and no object is on two stacks
\* (traverseReachable).
THEOREM WorkersAgree == Spec => []Bookkeeping
<1>1. IInv => Bookkeeping
  <2> SUFFICES ASSUME IInv PROVE Bookkeeping
    OBVIOUS
  <2>1. LeftMeansOver
    <3> SUFFICES ASSUME NEW w \in Workers, pc[w] \in {"leave", "exit"}
                 PROVE  /\ stack = {}
                        /\ \A v \in Workers : local[v] = {} /\ todo[v] = {} /\ ~Busy(v)
      BY DEF LeftMeansOver
    <3>1. stack = {} /\ \A v \in Workers : ~holding[v]
      BY DEF IInv, LeftDry
    <3> QED
      BY <3>1 DEF IInv, InPlace, Busy
  <2> QED
    BY <2>1, TypeParts DEF Bookkeeping, IInv
<1> QED
  BY <1>1, Invariant, PTL

\* When the last worker leaves, the reachable flags are what the roots reach,
\* in any graph, whichever worker took what (markReachable, traverseReachable,
\* markLinkInto).
THEOREM TraversesExactly == Spec => []TraverseExact
BY ExactWhenDone, Invariant, PTL

\* The report blames each broken link once, and names as dangling the tips of
\* what is unreachable, with --connectivity-only or without (markLinkInto,
\* markUnreachableReferents, checkUnreachableObject).
THEOREM ReportIsRight == Spec => []ReportRight
<1>1. IInv => ReportRight
  <2> SUFFICES ASSUME IInv PROVE ReportRight
    OBVIOUS
  <2>1. Done => reach = Reach(repo)
    BY ExactWhenDone DEF TraverseExact
  <2>2. BlamedOnce
    BY <2>1 DEF BlamedOnce, IInv, BlamedSoFar
  <2>3. ASSUME report.made
        PROVE  report.dangling =
                 {o \in repo.has \ Reach(repo) : \A p \in repo.has : o \notin repo.links[p]}
    <3> DEFINE u == Used(repo, UsedBefore(repo), reach)
    <3>1. Done /\ report.dangling = repo.has \ (reach \cup u)
      BY <2>3 DEF IInv, MarkedSoFar
    <3>2. reach = Reach(repo)
      BY <2>1, <3>1
    <3>3. /\ repo.roots \subseteq reach
          /\ \A p \in reach \cap repo.has : repo.links[p] \subseteq reach
      BY <3>2, ReachClosed DEF IInv
    <3>4. ASSUME NEW o \in repo.has \ reach
          PROVE  o \in u <=> \E p \in repo.has : o \in repo.links[p]
      <4>1. CASE repo.only
        BY <3>3, <3>4, <4>1 DEF Used, UsedBefore
      <4>2. CASE ~repo.only
        BY <3>3, <3>4, <4>2 DEF Used, UsedBefore
      <4> QED
        BY <4>1, <4>2
    <3> HIDE DEF u
    <3> QED
      BY <3>1, <3>2, <3>4
  <2> QED
    BY <2>2, <2>3 DEF ReportRight, DanglingAreTips
<1> QED
  BY <1>1, Invariant, PTL
=============================================================================
