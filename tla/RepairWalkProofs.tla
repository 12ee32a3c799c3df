--------------------------- MODULE RepairWalkProofs ---------------------------
(***************************************************************************)
(* Proofs about RepairWalk, for every repository, every number of workers  *)
(* and every interleaving of them.                                         *)
(***************************************************************************)
EXTENDS RepairWalk, FiniteSetTheorems, TLAPS

-----------------------------------------------------------------------------
(***************************************************************************)
(* The inductive invariant, one named part per idea.                       *)
(***************************************************************************)
Held(w) == pc[w] \in Holding

\* A link let into seen that has not reached the queue yet.
Coming(w) == pc[w] \in {"count", "enqueue"}

\* What has been dealt with: noted, or everything it names let into seen.
Settled(o) ==
  /\ o \notin repo.readable => o \in bad
  /\ o \in repo.readable => repo.links[o] \subseteq seen

\* No object is in two places of queue, hands and on its way in.
Distinct ==
  /\ \A w \in Workers : Held(w) => cur[w] \notin queue
  /\ \A w, v \in Workers : w # v /\ Held(w) /\ Held(v) => cur[w] # cur[v]
  /\ \A w \in Workers : Coming(w) => link[w] \notin queue
  /\ \A w, v \in Workers : Coming(w) /\ Held(v) => link[w] # cur[v]
  /\ \A w, v \in Workers : w # v /\ Coming(w) /\ Coming(v) => link[w] # link[v]

\* Whatever is in one of those places went through seen.
ThroughSeen ==
  /\ repo.roots \subseteq seen
  /\ Carried(repo) \subseteq seen
  /\ queue \subseteq seen
  /\ \A w \in Workers : Held(w) => cur[w] \in seen
  /\ \A w \in Workers : Coming(w) => link[w] \in seen

\* How far each worker is with the object it holds.
Progress ==
  \A w \in Workers :
    /\ pc[w] \in {"follow", "known", "count", "enqueue"} =>
         /\ cur[w] \in repo.readable
         /\ todo[w] \subseteq repo.links[cur[w]]
         /\ repo.links[cur[w]] \ todo[w] \subseteq seen
    /\ pc[w] = "note" => cur[w] \notin repo.readable
    /\ pc[w] \in {"found", "stop", "flag"} =>
         cur[w] \notin repo.readable /\ cur[w] \in bad
    /\ pc[w] = "finish" => Settled(cur[w])

\* Nothing that was seen is forgotten.
Accounted ==
  \A o \in seen :
    \/ o \in Carried(repo)
    \/ o \in queue
    \/ \E w \in Workers : Held(w) /\ cur[w] = o
    \/ \E w \in Workers : Coming(w) /\ link[w] = o
    \/ Settled(o)

\* The walk goes nowhere the roots do not lead.
Sound ==
  /\ seen \subseteq Reach(repo) \cup Carried(repo)
  /\ queue \subseteq Reach(repo)
  /\ \A w \in Workers : Held(w) => cur[w] \in Reach(repo)
  /\ \A w \in Workers : Coming(w) => link[w] \in Reach(repo)
  /\ bad \subseteq BadReach(repo)

\* The hunt counts no object that is not in the map already.
Finders == {w \in Workers : pc[w] = "found"}
FoundBound == found + Cardinality(Finders) <= Cardinality(bad)

\* Only a hunt that has counted enough stops the walk.
StopMeansEnough ==
  /\ stop \/ (\E w \in Workers : pc[w] = "stop") =>
       repo.hunt > 0 /\ found >= repo.hunt
  /\ \A w \in Workers : pc[w] = "found" => repo.hunt > 0

IInv ==
  /\ TypeOK
  /\ Distinct
  /\ ThroughSeen
  /\ Progress
  /\ Accounted
  /\ Sound
  /\ PendingExact
  /\ ExitMeansOver
  /\ FoundBound
  /\ StopMeansEnough

-----------------------------------------------------------------------------
\* The tables have their types when the workers start (scanRefs, descend).
LEMMA TypeInit == Init => TypeOK
<1> SUFFICES ASSUME Init PROVE TypeOK
  OBVIOUS
<1>1. repo \in RepoType
  BY RepoAssumption DEF Init
<1>2. repo.roots \subseteq Objects /\ repo.carried \subseteq Objects
  BY <1>1 DEF RepoType
<1>3. Cardinality(repo.roots) \in Nat
  BY <1>2, RepoAssumption, FS_Subset, FS_CardinalityType
<1>4. repo \in Repos /\ seen \in SUBSET Objects /\ queue \in SUBSET Objects
  BY <1>2 DEF Init
<1>5. pending \in Int /\ found \in Nat /\ bad \in SUBSET Objects
  BY <1>3 DEF Init
<1>6. anyBad \in BOOLEAN /\ stop \in BOOLEAN
  BY DEF Init
<1>7. /\ via \in [Objects -> Objects \cup {NoObject}]
      /\ cur \in [Workers -> Objects \cup {NoObject}]
      /\ link \in [Workers -> Objects \cup {NoObject}]
  BY DEF Init
<1>8. /\ needs \in [Objects -> SUBSET (Objects \cup {NoObject})]
      /\ todo \in [Workers -> SUBSET Objects]
  BY DEF Init
<1>9. /\ pc \in [Workers -> PC]
      /\ \A w \in Workers : pc[w] \notin Holding
  BY DEF Init, PC, Holding
<1> QED
  BY <1>4, <1>5, <1>6, <1>7, <1>8, <1>9 DEF TypeOK, Holding

\* Each step of walkWorker keeps the types: what it takes comes from the bag,
\* what it wants from the links of an object of the repository.
LEMMA TypeStep == TypeOK /\ [Next]_vars => TypeOK'
<1> SUFFICES ASSUME TypeOK, [Next]_vars PROVE TypeOK'
  OBVIOUS
<1>0. repo \in RepoType
  BY RepoAssumption DEF TypeOK
<1>1. CASE \E w \in Workers : walkWorker(w)
  <2> PICK w \in Workers : walkWorker(w)
    BY <1>1
  <2>1. CASE CheckStop(w) \/ TryTake(w) \/ TakeNothing(w) \/ CheckPending(w)
    BY <2>1 DEF TypeOK, CheckStop, TryTake, TakeNothing, CheckPending, GoTo, PC, Holding, shared
  <2>2. CASE ReadObject(w)
    BY <2>2, <1>0 DEF TypeOK, ReadObject, GoTo, PC, Holding, shared, RepoType
  <2>3. CASE WantNext(w)
    BY <2>3 DEF TypeOK, WantNext, GoTo, PC, Holding
  <2>4. CASE RecordNeed(w)
    <3>1. needs' \in [Objects -> SUBSET (Objects \cup {NoObject})]
      BY <2>4 DEF TypeOK, RecordNeed, Holding
    <3> QED
      BY <2>4, <3>1 DEF TypeOK, RecordNeed, GoTo, PC, Holding
  <2>5. CASE QueueLink(w)
    BY <2>5 DEF TypeOK, QueueLink, GoTo, PC, Holding
  <2>6. CASE Note(w)
    <3>1. needs' \in [Objects -> SUBSET (Objects \cup {NoObject})]
      BY <2>6 DEF TypeOK, Note, Holding
    <3> QED
      BY <2>6, <3>1 DEF TypeOK, Note, GoTo, PC, Holding
  <2>7. CASE NoMoreLinks(w) \/ CountLink(w)
    BY <2>7 DEF TypeOK, NoMoreLinks, CountLink, GoTo, PC, Holding, shared
  <2>8. CASE CountFound(w) \/ Finish(w)
    BY <2>8 DEF TypeOK, CountFound, Finish, GoTo, PC, Holding
  <2>9. CASE StopWalk(w)
    BY <2>9 DEF TypeOK, StopWalk, GoTo, PC, Holding
  <2>10. CASE RaiseFlag(w)
    BY <2>10 DEF TypeOK, RaiseFlag, GoTo, PC, Holding
  <2> QED
    BY <2>1, <2>2, <2>3, <2>4, <2>5, <2>6, <2>7, <2>8, <2>9, <2>10 DEF walkWorker
<1>2. CASE Finished \/ UNCHANGED vars
  BY <1>2 DEF Finished, TypeOK, vars, shared
<1> QED
  BY <1>1, <1>2 DEF Next

\* The tables of the walk keep their types, and a worker that is past TryTake
\* or past TryAdd has an object in hand, in every behaviour (walkWorker, want).
THEOREM TypeCorrect == Spec => []TypeOK
  BY TypeInit, TypeStep, PTL DEF Spec

-----------------------------------------------------------------------------
(***************************************************************************)
(* Facts about the graph and the tables the invariant is built from.       *)
(***************************************************************************)
\* What the roots lead to is itself closed: one more link stays inside.
LEMMA ReachClosed == \A r \in Repos : Closed(r, Reach(r)) /\ Reach(r) \subseteq Objects
<1> TAKE r \in Repos
<1>1. r \in RepoType
  BY RepoAssumption
<1>2. r.roots \subseteq Objects /\ \A o \in Objects : r.links[o] \subseteq Objects
  BY <1>1 DEF RepoType
<1>3. r.roots \subseteq Reach(r)
  BY <1>2 DEF Reach, Closed
<1>4. ASSUME NEW o \in Reach(r) \cap r.readable, NEW c \in r.links[o] \ Carried(r)
      PROVE  c \in Reach(r)
  <2>1. o \in Objects /\ c \in Objects
    BY <1>2, <1>4 DEF Reach
  <2>2. ASSUME NEW S \in SUBSET Objects, Closed(r, S) PROVE c \in S
    <3>1. o \in S
      BY <2>2, <1>4 DEF Reach
    <3> QED
      BY <3>1, <2>2, <1>4 DEF Closed
  <2> QED
    BY <2>1, <2>2 DEF Reach
<1> QED
  BY <1>3, <1>4 DEF Closed, Reach

\* What pending counts is a finite set of objects, so that it has a number.
LEMMA OutstandingFinite ==
  TypeOK => /\ Outstanding \subseteq Objects
            /\ IsFiniteSet(Outstanding)
            /\ Cardinality(Outstanding) \in Nat
<1> SUFFICES ASSUME TypeOK PROVE Outstanding \subseteq Objects
  BY RepoAssumption, FS_Subset, FS_CardinalityType
<1> QED
  BY DEF TypeOK, Outstanding, Holding

\* No step changes the repository, and the tables of what was seen and found only grow.
LEMMA Grows ==
  [Next]_vars => /\ repo' = repo
                 /\ seen \subseteq seen'
                 /\ bad \subseteq bad'
<1> SUFFICES ASSUME [Next]_vars PROVE repo' = repo /\ seen \subseteq seen' /\ bad \subseteq bad'
  OBVIOUS
<1>1. ASSUME NEW w \in Workers, walkWorker(w)
      PROVE  repo' = repo /\ seen \subseteq seen' /\ bad \subseteq bad'
  BY <1>1 DEF walkWorker, CheckStop, TryTake, TakeNothing, CheckPending, ReadObject, WantNext,
     NoMoreLinks, RecordNeed, CountLink, QueueLink, Note, CountFound, StopWalk, RaiseFlag,
     Finish, shared
<1> QED
  BY <1>1 DEF Next, Finished, vars, shared

\* The invariant holds when scanRefs or descend has queued the roots.
LEMMA InvInit == Init => IInv
<1> SUFFICES ASSUME Init PROVE IInv
  OBVIOUS
<1>1. TypeOK
  BY TypeInit
<1>2. repo \in RepoType
  BY RepoAssumption DEF Init
<1>3. \A w \in Workers : pc[w] = "top"
  BY DEF Init
<1>4. Distinct /\ Progress
  BY <1>3 DEF Distinct, Progress, Held, Coming, Holding
<1>5. ThroughSeen /\ Accounted
  BY <1>3 DEF Init, ThroughSeen, Accounted, Held, Coming, Holding, Carried
<1>6. Sound
  <2>1. repo.roots \subseteq Reach(repo)
    BY ReachClosed DEF Init, Closed
  <2> QED
    BY <2>1, <1>3 DEF Init, Sound, Held, Coming, Holding, Carried
<1>7. Outstanding = queue
  BY <1>3 DEF Outstanding, Holding
<1>8. PendingExact /\ ExitMeansOver
  BY <1>3, <1>7 DEF Init, PendingExact, ExitMeansOver
<1>9. FoundBound
  <2>1. Finders = {}
    BY <1>3 DEF Finders
  <2> QED
    BY <2>1, FS_EmptySet DEF Init, FoundBound
<1>10. StopMeansEnough
  BY <1>3 DEF Init, StopMeansEnough
<1> QED
  BY <1>1, <1>4, <1>5, <1>6, <1>8, <1>9, <1>10 DEF IInv
-----------------------------------------------------------------------------
(***************************************************************************)
(* Every step of a worker keeps each part.                                 *)
(***************************************************************************)
\* No step puts an object in a second place: TryAdd lets it in once and
\* TryTake hands it to one worker (want, walkWorker).
LEMMA DistinctStep ==
  ASSUME TypeOK, Distinct, ThroughSeen, NEW w \in Workers, walkWorker(w)
  PROVE  Distinct'
<1>1. CASE CheckStop(w)
  BY <1>1 DEF TypeOK, Distinct, ThroughSeen, Held, Coming, Holding, CheckStop, GoTo, shared
<1>2. CASE TryTake(w)
  BY <1>2 DEF TypeOK, Distinct, ThroughSeen, Held, Coming, Holding, TryTake, GoTo, shared
<1>3. CASE TakeNothing(w)
  BY <1>3 DEF TypeOK, Distinct, ThroughSeen, Held, Coming, Holding, TakeNothing, GoTo, shared
<1>4. CASE CheckPending(w)
  BY <1>4 DEF TypeOK, Distinct, ThroughSeen, Held, Coming, Holding, CheckPending, GoTo, shared
<1>5. CASE ReadObject(w)
  BY <1>5 DEF TypeOK, Distinct, ThroughSeen, Held, Coming, Holding, ReadObject, GoTo, shared
<1>6. CASE WantNext(w)
  BY <1>6 DEF TypeOK, Distinct, ThroughSeen, Held, Coming, Holding, WantNext, GoTo, shared
<1>7. CASE NoMoreLinks(w)
  BY <1>7 DEF TypeOK, Distinct, ThroughSeen, Held, Coming, Holding, NoMoreLinks, GoTo, shared
<1>8. CASE RecordNeed(w)
  BY <1>8 DEF TypeOK, Distinct, ThroughSeen, Held, Coming, Holding, RecordNeed, GoTo, shared
<1>9. CASE CountLink(w)
  BY <1>9 DEF TypeOK, Distinct, ThroughSeen, Held, Coming, Holding, CountLink, GoTo, shared
<1>10. CASE QueueLink(w)
  BY <1>10 DEF TypeOK, Distinct, ThroughSeen, Held, Coming, Holding, QueueLink, GoTo, shared
<1>11. CASE Note(w)
  BY <1>11 DEF TypeOK, Distinct, ThroughSeen, Held, Coming, Holding, Note, GoTo, shared
<1>12. CASE CountFound(w)
  BY <1>12 DEF TypeOK, Distinct, ThroughSeen, Held, Coming, Holding, CountFound, GoTo, shared
<1>13. CASE StopWalk(w)
  BY <1>13 DEF TypeOK, Distinct, ThroughSeen, Held, Coming, Holding, StopWalk, GoTo, shared
<1>14. CASE RaiseFlag(w)
  BY <1>14 DEF TypeOK, Distinct, ThroughSeen, Held, Coming, Holding, RaiseFlag, GoTo, shared
<1>15. CASE Finish(w)
  BY <1>15 DEF TypeOK, Distinct, ThroughSeen, Held, Coming, Holding, Finish, GoTo, shared
<1> QED
  BY <1>1, <1>2, <1>3, <1>4, <1>5, <1>6, <1>7, <1>8, <1>9, <1>10, <1>11, <1>12, <1>13, <1>14, <1>15 DEF walkWorker

\* Every way into the bag or into a worker's hands leads through seen (want).
LEMMA ThroughSeenStep ==
  ASSUME TypeOK, ThroughSeen, NEW w \in Workers, walkWorker(w)
  PROVE  ThroughSeen'
<1>1. CASE CheckStop(w)
  BY <1>1 DEF TypeOK, ThroughSeen, Held, Coming, Holding, CheckStop, GoTo, shared
<1>2. CASE TryTake(w)
  BY <1>2 DEF TypeOK, ThroughSeen, Held, Coming, Holding, TryTake, GoTo, shared
<1>3. CASE TakeNothing(w)
  BY <1>3 DEF TypeOK, ThroughSeen, Held, Coming, Holding, TakeNothing, GoTo, shared
<1>4. CASE CheckPending(w)
  BY <1>4 DEF TypeOK, ThroughSeen, Held, Coming, Holding, CheckPending, GoTo, shared
<1>5. CASE ReadObject(w)
  BY <1>5 DEF TypeOK, ThroughSeen, Held, Coming, Holding, ReadObject, GoTo, shared
<1>6. CASE WantNext(w)
  BY <1>6 DEF TypeOK, ThroughSeen, Held, Coming, Holding, WantNext, GoTo, shared
<1>7. CASE NoMoreLinks(w)
  BY <1>7 DEF TypeOK, ThroughSeen, Held, Coming, Holding, NoMoreLinks, GoTo, shared
<1>8. CASE RecordNeed(w)
  BY <1>8 DEF TypeOK, ThroughSeen, Held, Coming, Holding, RecordNeed, GoTo, shared
<1>9. CASE CountLink(w)
  BY <1>9 DEF TypeOK, ThroughSeen, Held, Coming, Holding, CountLink, GoTo, shared
<1>10. CASE QueueLink(w)
  BY <1>10 DEF TypeOK, ThroughSeen, Held, Coming, Holding, QueueLink, GoTo, shared
<1>11. CASE Note(w)
  BY <1>11 DEF TypeOK, ThroughSeen, Held, Coming, Holding, Note, GoTo, shared
<1>12. CASE CountFound(w)
  BY <1>12 DEF TypeOK, ThroughSeen, Held, Coming, Holding, CountFound, GoTo, shared
<1>13. CASE StopWalk(w)
  BY <1>13 DEF TypeOK, ThroughSeen, Held, Coming, Holding, StopWalk, GoTo, shared
<1>14. CASE RaiseFlag(w)
  BY <1>14 DEF TypeOK, ThroughSeen, Held, Coming, Holding, RaiseFlag, GoTo, shared
<1>15. CASE Finish(w)
  BY <1>15 DEF TypeOK, ThroughSeen, Held, Coming, Holding, Finish, GoTo, shared
<1> QED
  BY <1>1, <1>2, <1>3, <1>4, <1>5, <1>6, <1>7, <1>8, <1>9, <1>10, <1>11, <1>12, <1>13, <1>14, <1>15 DEF walkWorker

\* A worker is past a link only once the link is in seen, and past note only
\* once its object is in bad (walkCommit, walkTree, walkTag, note).
LEMMA ProgressStep ==
  ASSUME TypeOK, Distinct, Progress, NEW w \in Workers, walkWorker(w)
  PROVE  Progress'
<1>1. CASE CheckStop(w)
  BY <1>1 DEF TypeOK, Distinct, Progress, Settled, Held, Coming, Holding, CheckStop, GoTo, shared
<1>2. CASE TryTake(w)
  BY <1>2 DEF TypeOK, Distinct, Progress, Settled, Held, Coming, Holding, TryTake, GoTo, shared
<1>3. CASE TakeNothing(w)
  BY <1>3 DEF TypeOK, Distinct, Progress, Settled, Held, Coming, Holding, TakeNothing, GoTo, shared
<1>4. CASE CheckPending(w)
  BY <1>4 DEF TypeOK, Distinct, Progress, Settled, Held, Coming, Holding, CheckPending, GoTo, shared
<1>5. CASE ReadObject(w)

  <2>1. repo.proven \subseteq repo.readable /\ \A o \in repo.proven : repo.links[o] = {}
    BY RepoAssumption DEF TypeOK
  <2> QED
    BY <1>5, <2>1 DEF TypeOK, Progress, Settled, Holding, ReadObject, GoTo, shared
<1>6. CASE WantNext(w)
  BY <1>6 DEF TypeOK, Distinct, Progress, Settled, Held, Coming, Holding, WantNext, GoTo, shared
<1>7. CASE NoMoreLinks(w)
  BY <1>7 DEF TypeOK, Distinct, Progress, Settled, Held, Coming, Holding, NoMoreLinks, GoTo, shared
<1>8. CASE RecordNeed(w)
  BY <1>8 DEF TypeOK, Distinct, Progress, Settled, Held, Coming, Holding, RecordNeed, GoTo, shared
<1>9. CASE CountLink(w)
  BY <1>9 DEF TypeOK, Distinct, Progress, Settled, Held, Coming, Holding, CountLink, GoTo, shared
<1>10. CASE QueueLink(w)
  BY <1>10 DEF TypeOK, Distinct, Progress, Settled, Held, Coming, Holding, QueueLink, GoTo, shared
<1>11. CASE Note(w)
  BY <1>11 DEF TypeOK, Distinct, Progress, Settled, Held, Coming, Holding, Note, GoTo, shared
<1>12. CASE CountFound(w)
  BY <1>12 DEF TypeOK, Distinct, Progress, Settled, Held, Coming, Holding, CountFound, GoTo, shared
<1>13. CASE StopWalk(w)
  BY <1>13 DEF TypeOK, Distinct, Progress, Settled, Held, Coming, Holding, StopWalk, GoTo, shared
<1>14. CASE RaiseFlag(w)
  BY <1>14 DEF TypeOK, Distinct, Progress, Settled, Held, Coming, Holding, RaiseFlag, GoTo, shared
<1>15. CASE Finish(w)
  BY <1>15 DEF TypeOK, Distinct, Progress, Settled, Held, Coming, Holding, Finish, GoTo, shared
<1> QED
  BY <1>1, <1>2, <1>3, <1>4, <1>5, <1>6, <1>7, <1>8, <1>9, <1>10, <1>11, <1>12, <1>13, <1>14, <1>15 DEF walkWorker

\* An object leaves a worker's hands only when it is settled, so nothing that
\* was seen is dropped on the way (walkWorker, want).
LEMMA AccountedStep ==
  ASSUME TypeOK, ThroughSeen, Progress, Accounted, NEW w \in Workers, walkWorker(w)
  PROVE  Accounted'
<1>1. CASE CheckStop(w)
  BY <1>1 DEF TypeOK, Progress, Accounted, Settled, Held, Coming, Holding, CheckStop, GoTo, shared
<1>2. CASE TryTake(w)
  BY <1>2 DEF TypeOK, Progress, Accounted, Settled, Held, Coming, Holding, TryTake, GoTo, shared
<1>3. CASE TakeNothing(w)
  BY <1>3 DEF TypeOK, Progress, Accounted, Settled, Held, Coming, Holding, TakeNothing, GoTo, shared
<1>4. CASE CheckPending(w)
  BY <1>4 DEF TypeOK, Progress, Accounted, Settled, Held, Coming, Holding, CheckPending, GoTo, shared
<1>5. CASE ReadObject(w)
  BY <1>5 DEF TypeOK, Progress, Accounted, Settled, Held, Coming, Holding, ReadObject, GoTo, shared
<1>6. CASE WantNext(w)
  BY <1>6 DEF TypeOK, Progress, Accounted, Settled, Held, Coming, Holding, WantNext, GoTo, shared
<1>7. CASE NoMoreLinks(w)
  BY <1>7 DEF TypeOK, Progress, Accounted, Settled, Held, Coming, Holding, NoMoreLinks, GoTo, shared
<1>8. CASE RecordNeed(w)
  BY <1>8 DEF TypeOK, Progress, Accounted, Settled, Held, Coming, Holding, RecordNeed, GoTo, shared
<1>9. CASE CountLink(w)
  BY <1>9 DEF TypeOK, Progress, Accounted, Settled, Held, Coming, Holding, CountLink, GoTo, shared
<1>10. CASE QueueLink(w)
  BY <1>10 DEF TypeOK, Progress, Accounted, Settled, Held, Coming, Holding, QueueLink, GoTo, shared
<1>11. CASE Note(w)
  BY <1>11 DEF TypeOK, Progress, Accounted, Settled, Held, Coming, Holding, Note, GoTo, shared
<1>12. CASE CountFound(w)
  BY <1>12 DEF TypeOK, Progress, Accounted, Settled, Held, Coming, Holding, CountFound, GoTo, shared
<1>13. CASE StopWalk(w)
  BY <1>13 DEF TypeOK, Progress, Accounted, Settled, Held, Coming, Holding, StopWalk, GoTo, shared
<1>14. CASE RaiseFlag(w)
  BY <1>14 DEF TypeOK, Progress, Accounted, Settled, Held, Coming, Holding, RaiseFlag, GoTo, shared
<1>15. CASE Finish(w)
  BY <1>15 DEF TypeOK, Progress, Accounted, Settled, Held, Coming, Holding, Finish, GoTo, shared
<1> QED
  BY <1>1, <1>2, <1>3, <1>4, <1>5, <1>6, <1>7, <1>8, <1>9, <1>10, <1>11, <1>12, <1>13, <1>14, <1>15 DEF walkWorker

\* A worker follows only the links of objects that read, so the walk stays
\* inside what the roots lead to (walkWorker).
LEMMA SoundStep ==
  ASSUME TypeOK, ThroughSeen, Progress, Sound, NEW w \in Workers, walkWorker(w)
  PROVE  Sound'
<1>1. CASE CheckStop(w)
  BY <1>1 DEF TypeOK, Sound, Held, Coming, Holding, CheckStop, GoTo, shared
<1>2. CASE TryTake(w)
  BY <1>2 DEF TypeOK, Sound, Held, Coming, Holding, TryTake, GoTo, shared
<1>3. CASE TakeNothing(w)
  BY <1>3 DEF TypeOK, Sound, Held, Coming, Holding, TakeNothing, GoTo, shared
<1>4. CASE CheckPending(w)
  BY <1>4 DEF TypeOK, Sound, Held, Coming, Holding, CheckPending, GoTo, shared
<1>5. CASE ReadObject(w)
  BY <1>5 DEF TypeOK, Sound, Held, Coming, Holding, ReadObject, GoTo, shared
<1>6. CASE WantNext(w)

  <2>1. Closed(repo, Reach(repo))
    BY ReachClosed DEF TypeOK
  <2> QED
    BY <1>6, <2>1 DEF TypeOK, ThroughSeen, Progress, Sound, Closed, Held, Coming, Holding,
                   WantNext, GoTo
<1>7. CASE NoMoreLinks(w)
  BY <1>7 DEF TypeOK, Sound, Held, Coming, Holding, NoMoreLinks, GoTo, shared
<1>8. CASE RecordNeed(w)
  BY <1>8 DEF TypeOK, Sound, Held, Coming, Holding, RecordNeed, GoTo, shared
<1>9. CASE CountLink(w)
  BY <1>9 DEF TypeOK, Sound, Held, Coming, Holding, CountLink, GoTo, shared
<1>10. CASE QueueLink(w)
  BY <1>10 DEF TypeOK, Sound, Held, Coming, Holding, QueueLink, GoTo, shared
<1>11. CASE Note(w)

  <2>1. cur[w] \in BadReach(repo)
    BY <1>11 DEF Note, Progress, Sound, BadReach, Held, Holding
  <2> QED
    BY <1>11, <2>1 DEF TypeOK, Sound, Held, Coming, Holding, Note, GoTo
<1>12. CASE CountFound(w)
  BY <1>12 DEF TypeOK, Sound, Held, Coming, Holding, CountFound, GoTo, shared
<1>13. CASE StopWalk(w)
  BY <1>13 DEF TypeOK, Sound, Held, Coming, Holding, StopWalk, GoTo, shared
<1>14. CASE RaiseFlag(w)
  BY <1>14 DEF TypeOK, Sound, Held, Coming, Holding, RaiseFlag, GoTo, shared
<1>15. CASE Finish(w)
  BY <1>15 DEF TypeOK, Sound, Held, Coming, Holding, Finish, GoTo, shared
<1> QED
  BY <1>1, <1>2, <1>3, <1>4, <1>5, <1>6, <1>7, <1>8, <1>9, <1>10, <1>11, <1>12, <1>13, <1>14, <1>15 DEF walkWorker

\* stop is stored only by a worker whose count reached the hunt (note).
LEMMA StopMeansEnoughStep ==
  ASSUME TypeOK, StopMeansEnough, NEW w \in Workers, walkWorker(w)
  PROVE  StopMeansEnough'
<1>0. repo.hunt \in Nat
  BY RepoAssumption DEF TypeOK, RepoType
<1>1. CASE CheckStop(w)
  BY <1>1, <1>0 DEF TypeOK, StopMeansEnough, Holding, PC, CheckStop, GoTo, shared
<1>2. CASE TryTake(w)
  BY <1>2, <1>0 DEF TypeOK, StopMeansEnough, Holding, PC, TryTake, GoTo, shared
<1>3. CASE TakeNothing(w)
  BY <1>3, <1>0 DEF TypeOK, StopMeansEnough, Holding, PC, TakeNothing, GoTo, shared
<1>4. CASE CheckPending(w)
  BY <1>4, <1>0 DEF TypeOK, StopMeansEnough, Holding, PC, CheckPending, GoTo, shared
<1>5. CASE ReadObject(w)
  BY <1>5, <1>0 DEF TypeOK, StopMeansEnough, Holding, PC, ReadObject, GoTo, shared
<1>6. CASE WantNext(w)
  BY <1>6, <1>0 DEF TypeOK, StopMeansEnough, Holding, PC, WantNext, GoTo, shared
<1>7. CASE NoMoreLinks(w)
  BY <1>7, <1>0 DEF TypeOK, StopMeansEnough, Holding, PC, NoMoreLinks, GoTo, shared
<1>8. CASE RecordNeed(w)
  BY <1>8, <1>0 DEF TypeOK, StopMeansEnough, Holding, PC, RecordNeed, GoTo, shared
<1>9. CASE CountLink(w)
  BY <1>9, <1>0 DEF TypeOK, StopMeansEnough, Holding, PC, CountLink, GoTo, shared
<1>10. CASE QueueLink(w)
  BY <1>10, <1>0 DEF TypeOK, StopMeansEnough, Holding, PC, QueueLink, GoTo, shared
<1>11. CASE Note(w)
  BY <1>11, <1>0 DEF TypeOK, StopMeansEnough, Holding, PC, Note, GoTo, shared
<1>12. CASE CountFound(w)
  BY <1>12, <1>0 DEF TypeOK, StopMeansEnough, Holding, PC, CountFound, GoTo, shared
<1>13. CASE StopWalk(w)
  BY <1>13, <1>0 DEF TypeOK, StopMeansEnough, Holding, PC, StopWalk, GoTo, shared
<1>14. CASE RaiseFlag(w)
  BY <1>14, <1>0 DEF TypeOK, StopMeansEnough, Holding, PC, RaiseFlag, GoTo, shared
<1>15. CASE Finish(w)
  BY <1>15, <1>0 DEF TypeOK, StopMeansEnough, Holding, PC, Finish, GoTo, shared
<1> QED
  BY <1>1, <1>2, <1>3, <1>4, <1>5, <1>6, <1>7, <1>8, <1>9, <1>10, <1>11, <1>12, <1>13, <1>14, <1>15 DEF walkWorker

\* pending and the set it counts change together: one in at CountLink, one out
\* at Finish, and a move inside the set or nothing at all at every other step.
LEMMA OutstandingStep ==
  ASSUME TypeOK, Distinct, NEW w \in Workers, walkWorker(w)
  PROVE  \/ Outstanding' = Outstanding /\ pending' = pending
         \/ /\ Held(w)
            /\ \E o \in Objects \ Outstanding :
                 Outstanding' = Outstanding \cup {o} /\ pending' = pending + 1
         \/ /\ Held(w)
            /\ \E o \in Outstanding :
                 Outstanding' = Outstanding \ {o} /\ pending' = pending - 1
<1>1. CASE CheckStop(w)
  BY <1>1 DEF TypeOK, Outstanding, Holding, Held, CheckStop, GoTo, shared
<1>2. CASE TryTake(w)

  <2>1. Outstanding' = Outstanding
    BY <1>2 DEF TypeOK, Outstanding, Holding, TryTake, GoTo
  <2> QED
    BY <1>2, <2>1 DEF TryTake
<1>3. CASE TakeNothing(w)
  BY <1>3 DEF TypeOK, Outstanding, Holding, Held, TakeNothing, GoTo, shared
<1>4. CASE CheckPending(w)
  BY <1>4 DEF TypeOK, Outstanding, Holding, Held, CheckPending, GoTo, shared
<1>5. CASE ReadObject(w)
  BY <1>5 DEF TypeOK, Outstanding, Holding, Held, ReadObject, GoTo, shared
<1>6. CASE WantNext(w)
  BY <1>6 DEF TypeOK, Outstanding, Holding, Held, WantNext, GoTo, shared
<1>7. CASE NoMoreLinks(w)
  BY <1>7 DEF TypeOK, Outstanding, Holding, Held, NoMoreLinks, GoTo, shared
<1>8. CASE RecordNeed(w)
  BY <1>8 DEF TypeOK, Outstanding, Holding, Held, RecordNeed, GoTo, shared
<1>9. CASE CountLink(w)

  <2>1. link[w] \in Objects \ Outstanding
    BY <1>9 DEF TypeOK, Distinct, Held, Coming, Outstanding, Holding, CountLink
  <2>2. Outstanding' = Outstanding \cup {link[w]}
    BY <1>9 DEF TypeOK, Outstanding, Holding, CountLink, GoTo
  <2> QED
    BY <1>9, <2>1, <2>2 DEF CountLink, Held, Holding
<1>10. CASE QueueLink(w)

  <2>1. Outstanding' = Outstanding
    BY <1>10 DEF TypeOK, Outstanding, Holding, QueueLink, GoTo
  <2> QED
    BY <1>10, <2>1 DEF QueueLink
<1>11. CASE Note(w)
  BY <1>11 DEF TypeOK, Outstanding, Holding, Held, Note, GoTo, shared
<1>12. CASE CountFound(w)
  BY <1>12 DEF TypeOK, Outstanding, Holding, Held, CountFound, GoTo, shared
<1>13. CASE StopWalk(w)
  BY <1>13 DEF TypeOK, Outstanding, Holding, Held, StopWalk, GoTo, shared
<1>14. CASE RaiseFlag(w)
  BY <1>14 DEF TypeOK, Outstanding, Holding, Held, RaiseFlag, GoTo, shared
<1>15. CASE Finish(w)

  <2>1. cur[w] \in Outstanding
    BY <1>15 DEF TypeOK, Outstanding, Holding, Finish
  <2>2. Outstanding' = Outstanding \ {cur[w]}
    BY <1>15 DEF TypeOK, Distinct, Held, Coming, Outstanding, Holding, Finish, GoTo
  <2> QED
    BY <1>15, <2>1, <2>2 DEF Finish, Held, Holding
<1> QED
  BY <1>1, <1>2, <1>3, <1>4, <1>5, <1>6, <1>7, <1>8, <1>9, <1>10, <1>11, <1>12, <1>13, <1>14, <1>15 DEF walkWorker

\* The counter is right after every step, because it moves with the set
\* (want, walkWorker).
LEMMA PendingExactStep ==
  ASSUME TypeOK, Distinct, PendingExact, NEW w \in Workers, walkWorker(w)
  PROVE  PendingExact'
<1>1. IsFiniteSet(Outstanding) /\ Cardinality(Outstanding) \in Nat
  BY OutstandingFinite
<1>2. CASE Outstanding' = Outstanding /\ pending' = pending
  BY <1>2 DEF PendingExact
<1>3. CASE \E o \in Objects \ Outstanding :
             Outstanding' = Outstanding \cup {o} /\ pending' = pending + 1
  BY <1>1, <1>3, FS_AddElement DEF PendingExact
<1>4. CASE \E o \in Outstanding :
             Outstanding' = Outstanding \ {o} /\ pending' = pending - 1
  BY <1>1, <1>4, FS_RemoveElement DEF PendingExact
<1> QED
  BY <1>2, <1>3, <1>4, OutstandingStep

\* A worker that sees pending at zero sees a walk that is over, and no other
\* worker can start it again (walkWorker).
LEMMA ExitMeansOverStep ==
  ASSUME TypeOK, Distinct, PendingExact, ExitMeansOver, NEW w \in Workers, walkWorker(w)
  PROVE  ExitMeansOver'
<1> SUFFICES ASSUME NEW v \in Workers, pc'[v] = "exit", ~stop' PROVE Outstanding' = {}
  BY DEF ExitMeansOver
<1>1. ~stop
  BY DEF walkWorker, CheckStop, TryTake, TakeNothing, CheckPending, ReadObject, WantNext,
     NoMoreLinks, RecordNeed, CountLink, QueueLink, Note, CountFound, StopWalk, RaiseFlag,
     Finish, shared
<1>2. CASE pc[v] = "exit"
  <2>1. Outstanding = {}
    BY <1>1, <1>2 DEF ExitMeansOver
  <2>2. ~Held(w)
    BY <2>1 DEF Held, Outstanding
  <2> QED
    BY <2>1, <2>2, OutstandingStep
<1>3. CASE pc[v] # "exit"
  <2>1. CheckPending(w) /\ pending = 0
    BY <1>1, <1>3 DEF TypeOK, walkWorker, CheckStop, TryTake, TakeNothing, CheckPending,
       ReadObject, WantNext, NoMoreLinks, RecordNeed, CountLink, QueueLink, Note, CountFound,
       StopWalk, RaiseFlag, Finish, GoTo
  <2>2. Outstanding = {}
    BY <2>1, OutstandingFinite, FS_EmptySet DEF PendingExact
  <2>3. ~Held(w)
    BY <2>1 DEF CheckPending, Held, Holding
  <2> QED
    BY <2>2, <2>3, OutstandingStep
<1> QED
  BY <1>2, <1>3

\* found never runs ahead of the map: note puts the object in first.
LEMMA FoundBoundStep ==
  ASSUME TypeOK, FoundBound, NEW w \in Workers, walkWorker(w)
  PROVE  FoundBound'
<1>1. /\ IsFiniteSet(Finders) /\ Cardinality(Finders) \in Nat
      /\ IsFiniteSet(bad) /\ Cardinality(bad) \in Nat
  <2>1. Finders \subseteq Workers /\ bad \subseteq Objects
    BY DEF Finders, TypeOK
  <2> QED
    BY <2>1, RepoAssumption, FS_Subset, FS_CardinalityType
<1>2. cur[w] \in Objects \/ ~Note(w)
  BY DEF TypeOK, Note, Holding
<1>3. CASE Note(w) /\ cur[w] \notin bad /\ repo.hunt > 0
  <2>1. bad' = bad \cup {cur[w]} /\ found' = found
    BY <1>3 DEF Note
  <2>2. Finders' = Finders \cup {w} /\ w \notin Finders
    BY <1>3 DEF Note, GoTo, Finders, TypeOK
  <2>3. Cardinality(bad') = Cardinality(bad) + 1
    BY <1>1, <1>3, <2>1, FS_AddElement
  <2>4. Cardinality(Finders') = Cardinality(Finders) + 1
    BY <1>1, <2>2, FS_AddElement
  <2> QED
    BY <1>1, <2>1, <2>3, <2>4 DEF FoundBound, TypeOK
<1>4. CASE Note(w) /\ ~(cur[w] \notin bad /\ repo.hunt > 0)
  <2>1. bad' = bad \cup {cur[w]} /\ found' = found
    BY <1>4 DEF Note
  <2>2. Finders' = Finders
    BY <1>4 DEF Note, GoTo, Finders, TypeOK
  <2>3. Cardinality(bad') \in Nat /\ Cardinality(bad) <= Cardinality(bad')
    <3>1. CASE cur[w] \in bad
      <4>1. bad' = bad
        BY <2>1, <3>1
      <4> QED
        BY <1>1, <4>1
    <3>2. CASE cur[w] \notin bad
      <4>1. Cardinality(bad') = Cardinality(bad) + 1
        BY <1>1, <2>1, <3>2, FS_AddElement
      <4> QED
        BY <1>1, <4>1
    <3> QED
      BY <3>1, <3>2
  <2> QED
    BY <1>1, <2>1, <2>2, <2>3 DEF FoundBound, TypeOK
<1>5. CASE CountFound(w)
  <2>1. bad' = bad /\ found' = found + 1
    BY <1>5 DEF CountFound
  <2>2. Finders' = Finders \ {w} /\ w \in Finders
    BY <1>5 DEF CountFound, GoTo, Finders, TypeOK
  <2>3. Cardinality(Finders') = Cardinality(Finders) - 1
    BY <1>1, <2>2, FS_RemoveElement
  <2> QED
    BY <1>1, <2>1, <2>3 DEF FoundBound, TypeOK
<1>6. CASE ~Note(w) /\ ~CountFound(w)
  <2>1. bad' = bad /\ found' = found
    BY <1>6 DEF walkWorker, CheckStop, TryTake, TakeNothing, CheckPending, ReadObject, WantNext,
       NoMoreLinks, RecordNeed, CountLink, QueueLink, StopWalk, RaiseFlag, Finish, shared
  <2>2. pc[w] # "found" /\ pc'[w] # "found" /\ \A v \in Workers : v # w => pc'[v] = pc[v]
    BY <1>6 DEF TypeOK, walkWorker, CheckStop, TryTake, TakeNothing, CheckPending, ReadObject,
       WantNext, NoMoreLinks, RecordNeed, CountLink, QueueLink, StopWalk, RaiseFlag, Finish, GoTo
  <2>3. Finders' = Finders
    BY <2>2 DEF Finders
  <2> QED
    BY <2>1, <2>3 DEF FoundBound
<1> QED
  BY <1>3, <1>4, <1>5, <1>6

\* Every step keeps the whole invariant.
LEMMA InvStep == IInv /\ [Next]_vars => IInv'
<1> SUFFICES ASSUME IInv, [Next]_vars PROVE IInv'
  OBVIOUS
<1> USE DEF IInv
<1>1. TypeOK'
  BY TypeStep
<1>2. CASE \E w \in Workers : walkWorker(w)
  <2> PICK w \in Workers : walkWorker(w)
    BY <1>2
  <2>1. Distinct' /\ ThroughSeen' /\ Progress'
    BY DistinctStep, ThroughSeenStep, ProgressStep
  <2>2. Accounted' /\ Sound'
    BY AccountedStep, SoundStep
  <2>3. PendingExact' /\ ExitMeansOver'
    BY PendingExactStep, ExitMeansOverStep
  <2>4. FoundBound' /\ StopMeansEnough'
    BY FoundBoundStep, StopMeansEnoughStep
  <2> QED
    BY <1>1, <2>1, <2>2, <2>3, <2>4
<1>3. CASE Finished \/ UNCHANGED vars
  <2>1. UNCHANGED vars
    BY <1>3 DEF Finished
  <2> QED
    BY <1>1, <2>1 DEF vars, shared, Distinct, ThroughSeen, Progress, Accounted, Sound, Settled,
       PendingExact, ExitMeansOver, Outstanding, FoundBound, Finders, StopMeansEnough,
       Held, Coming
<1> QED
  BY <1>2, <1>3 DEF Next

\* The invariant holds in every state of every walk.
THEOREM Invariance == Spec => []IInv
  BY InvInit, InvStep, PTL DEF Spec

-----------------------------------------------------------------------------
(* The counter is exact at every step, so a worker that reads zero may     *)
(* leave (walkWorker's pending.Load() == 0).                               *)
THEOREM PendingIsExact == Spec => []Bookkeeping
<1>1. IInv => Bookkeeping
  BY DEF IInv, Bookkeeping
<1> QED
  BY <1>1, Invariance, PTL

(* No object is read twice, by one worker or by two (want's TryAdd).       *)
THEOREM ReadsOnce == Spec => []ReadOnce
<1>1. IInv => ReadOnce
  BY DEF IInv, Distinct, Held, ReadOnce
<1> QED
  BY <1>1, Invariance, PTL

(* A finished walk reports exactly the damage the roots lead to, for every *)
(* graph, every number of workers and every interleaving (scanner.walk).   *)
THEOREM ReportIsExact == Spec => []WalkExact
<1>1. IInv => WalkExact
  <2> SUFFICES ASSUME IInv, Done PROVE bad = BadReach(repo)
    BY DEF WalkExact
  <2>0. repo \in RepoType /\ TypeOK /\ bad \subseteq BadReach(repo)
    BY RepoAssumption DEF IInv, TypeOK, Sound
  <2>1. \A w \in Workers : ~Held(w) /\ ~Coming(w)
    BY DEF Done, Held, Coming, Holding
  <2>2. IsFiniteSet(BadReach(repo)) /\ Cardinality(BadReach(repo)) \in Nat
    <3>1. BadReach(repo) \subseteq Objects
      BY DEF BadReach, Reach
    <3> QED
      BY <3>1, RepoAssumption, FS_Subset, FS_CardinalityType
  <2>3. CASE stop
    \* A hunt that stopped has counted as many as there are.
    <3>1. repo.hunt > 0 /\ found >= repo.hunt /\ repo.hunt \in Nat
      BY <2>0, <2>3 DEF IInv, StopMeansEnough, RepoType
    <3>2. Finders = {}
      BY DEF Done, Finders
    <3>3. found <= Cardinality(bad)
      BY <3>2, FS_EmptySet, <2>0 DEF IInv, FoundBound, TypeOK
    <3>4. Cardinality(BadReach(repo)) <= repo.hunt
      BY <3>1, <2>0, RepoAssumption DEF TypeOK
    <3>5. Cardinality(bad) <= Cardinality(BadReach(repo)) /\ Cardinality(bad) \in Nat
      BY <2>0, <2>2, FS_Subset, FS_CardinalityType
    <3>6. Cardinality(bad) = Cardinality(BadReach(repo))
      BY <3>1, <3>3, <3>4, <3>5, <2>0, <2>2 DEF TypeOK
    <3> QED
      BY <3>6, <2>0, <2>2, FS_Subset
  <2>4. CASE ~stop
    \* Nothing is outstanding, so seen without the carried is closed.
    <3>1. queue = {}
      BY <2>4, RepoAssumption DEF IInv, ExitMeansOver, Done, Outstanding
    <3>2. \A o \in seen \ Carried(repo) : Settled(o)
      BY <2>1, <3>1 DEF IInv, Accounted
    <3> DEFINE S == seen \ Carried(repo)
    <3>3. S \in SUBSET Objects
      BY <2>0 DEF TypeOK
    <3>4. Closed(repo, S)
      BY <3>2 DEF IInv, ThroughSeen, Closed, Settled, Carried
    <3>5. Reach(repo) \subseteq S
      BY <3>3, <3>4 DEF Reach
    <3> QED
      BY <2>0, <3>2, <3>5 DEF BadReach, Settled
  <2> QED
    BY <2>3, <2>4
<1> QED
  BY <1>1, Invariance, PTL

-----------------------------------------------------------------------------
(***************************************************************************)
(* The routes.                                                             *)
(***************************************************************************)
\* The walk came to b by o, or by a reference.
Real(o, b) ==
  \/ o = NoObject /\ b \in repo.roots
  \/ o \in repo.readable /\ b \in repo.links[o]

\* Every object queued or held was queued by a route there is, and so was every
\* route that is noted.
Routed ==
  /\ \A w \in Workers :
       pc[w] \in {"known", "count", "enqueue"} => link[w] \in repo.links[cur[w]]
  /\ \A o \in queue : Real(via[o], o)
  /\ \A w \in Workers : Held(w) => Real(via[cur[w]], cur[w])
  /\ \A o \in Objects : \A n \in needs[o] : Real(n, o)
  /\ \A b \in bad : needs[b] # {}

\* A worker queues only links of an object it reads, under that object's name,
\* before anyone can take them (want, recordNeed, note).
LEMMA RoutedStep ==
  ASSUME TypeOK, Distinct, Progress, Routed, NEW w \in Workers, walkWorker(w)
  PROVE  Routed'
<1>1. CASE CheckStop(w)
  BY <1>1 DEF TypeOK, Distinct, Progress, Routed, Real, Held, Coming, Holding, CheckStop, GoTo, shared
<1>2. CASE TryTake(w)
  BY <1>2 DEF TypeOK, Distinct, Progress, Routed, Real, Held, Coming, Holding, TryTake, GoTo, shared
<1>3. CASE TakeNothing(w)
  BY <1>3 DEF TypeOK, Distinct, Progress, Routed, Real, Held, Coming, Holding, TakeNothing, GoTo, shared
<1>4. CASE CheckPending(w)
  BY <1>4 DEF TypeOK, Distinct, Progress, Routed, Real, Held, Coming, Holding, CheckPending, GoTo, shared
<1>5. CASE ReadObject(w)
  BY <1>5 DEF TypeOK, Distinct, Progress, Routed, Real, Held, Coming, Holding, ReadObject, GoTo, shared
<1>6. CASE WantNext(w)
  BY <1>6 DEF TypeOK, Distinct, Progress, Routed, Real, Held, Coming, Holding, WantNext, GoTo, shared
<1>7. CASE NoMoreLinks(w)
  BY <1>7 DEF TypeOK, Distinct, Progress, Routed, Real, Held, Coming, Holding, NoMoreLinks, GoTo, shared
<1>8. CASE RecordNeed(w)
  BY <1>8 DEF TypeOK, Distinct, Progress, Routed, Real, Held, Coming, Holding, RecordNeed, GoTo, shared
<1>9. CASE CountLink(w)
  BY <1>9 DEF TypeOK, Distinct, Progress, Routed, Real, Held, Coming, Holding, CountLink, GoTo, shared
<1>10. CASE QueueLink(w)
  BY <1>10 DEF TypeOK, Distinct, Progress, Routed, Real, Held, Coming, Holding, QueueLink, GoTo, shared
<1>11. CASE Note(w)
  BY <1>11, SMTT(20) DEF TypeOK, Distinct, Progress, Routed, Real, Held, Coming, Holding, Note, GoTo, shared
<1>12. CASE CountFound(w)
  BY <1>12 DEF TypeOK, Distinct, Progress, Routed, Real, Held, Coming, Holding, CountFound, GoTo, shared
<1>13. CASE StopWalk(w)
  BY <1>13 DEF TypeOK, Distinct, Progress, Routed, Real, Held, Coming, Holding, StopWalk, GoTo, shared
<1>14. CASE RaiseFlag(w)
  BY <1>14 DEF TypeOK, Distinct, Progress, Routed, Real, Held, Coming, Holding, RaiseFlag, GoTo, shared
<1>15. CASE Finish(w)
  BY <1>15 DEF TypeOK, Distinct, Progress, Routed, Real, Held, Coming, Holding, Finish, GoTo, shared
<1> QED
  BY <1>1, <1>2, <1>3, <1>4, <1>5, <1>6, <1>7, <1>8, <1>9, <1>10, <1>11, <1>12, <1>13, <1>14, <1>15 DEF walkWorker

(* Each damaged object has a route, and each of its routes is a reference  *)
(* or an object that reads and names it, whatever order the workers ran in *)
(* (want, recordNeed, note).                                               *)
THEOREM RoutesAreReal == Spec => []RoutesReal
<1>1. Init => Routed
  <2> SUFFICES ASSUME Init PROVE Routed
    OBVIOUS
  <2>1. repo.roots \subseteq Objects
    BY RepoAssumption DEF Init, RepoType
  <2>2. \A o \in queue : Real(via[o], o)
    BY <2>1 DEF Init, Real
  <2>3. \A w \in Workers : pc[w] = "top"
    BY DEF Init
  <2>4. bad = {} /\ \A o \in Objects : needs[o] = {}
    BY DEF Init
  <2> QED
    BY <2>2, <2>3, <2>4 DEF Routed, Held, Holding
<1>2. IInv /\ Routed /\ [Next]_vars => Routed'
  <2> SUFFICES ASSUME IInv, Routed, [Next]_vars PROVE Routed'
    OBVIOUS
  <2>1. CASE \E w \in Workers : walkWorker(w)
    BY <2>1, RoutedStep DEF IInv
  <2>2. CASE Finished \/ UNCHANGED vars
    <3>1. UNCHANGED vars
      BY <2>2 DEF Finished
    <3> QED
      BY <3>1 DEF vars, shared, Routed, Real, Held
  <2> QED
    BY <2>1, <2>2 DEF Next
<1>3. IInv /\ Routed => RoutesReal
  BY DEF IInv, TypeOK, Routed, Real, RoutesReal
<1> QED
  BY <1>1, <1>2, <1>3, Invariance, PTL DEF Spec
=============================================================================
