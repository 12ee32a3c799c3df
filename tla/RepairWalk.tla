------------------------------ MODULE RepairWalk ------------------------------
(***************************************************************************)
(* The walk of the repair scanner (internal/repair/walk.go): goroutines    *)
(* that read every object the references lead to, queue what each object   *)
(* names, and note the objects that will not read.                         *)
(*                                                                         *)
(* One behaviour is one call of scanner.walk.  A first scan starts with an *)
(* empty seen table and the objects scanRefs queued; descend starts with   *)
(* the seen table of the passes before it and the objects just put back.   *)
(* Both are the same code, told apart here by the carried objects and the  *)
(* hunt of the repository chosen in Init.                                  *)
(*                                                                         *)
(* An atomic counter, flag, map or bag operation of the code is one step;  *)
(* nothing wider is.                                                       *)
(***************************************************************************)
EXTENDS Integers, FiniteSets

CONSTANTS
  Objects,   \* the object names of the repository
  Workers,   \* the goroutines of the walk, GOMAXPROCS of them
  NoObject,  \* what a worker that holds nothing holds
  Repos      \* the repositories, and starting points, a walk may begin with

(***************************************************************************)
(* What one walk starts from.                                              *)
(*   roots    the objects queued before the workers start                  *)
(*   links    what each object names, gitlinks left out                    *)
(*   readable the objects db.Read returns                                  *)
(*   proven   the blobs of packs already read end to end                   *)
(*   carried  the seen table of the earlier walks of the run               *)
(*   hunt     how many damaged objects an fsck named; 0 for a search       *)
(***************************************************************************)
RepoType == [roots : SUBSET Objects, links : [Objects -> SUBSET Objects],
             readable : SUBSET Objects, proven : SUBSET Objects,
             carried : SUBSET Objects, hunt : Nat]

\* What an earlier walk read and this one was not sent back to. see descend
Carried(r) == r.carried \ r.roots

\* S holds the roots and whatever the readable objects of S name.
Closed(r, S) ==
  /\ r.roots \subseteq S
  /\ \A o \in S \cap r.readable : (r.links[o] \ Carried(r)) \subseteq S

\* What the roots lead to: an object that will not read leads nowhere.
Reach(r) ==
  {o \in Objects : \A S \in SUBSET Objects : Closed(r, S) => o \in S}

\* The damage a walk is there to find.
BadReach(r) == Reach(r) \ r.readable

\* A blob of a verified pack is readable and names nothing.  The caller's
\* fsck named at least the damage the references lead to, or named none.
ASSUME RepoAssumption ==
  /\ IsFiniteSet(Objects) /\ IsFiniteSet(Workers) /\ Workers # {}
  /\ NoObject \notin Objects
  /\ Repos \subseteq RepoType
  /\ \A r \in Repos :
       /\ r.proven \subseteq r.readable
       /\ \A o \in r.proven : r.links[o] = {}
       /\ r.hunt = 0 \/ Cardinality(BadReach(r)) <= r.hunt

VARIABLES
  repo,     \* the repository walked; no step changes it
  seen,     \* scanner.seen
  queue,    \* scanner.queue, by object: TryAdd on seen lets an object in once
  pending,  \* scanner.pending
  bad,      \* the keys of scanner.bad
  needs,    \* the Needs of each bad object, by the object that names it
  anyBad,   \* scanner.anyBad
  found,    \* scanner.found
  stop,     \* scanner.stop
  via,      \* the route each queued object was queued by
  pc,       \* where each worker is
  cur,      \* the object each worker took
  todo,     \* the links of it that are still to follow
  link      \* the link being wanted

shared == <<seen, queue, pending, bad, needs, anyBad, found, stop, via>>
vars == <<repo, shared, pc, cur, todo, link>>

\* A worker that counts in pending: it took an object and has not let it go.
Holding == {"read", "follow", "known", "count", "enqueue",
            "note", "found", "stop", "flag", "finish"}
PC == Holding \cup {"top", "take", "empty", "exit"}

TypeOK ==
  /\ repo \in Repos
  /\ seen \in SUBSET Objects
  /\ queue \in SUBSET Objects
  /\ pending \in Int
  /\ bad \in SUBSET Objects
  /\ needs \in [Objects -> SUBSET (Objects \cup {NoObject})]
  /\ anyBad \in BOOLEAN
  /\ found \in Nat
  /\ stop \in BOOLEAN
  /\ via \in [Objects -> Objects \cup {NoObject}]
  /\ pc \in [Workers -> PC]
  /\ cur \in [Workers -> Objects \cup {NoObject}]
  /\ todo \in [Workers -> SUBSET Objects]
  /\ link \in [Workers -> Objects \cup {NoObject}]
  /\ \A w \in Workers :
       /\ pc[w] \in Holding => cur[w] \in Objects
       /\ pc[w] \in {"known", "count", "enqueue"} => link[w] \in Objects

(***************************************************************************)
(* scanRefs, or the loop of descend, has wanted the roots: each is seen,   *)
(* counted and queued, with the reference as its route.                    *)
(***************************************************************************)
Init ==
  /\ repo \in Repos
  /\ seen = repo.carried \cup repo.roots
  /\ queue = repo.roots
  /\ pending = Cardinality(repo.roots)
  /\ bad = {}
  /\ needs = [o \in Objects |-> {}]
  /\ anyBad = FALSE
  /\ found = 0
  /\ stop = FALSE
  /\ via = [o \in Objects |-> NoObject]
  /\ pc = [w \in Workers |-> "top"]
  /\ cur = [w \in Workers |-> NoObject]
  /\ todo = [w \in Workers |-> {}]
  /\ link = [w \in Workers |-> NoObject]

GoTo(w, l) == pc' = [pc EXCEPT ![w] = l]

(***************************************************************************)
(* Mutated forms of the steps below, each a mistake one could make here.   *)
(***************************************************************************)
\* Counting the link after it is queued instead of before.
CountLink_Late(w) ==
  /\ pc[w] = "count"
  /\ GoTo(w, "enqueue")
  /\ queue' = queue \cup {link[w]}
  /\ via' = [via EXCEPT ![link[w]] = cur[w]]
  /\ UNCHANGED <<repo, seen, pending, bad, needs, anyBad, found, stop,
                 cur, todo, link>>

\* Taking an empty bag for the end of the walk.
CheckPending_EmptyIsOver(w) ==
  /\ pc[w] = "empty"
  /\ GoTo(w, "exit")
  /\ UNCHANGED <<repo, shared, cur, todo, link>>

\* Stopping one damaged object early.
CountFound_OneEarly(w) ==
  /\ pc[w] = "found"
  /\ found' = found + 1
  /\ GoTo(w, IF found' + 1 >= repo.hunt THEN "stop" ELSE "flag")
  /\ UNCHANGED <<repo, seen, queue, pending, bad, needs, anyBad, stop, via,
                 cur, todo, link>>

\* Queueing an object whether or not it has been seen.
WantNext_Again(w) ==
  /\ pc[w] = "follow"
  /\ \E c \in todo[w] :
       /\ todo' = [todo EXCEPT ![w] = @ \ {c}]
       /\ link' = [link EXCEPT ![w] = c]
       /\ seen' = seen \cup {c}
       /\ GoTo(w, "count")
  /\ UNCHANGED <<repo, queue, pending, bad, needs, anyBad, found, stop, via, cur>>

\* Never letting go of an object that would not read.
RaiseFlag_Leak(w) ==
  /\ pc[w] = "flag"
  /\ anyBad' = TRUE
  /\ GoTo(w, "top")
  /\ UNCHANGED <<repo, seen, queue, pending, bad, needs, found, stop, via,
                 cur, todo, link>>

-----------------------------------------------------------------------------
(***************************************************************************)
(* walkWorker                                                              *)
(***************************************************************************)
CheckStop(w) ==
  /\ pc[w] = "top"
  /\ GoTo(w, IF stop THEN "exit" ELSE "take")
  /\ UNCHANGED <<repo, shared, cur, todo, link>>

\* queue.TryTake found something.
TryTake(w) ==
  /\ pc[w] = "take"
  /\ \E o \in queue :
       /\ queue' = queue \ {o}
       /\ cur' = [cur EXCEPT ![w] = o]
  /\ GoTo(w, "read")
  /\ UNCHANGED <<repo, seen, pending, bad, needs, anyBad, found, stop, via,
                 todo, link>>

\* queue.TryTake found the bag empty.
TakeNothing(w) ==
  /\ pc[w] = "take"
  /\ queue = {}
  /\ GoTo(w, "empty")
  /\ UNCHANGED <<repo, shared, cur, todo, link>>

\* An empty bag ends the walk only when nobody is still reading.
CheckPending(w) ==
  /\ pc[w] = "empty"
  /\ GoTo(w, IF pending = 0 THEN "exit" ELSE "top")
  /\ UNCHANGED <<repo, shared, cur, todo, link>>

\* provenBlob needs no reading; db.Read fails, or gives the links to follow.
ReadObject(w) ==
  /\ pc[w] = "read"
  /\ LET o == cur[w]
         follow == o \in repo.readable \ repo.proven
     IN /\ GoTo(w, IF o \in repo.proven THEN "finish"
                   ELSE IF o \in repo.readable THEN "follow"
                   ELSE "note")
        /\ todo' = [todo EXCEPT ![w] = IF follow THEN repo.links[o] ELSE {}]
  /\ UNCHANGED <<repo, shared, cur, link>>

\* pending.Add(-1), last: what this object queued is counted by now.
Finish(w) ==
  /\ pc[w] = "finish"
  /\ pending' = pending - 1
  /\ GoTo(w, "top")
  /\ UNCHANGED <<repo, seen, queue, bad, needs, anyBad, found, stop, via,
                 cur, todo, link>>

(***************************************************************************)
(* walkCommit, walkTree and walkTag: want each link.  The order of the     *)
(* links in the object is left open.                                       *)
(***************************************************************************)
WantNext(w) ==
  /\ pc[w] = "follow"
  /\ \E c \in todo[w] :
       /\ todo' = [todo EXCEPT ![w] = @ \ {c}]
       /\ link' = [link EXCEPT ![w] = c]
       /\ seen' = seen \cup {c}
       /\ GoTo(w, IF c \in seen THEN "known" ELSE "count")
  /\ UNCHANGED <<repo, queue, pending, bad, needs, anyBad, found, stop, via, cur>>

NoMoreLinks(w) ==
  /\ pc[w] = "follow"
  /\ todo[w] = {}
  /\ GoTo(w, "finish")
  /\ UNCHANGED <<repo, shared, cur, todo, link>>

\* An object seen before gets another route, when it is known to be bad.
RecordNeed(w) ==
  /\ pc[w] = "known"
  /\ needs' = [needs EXCEPT ![link[w]] =
                 IF anyBad /\ link[w] \in bad THEN @ \cup {cur[w]} ELSE @]
  /\ GoTo(w, "follow")
  /\ UNCHANGED <<repo, seen, queue, pending, bad, anyBad, found, stop, via,
                 cur, todo, link>>

\* Counted before it is queued.
CountLink(w) ==
  /\ pc[w] = "count"
  /\ pending' = pending + 1
  /\ GoTo(w, "enqueue")
  /\ UNCHANGED <<repo, seen, queue, bad, needs, anyBad, found, stop, via,
                 cur, todo, link>>

\* Mutated form: the route is that of the object, not of the link.
QueueLink_StaleRoute(w) ==
  /\ pc[w] = "enqueue"
  /\ queue' = queue \cup {link[w]}
  /\ via' = [via EXCEPT ![link[w]] = via[cur[w]]]
  /\ GoTo(w, "follow")
  /\ UNCHANGED <<repo, seen, pending, bad, needs, anyBad, found, stop,
                 cur, todo, link>>

QueueLink(w) ==
  /\ pc[w] = "enqueue"
  /\ queue' = queue \cup {link[w]}
  /\ via' = [via EXCEPT ![link[w]] = cur[w]]
  /\ GoTo(w, "follow")
  /\ UNCHANGED <<repo, seen, pending, bad, needs, anyBad, found, stop,
                 cur, todo, link>>

(***************************************************************************)
(* note: the object goes into the map with the route it was queued by,     *)
(* the hunt counts it, and last anyBad is raised.                          *)
(***************************************************************************)
Note(w) ==
  /\ pc[w] = "note"
  /\ bad' = bad \cup {cur[w]}
  /\ needs' = [needs EXCEPT ![cur[w]] = @ \cup {via[cur[w]]}]
  /\ GoTo(w, IF cur[w] \notin bad /\ repo.hunt > 0 THEN "found" ELSE "flag")
  /\ UNCHANGED <<repo, seen, queue, pending, anyBad, found, stop, via,
                 cur, todo, link>>

CountFound(w) ==
  /\ pc[w] = "found"
  /\ found' = found + 1
  /\ GoTo(w, IF found' >= repo.hunt THEN "stop" ELSE "flag")
  /\ UNCHANGED <<repo, seen, queue, pending, bad, needs, anyBad, stop, via,
                 cur, todo, link>>

StopWalk(w) ==
  /\ pc[w] = "stop"
  /\ stop' = TRUE
  /\ GoTo(w, "flag")
  /\ UNCHANGED <<repo, seen, queue, pending, bad, needs, anyBad, found, via,
                 cur, todo, link>>

RaiseFlag(w) ==
  /\ pc[w] = "flag"
  /\ anyBad' = TRUE
  /\ GoTo(w, "finish")
  /\ UNCHANGED <<repo, seen, queue, pending, bad, needs, found, stop, via,
                 cur, todo, link>>

walkWorker(w) ==
  \/ CheckStop(w) \/ TryTake(w) \/ TakeNothing(w) \/ CheckPending(w)
  \/ ReadObject(w) \/ WantNext(w) \/ NoMoreLinks(w) \/ RecordNeed(w)
  \/ CountLink(w) \/ QueueLink(w) \/ Note(w) \/ CountFound(w)
  \/ StopWalk(w) \/ RaiseFlag(w) \/ Finish(w)

\* wg.Wait returned.
Done == \A w \in Workers : pc[w] = "exit"

\* A finished walk stays finished.
Finished == Done /\ UNCHANGED vars

Next == (\E w \in Workers : walkWorker(w)) \/ Finished

Spec == Init /\ [][Next]_vars

\* A goroutine that can run is run: Go's scheduler is preemptive, and a
\* worker that finds nothing yields with Gosched.
FairSpec == Spec /\ \A w \in Workers : WF_vars(walkWorker(w))

-----------------------------------------------------------------------------
\* The objects pending counts: queued, in a worker's hands, or on their way in.
Outstanding ==
  queue \cup {cur[w] : w \in {v \in Workers : pc[v] \in Holding}}
        \cup {link[w] : w \in {v \in Workers : pc[v] = "enqueue"}}

\* The report of a finished walk is exactly the unreadable objects the roots
\* lead to, whatever order the workers ran in: none is missed because a
\* worker left early, because a hunt stopped, or because an object was
\* thought to be somebody else's (walkWorker, note and want).
WalkExact == Done => bad = BadReach(repo)

\* pending is the number of objects queued, held, or counted and about to be
\* queued, at every step of every worker (walkWorker and want).
PendingExact == pending = Cardinality(Outstanding)

\* A worker that left without being told to stop left nothing behind: no
\* object is queued and no other worker holds one (walkWorker's only exit
\* besides stop).
ExitMeansOver ==
  (\E w \in Workers : pc[w] = "exit") /\ ~stop => Outstanding = {}

\* No object is in two pairs of hands, nor in a worker's hands and in the bag
\* again: each object is read at most once (the TryAdd in want).
ReadOnce ==
  /\ \A w \in Workers : pc[w] \in Holding => cur[w] \notin queue
  /\ \A w, v \in Workers :
       /\ w # v /\ pc[w] \in Holding /\ pc[v] \in Holding
       => cur[w] # cur[v]

\* Every walk ends (walkWorker's loop has no other way out than its two
\* returns).
Termination == <>Done

\* Each damaged object has a route, and each route is one the walk came by: a
\* reference, or an object that reads and names it.  (A search does not keep
\* every route, as docs/repair.md has it: one that arrives after the TryAdd of
\* another worker and before its note is dropped.  want, recordNeed, note.)
RoutesReal ==
  \A b \in bad :
    /\ needs[b] # {}
    /\ \A o \in needs[b] : \/ o = NoObject /\ b \in repo.roots
                           \/ o \in repo.readable /\ b \in repo.links[o]

\* What the workers share agrees at every step with what each of them is doing:
\* the types, what pending counts, and that leaving means the walk is over.
Bookkeeping == TypeOK /\ PendingExact /\ ExitMeansOver
=============================================================================
