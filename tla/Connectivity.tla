----------------------------- MODULE Connectivity -----------------------------
(***************************************************************************)
(* The connectivity check of fsck (internal/fsckcmd/connectivity.go):      *)
(* workers that share a stack under a mutex and a condition variable mark  *)
(* everything the roots reach, and then every object is reported on.       *)
(*                                                                         *)
(* A critical section of the mutex is one step, and so is one SetFlag on   *)
(* an object's flags.  Which end of a stack an object is taken from is     *)
(* left open: the stacks are sets, as SetFlag puts an object on once.      *)
(***************************************************************************)
EXTENDS Integers, FiniteSets

CONSTANTS
  Objects,  \* the object names the run knows about
  Workers,  \* the goroutines of the walk
  Batch,    \* walkBatch
  Nobody,   \* the object of a worker that is not traversing one
  Repos     \* the repositories a check may start from

(***************************************************************************)
(* What the earlier phases leave behind.                                   *)
(*   roots   the entries markReachable was called with                     *)
(*   links   what traverseOne resolves each object's links to              *)
(*   refused the objects with a link refused on the type it implies        *)
(*   has     flagHasObj: the object pass produced it                       *)
(*   file    the database has a file or a pack entry for it                *)
(*   packed  HasPacked, which the report takes as proof enough             *)
(*   only    --connectivity-only                                           *)
(***************************************************************************)
RepoType == [roots : SUBSET Objects, links : [Objects -> SUBSET Objects],
             refused : SUBSET Objects, has : SUBSET Objects,
             file : SUBSET Objects, packed : SUBSET Objects, only : BOOLEAN]

\* S holds the roots and what the objects of S that are there name.
Closed(r, S) ==
  /\ r.roots \subseteq S
  /\ \A o \in S \cap r.has : r.links[o] \subseteq S

\* What the roots reach; an object that is not there leads nowhere.
Reach(r) ==
  {o \in Objects : \A S \in SUBSET Objects : Closed(r, S) => o \in S}

ASSUME ConnectivityAssumption ==
  /\ IsFiniteSet(Objects) /\ IsFiniteSet(Workers) /\ Workers # {}
  /\ Batch \in Nat \ {0}
  /\ Nobody \notin Objects
  /\ Repos \subseteq RepoType

VARIABLES
  repo,      \* what the earlier phases left; no step changes it
  reach,     \* the objects with flagReachable
  used,      \* the objects with flagUsed
  stack,     \* the shared stack
  active,    \* the workers counted as holding objects
  holding,   \* each worker's own note that it is counted
  local,     \* each worker's own stack
  cur,       \* the object each worker is traversing
  todo,      \* the links of it still to mark
  blamed,    \* how many broken links were printed for each target
  partial,   \* notePartialDamage
  pc,        \* where each worker is
  report     \* what the check says in the end

vars == <<repo, reach, used, stack, active, holding, local, cur, todo, blamed, partial, pc, report>>

NoReport == [missing |-> {}, unreachable |-> {}, dangling |-> {}, made |-> FALSE]

PC == {"lock", "wait", "pop", "mark", "surplus", "leave", "exit"}

TypeOK ==
  /\ repo \in Repos
  /\ reach \in SUBSET Objects
  /\ used \in SUBSET Objects
  /\ stack \in SUBSET Objects
  /\ active \in 0 .. Cardinality(Workers)
  /\ holding \in [Workers -> BOOLEAN]
  /\ local \in [Workers -> SUBSET Objects]
  /\ cur \in [Workers -> Objects \cup {Nobody}]
  /\ todo \in [Workers -> SUBSET Objects]
  /\ blamed \in [Objects -> Nat]
  /\ partial \in BOOLEAN
  /\ pc \in [Workers -> PC]
  /\ report \in [missing : SUBSET Objects, unreachable : SUBSET Objects,
                 dangling : SUBSET Objects, made : BOOLEAN]

\* flagUsed when the walk begins: the heads mark themselves, and the object
\* pass, which --connectivity-only leaves out, marks what each object names.
UsedBefore(r) ==
  (r.roots \cap r.has) \cup (IF r.only THEN {} ELSE UNION {r.links[o] : o \in r.has})

\* markReachable has flagged the roots and put those that are there on the stack.
Init ==
  /\ repo \in Repos
  /\ reach = repo.roots
  /\ used = UsedBefore(repo)
  /\ stack = repo.roots \cap repo.has
  /\ active = 0
  /\ holding = [w \in Workers |-> FALSE]
  /\ local = [w \in Workers |-> {}]
  /\ cur = [w \in Workers |-> Nobody]
  /\ todo = [w \in Workers |-> {}]
  /\ blamed = [o \in Objects |-> 0]
  /\ partial = FALSE
  /\ pc = [w \in Workers |-> "lock"]
  /\ report = NoReport

\* The pc of every worker after one of them goes to l, and the others are
\* woken when it broadcast.  A woken worker locks again and looks again.
Moves(w, l, broadcast) ==
  pc' = [v \in Workers |->
           IF v = w THEN l
           ELSE IF broadcast /\ pc[v] = "wait" THEN "lock" ELSE pc[v]]

Smaller(a, b) == IF a < b THEN a ELSE b

-----------------------------------------------------------------------------
(***************************************************************************)
(* Mutated forms of the steps below.                                       *)
(***************************************************************************)
\* Traversing the top of the stack and leaving it there.
Pop_Keep(w) ==
  /\ pc[w] = "pop"
  /\ \E o \in local[w] :
       /\ cur' = [cur EXCEPT ![w] = o]
       /\ todo' = [todo EXCEPT ![w] = repo.links[o]]
       /\ partial' = (partial \/ o \in repo.refused)
  /\ Moves(w, "mark", FALSE)
  /\ UNCHANGED <<repo, reach, used, stack, active, holding, local, blamed, report>>

\* Handing back a surplus without waking anybody.
HandBack_Silent(w) ==
  /\ pc[w] = "surplus"
  /\ Cardinality(local[w]) > 2 * Batch
  /\ \E kept \in SUBSET local[w] :
       /\ Cardinality(kept) = Batch
       /\ local' = [local EXCEPT ![w] = kept]
       /\ stack' = stack \cup (local[w] \ kept)
  /\ Moves(w, "pop", FALSE)
  /\ UNCHANGED <<repo, reach, used, active, holding, cur, todo, blamed, partial, report>>

\* Leaving as soon as the stack is dry, whoever else is still working.
FindDry_Leave(w) ==
  /\ pc[w] = "lock"
  /\ ~holding[w]
  /\ stack = {}
  /\ Moves(w, "leave", FALSE)
  /\ UNCHANGED <<repo, reach, used, stack, active, holding, local, cur, todo, blamed, partial, report>>

\* Testing the flag and then setting it, so that two workers both win.
MarkLink_NotAtomic(w) ==
  /\ pc[w] = "mark"
  /\ \E c \in todo[w] :
       /\ todo' = [todo EXCEPT ![w] = @ \ {c}]
       /\ reach' = reach \cup {c}
       /\ local' = [local EXCEPT ![w] = IF c \in repo.has THEN @ \cup {c} ELSE @]
       /\ blamed' = [blamed EXCEPT ![c] = IF c \notin repo.file THEN @ + 1 ELSE @]
  /\ UNCHANGED <<repo, used, stack, active, holding, cur, partial, pc, report>>

\* Giving up on the links of an object at the first that leads nowhere.
MarkLink_StopAtAbsent(w) ==
  /\ pc[w] = "mark"
  /\ \E c \in todo[w] :
       LET new == c \notin reach IN
       /\ todo' = [todo EXCEPT ![w] = IF c \in repo.has THEN @ \ {c} ELSE {}]
       /\ reach' = reach \cup {c}
       /\ local' = [local EXCEPT ![w] = IF new /\ c \in repo.has THEN @ \cup {c} ELSE @]
       /\ blamed' = [blamed EXCEPT ![c] = IF new /\ c \notin repo.file THEN @ + 1 ELSE @]
  /\ UNCHANGED <<repo, used, stack, active, holding, cur, partial, pc, report>>

\* Leaving markUnreachableReferents out.
Used_Nothing(r, u, re) == u

-----------------------------------------------------------------------------
(***************************************************************************)
(* traverseReachable, a worker whose own stack is empty.                   *)
(***************************************************************************)
\* It was counted, finds the shared stack empty, and either waits for those
\* that are still working or, the last of them, wakes everybody to leave.
RunDry(w) ==
  /\ pc[w] = "lock"
  /\ holding[w]
  /\ stack = {}
  /\ active' = active - 1
  /\ holding' = [holding EXCEPT ![w] = FALSE]
  /\ Moves(w, IF active' > 0 THEN "wait" ELSE "leave", active' = 0)
  /\ UNCHANGED <<repo, reach, used, stack, local, cur, todo, blamed, partial, report>>

\* It was not counted, and there is nothing to take.
FindDry(w) ==
  /\ pc[w] = "lock"
  /\ ~holding[w]
  /\ stack = {}
  /\ Moves(w, IF active > 0 THEN "wait" ELSE "leave", FALSE)
  /\ UNCHANGED <<repo, reach, used, stack, active, holding, local, cur, todo, blamed, partial, report>>

\* There is something to take: up to a batch of it.
TakeBatch(w) ==
  /\ pc[w] = "lock"
  /\ stack # {}
  /\ \E batch \in SUBSET stack :
       /\ Cardinality(batch) = Smaller(Cardinality(stack), Batch)
       /\ local' = [local EXCEPT ![w] = batch]
       /\ stack' = stack \ batch
  /\ active' = IF holding[w] THEN active ELSE active + 1
  /\ holding' = [holding EXCEPT ![w] = TRUE]
  /\ Moves(w, "pop", holding[w])
  /\ UNCHANGED <<repo, reach, used, cur, todo, blamed, partial, report>>

\* The broadcast a leaving worker makes after it has unlocked.
Leave(w) ==
  /\ pc[w] = "leave"
  /\ Moves(w, "exit", TRUE)
  /\ UNCHANGED <<repo, reach, used, stack, active, holding, local, cur, todo, blamed, partial, report>>

(***************************************************************************)
(* traverseOne and markLinkInto.                                           *)
(***************************************************************************)
Pop(w) ==
  /\ pc[w] = "pop"
  /\ \E o \in local[w] :
       /\ local' = [local EXCEPT ![w] = @ \ {o}]
       /\ cur' = [cur EXCEPT ![w] = o]
       /\ todo' = [todo EXCEPT ![w] = repo.links[o]]
       /\ partial' = (partial \/ o \in repo.refused)
  /\ Moves(w, "mark", FALSE)
  /\ UNCHANGED <<repo, reach, used, stack, active, holding, blamed, report>>

\* The worker whose SetFlag turned the flag on follows the object, or blames
\* its parent when the database has nothing by that name.
MarkLink(w) ==
  /\ pc[w] = "mark"
  /\ \E c \in todo[w] :
       LET new == c \notin reach IN
       /\ todo' = [todo EXCEPT ![w] = @ \ {c}]
       /\ reach' = reach \cup {c}
       /\ local' = [local EXCEPT ![w] = IF new /\ c \in repo.has THEN @ \cup {c} ELSE @]
       /\ blamed' = [blamed EXCEPT ![c] =
                       IF new /\ c \notin repo.has \cup repo.file THEN @ + 1 ELSE @]
  /\ UNCHANGED <<repo, used, stack, active, holding, cur, partial, pc, report>>

Traversed(w) ==
  /\ pc[w] = "mark"
  /\ todo[w] = {}
  /\ cur' = [cur EXCEPT ![w] = Nobody]
  /\ Moves(w, "surplus", FALSE)
  /\ UNCHANGED <<repo, reach, used, stack, active, holding, local, todo, blamed, partial, report>>

\* Hand back a surplus so the others have something to take.
HandBack(w) ==
  /\ pc[w] = "surplus"
  /\ Cardinality(local[w]) > 2 * Batch
  /\ \E kept \in SUBSET local[w] :
       /\ Cardinality(kept) = Batch
       /\ local' = [local EXCEPT ![w] = kept]
       /\ stack' = stack \cup (local[w] \ kept)
  /\ Moves(w, "pop", TRUE)
  /\ UNCHANGED <<repo, reach, used, active, holding, cur, todo, blamed, partial, report>>

NoSurplus(w) ==
  /\ pc[w] = "surplus"
  /\ Cardinality(local[w]) <= 2 * Batch
  /\ Moves(w, IF local[w] = {} THEN "lock" ELSE "pop", FALSE)
  /\ UNCHANGED <<repo, reach, used, stack, active, holding, local, cur, todo, blamed, partial, report>>

worker(w) ==
  \/ RunDry(w) \/ FindDry(w) \/ TakeBatch(w) \/ Leave(w) \/ Pop(w)
  \/ MarkLink(w) \/ Traversed(w) \/ HandBack(w) \/ NoSurplus(w)

Done == \A w \in Workers : pc[w] = "exit"

(***************************************************************************)
(* The rest of checkConnectivity, once the walk is over and the reachable  *)
(* flags stand: markUnreachableReferents, then a report on every object.   *)
(***************************************************************************)
\* flagUsed after markUnreachableReferents, which only --connectivity-only
\* needs: the object pass has marked the links otherwise.
Used(r, u, re) ==
  IF r.only
  THEN u \cup UNION {r.links[o] : o \in r.has \ re}
  ELSE u

checkConnectivity ==
  /\ Done /\ ~report.made
  /\ used' = Used(repo, used, reach)
  /\ report' = [missing     |-> reach \ (repo.has \cup repo.packed),
                unreachable |-> repo.has \ reach,
                dangling    |-> repo.has \ (reach \cup used'),
                made        |-> TRUE]
  /\ UNCHANGED <<repo, reach, stack, active, holding, local, cur, todo, blamed, partial, pc>>

Finished == report.made /\ UNCHANGED vars

Next == (\E w \in Workers : worker(w)) \/ checkConnectivity \/ Finished

Spec == Init /\ [][Next]_vars

\* A goroutine that can run is run, and so is the caller once wg.Wait returns.
FairSpec == Spec /\ (\A w \in Workers : WF_vars(worker(w))) /\ WF_vars(checkConnectivity)

-----------------------------------------------------------------------------
Busy(w) == pc[w] \in {"pop", "mark", "surplus"}

\* When every worker has left, the flags are exactly what the roots reach,
\* whichever worker took what (traverseReachable and markLinkInto).
TraverseExact == Done => reach = Reach(repo)

\* Nobody sleeps through the end or through new work: a worker waits only
\* while the shared stack is empty and some worker it will be woken by is
\* still counted (the Broadcast calls of traverseReachable).
NobodySleepsThrough ==
  (\E w \in Workers : pc[w] = "wait") => stack = {} /\ \E v \in Workers : holding[v]

\* A worker that has left, left nothing to do: the stack is empty and no
\* other worker has an object (the test after the wait loop).
LeftMeansOver ==
  (\E w \in Workers : pc[w] \in {"leave", "exit"}) =>
    stack = {} /\ \A v \in Workers : local[v] = {} /\ todo[v] = {} /\ ~Busy(v)

\* No object is on two stacks, or on a stack and being traversed: each is
\* traversed once (SetFlag decides who follows an object).
TraversedOnce ==
  /\ \A w \in Workers : cur[w] \notin stack /\ local[w] \cap stack = {}
  /\ \A w, v \in Workers :
       /\ cur[w] \notin local[v]
       /\ w # v => local[w] \cap local[v] = {}
       /\ w # v /\ cur[w] # Nobody => cur[w] # cur[v]

\* A reachable object the database knows nothing of is blamed on one parent,
\* once, and on none when it is only a root (markLinkInto).
BlamedOnce ==
  Done => \A o \in Objects :
    blamed[o] = IF o \in Reach(repo) \ (repo.roots \cup repo.has \cup repo.file) THEN 1 ELSE 0

\* The dangling objects are the tips of what is unreachable: the objects that
\* no object that is there names, with or without --connectivity-only, whose
\* marks are made after the walk and not before it (checkUnreachableObject and
\* markUnreachableReferents).
DanglingAreTips ==
  report.made =>
    report.dangling = {o \in repo.has \ Reach(repo) : \A p \in repo.has : o \notin repo.links[p]}

\* The check ends (no worker waits for ever).
Termination == <>(report.made)

\* What the workers share agrees at every step with what each of them is doing:
\* the types, who sleeps, who has left, and whose each object is
\* (traverseReachable).
Bookkeeping == TypeOK /\ NobodySleepsThrough /\ LeftMeansOver /\ TraversedOnce

\* The report blames and names what the graph says, whatever the order of the
\* workers (markLinkInto, checkConnectivity).
ReportRight == BlamedOnce /\ DanglingAreTips
=============================================================================
