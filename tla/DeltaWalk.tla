------------------------------ MODULE DeltaWalk ------------------------------
(***************************************************************************)
(* Verifying one pack (internal/odb/verify.go and deltawalk.go).  While a  *)
(* goroutine hashes the file, the headers make a layout: each delta under  *)
(* its base.  Entries that cannot be placed are reported with all that     *)
(* stands on them, the checksums of the index are compared, and then       *)
(* workers claim the entries nothing is under and walk down from them,     *)
(* holding decoded bases within a budget they share.  A base they cannot   *)
(* afford is put off and decoded again later.  A step is what one worker   *)
(* does up to the next use of a shared counter.                            *)
(***************************************************************************)
EXTENDS Integers, Sequences, FiniteSets, SequencesExt

CONSTANTS
  N,        \* number of entries; they are numbered in the order of offsets
  Layouts,  \* the packs to consider
  Workers,  \* the workers
  Budget,   \* ChainBudget
  Batch,    \* how many entries a worker of checkCRCs claims at a time
  NoEntry   \* no entry

Entries == 1..N

\* What ReadHeader says of an entry, with 0 for a base that is not an entry of
\* the pack.
Header == [kind : {"unreadable", "whole", "delta"}, base : 0..N]

\* A pack: whether its index opens and its header is accepted, whether the
\* hashes at the end of its index and of the pack are right, the headers, how
\* large each object is, which entries decompress and fit their base, which
\* objects hash to their name, which entries match the checksum the index has
\* for them, and which may go bad under the run.
Layout == [opens : {"yes", "unopened", "refused"}, idxSum : BOOLEAN, packSum : BOOLEAN,
           header : [Entries -> Header], size : [Entries -> Nat],
           decodes : SUBSET Entries, hashes : SUBSET Entries, crc : SUBSET Entries,
           fragile : SUBSET Entries]

ASSUME DeltaWalkAssumption ==
  /\ N \in Nat /\ Budget \in Nat /\ Batch \in Nat \ {0}
  /\ IsFiniteSet(Workers) /\ Workers # {} /\ Layouts \subseteq Layout
  /\ NoEntry \notin Entries

VARIABLES
  pack,      \* the pack
  rotten,    \* the entries of it that have gone bad
  phase,     \* how far Verify is: "open", "layout", "crc", "walk", "over"
  sums,      \* what the goroutine that hashes the pack has found
  next,      \* the counter entries are claimed with
  pc,        \* where each worker is
  stack,     \* spread's stack of each worker: a base and its next child
  deferred,  \* the bases each worker has put off
  inHand,    \* the last child of a base given back, before it is taken
  budget,    \* walker.budget
  delivered, \* how often each entry was handed to Object
  reported,  \* how often each entry was reported as not to be had
  mismatch,  \* the entries reported by checkCRCs
  good       \* what verifyObjects is going to return

walks == <<stack, deferred, inHand>>
results == <<delivered, reported, mismatch, good>>
vars == <<pack, rotten, phase, sums, next, pc, stack, deferred, inHand, budget,
          delivered, reported, mismatch, good>>

(***************************************************************************)
(* The layout.                                                             *)
(***************************************************************************)

Parent(i) == IF pack.header[i].kind = "delta" THEN pack.header[i].base ELSE 0

\* packLayout.bad.
Bad == {i \in Entries : \/ pack.header[i].kind = "unreadable"
                        \/ pack.header[i].kind = "delta" /\ Parent(i) = 0}

\* Entries with entRoot.
Roots == {i \in Entries : Parent(i) = 0}

\* packLayout.children, in the order of the offsets.
Children(i) ==
  LET upto[n \in 0..N] == IF n = 0 THEN << >>
                          ELSE IF Parent(n) = i THEN Append(upto[n - 1], n) ELSE upto[n - 1]
  IN  upto[N]

\* The entry and everything it is made from.
Chain(i) ==
  LET up[k \in 0..N] == IF k = 0 THEN i
                        ELSE IF up[k - 1] = 0 THEN 0 ELSE Parent(up[k - 1])
  IN  {up[k] : k \in 0..N}

\* What failSubtree reports, and the entry itself.
Subtree(i) == {j \in Entries : i \in Chain(j)}

\* The entries that decompress and fit their base now.
Decodable == pack.decodes \ rotten

Frame == [entry : Entries, next : Nat]
Base(i) == [entry |-> i, next |-> 1]

TypeOK ==
  /\ pack \in Layout /\ rotten \subseteq Entries
  /\ phase \in {"open", "layout", "crc", "walk", "over"}
  /\ sums \in {"none", "hashing", "match", "differ"} /\ next \in Nat
  /\ pc \in [Workers -> {"idle", "claim", "spread", "take", "drain", "left"}]
  /\ stack \in [Workers -> Seq(Frame)] /\ deferred \in [Workers -> Seq(Entries)]
  /\ inHand \in [Workers -> Entries \cup {NoEntry}]
  /\ budget \in Nat
  /\ delivered \in [Entries -> Nat] /\ reported \in [Entries -> Nat]
  /\ mismatch \subseteq Entries /\ good \in BOOLEAN

Init ==
  /\ pack \in Layouts /\ rotten = {}
  /\ phase = "open" /\ sums = "none" /\ next = 0 /\ pc = [w \in Workers |-> "idle"]
  /\ stack = [w \in Workers |-> << >>] /\ deferred = [w \in Workers |-> << >>]
  /\ inHand = [w \in Workers |-> NoEntry]
  /\ budget = Budget
  /\ delivered = [i \in Entries |-> 0] /\ reported = [i \in Entries |-> 0]
  /\ mismatch = {} /\ good = TRUE

(***************************************************************************)
(* Reporting and delivering.                                               *)
(***************************************************************************)

\* cannotUnpack for every entry of S.
Report(S) ==
  /\ reported' = [i \in Entries |-> reported[i] + IF i \in S THEN 1 ELSE 0]
  /\ good' = (good /\ S = {})
  /\ UNCHANGED <<delivered, mismatch>>

\* finish, and finishStreamed: an object that does not hash to its name is
\* reported, and what stands on it is still decoded.
Finish(i) ==
  IF i \in pack.hashes
  THEN delivered' = [delivered EXCEPT ![i] = @ + 1] /\ UNCHANGED <<reported, mismatch, good>>
  ELSE Report({i})

\* Something else writes to the file, whose pages have been handed back.
Rot ==
  /\ phase = "walk"
  /\ \E i \in pack.fragile \ rotten : rotten' = rotten \cup {i}
  /\ UNCHANGED <<pack, phase, sums, next, pc, walks, budget, results>>

(***************************************************************************)
(* Verify and verifyObjects.                                               *)
(***************************************************************************)

\* A pack whose index does not open, or whose header is refused, has failed;
\* one whose index is not what was written fails in the end.
OpenPack ==
  /\ phase = "open"
  /\ \/ /\ pack.opens # "yes"
        /\ phase' = "over" /\ good' = FALSE /\ UNCHANGED sums
     \/ /\ pack.opens = "yes"
        /\ phase' = "layout" /\ good' = pack.idxSum /\ sums' = "hashing"
  /\ UNCHANGED <<pack, rotten, next, pc, walks, budget, delivered, reported, mismatch>>

\* checksumComplaints: of a file that changes, either state may be hashed.
HashPack ==
  /\ sums = "hashing"
  /\ \/ pack.packSum /\ sums' = "match"
     \/ (~pack.packSum \/ rotten # {}) /\ sums' = "differ"
  /\ UNCHANGED <<pack, rotten, phase, next, pc, walks, budget, results>>

ReportBad ==
  /\ phase = "layout"
  /\ Report(UNION {Subtree(i) : i \in Bad})
  /\ phase' = "crc" /\ next' = 0 /\ pc' = [w \in Workers |-> "claim"]
  /\ UNCHANGED <<pack, rotten, sums, walks, budget>>

\* A worker of checkCRCs claims a batch and checks it, or leaves.
CheckBatch(w) ==
  /\ phase = "crc" /\ pc[w] = "claim"
  /\ next' = next + Batch
  /\ LET wrong == {i \in Entries : next < i /\ i <= next + Batch} \ pack.crc
     IN  /\ mismatch' = mismatch \cup wrong
         /\ good' = (good /\ wrong = {})
  /\ pc' = IF next >= N THEN [pc EXCEPT ![w] = "left"] ELSE pc
  /\ UNCHANGED <<pack, rotten, phase, sums, walks, budget, delivered, reported>>

StartWalk ==
  /\ phase = "crc" /\ \A w \in Workers : pc[w] = "left"
  /\ phase' = "walk" /\ next' = 0 /\ pc' = [w \in Workers |-> "claim"]
  /\ UNCHANGED <<pack, rotten, sums, walks, budget, results>>

\* A worker claims an entry, and walkChain begins when it is a root.
Claim(w) ==
  /\ phase = "walk" /\ pc[w] = "claim"
  /\ next' = next + 1
  /\ LET i == next + 1
     IN  \/ /\ next >= N
            /\ pc' = [pc EXCEPT ![w] = "left"]
            /\ UNCHANGED <<stack, results>>
         \/ /\ next < N /\ i \notin Roots \ Bad
            /\ UNCHANGED <<pc, stack, results>>
         \/ /\ next < N /\ i \in (Roots \ Bad) \ Decodable
            /\ Report(Subtree(i))
            /\ UNCHANGED <<pc, stack>>
         \/ /\ next < N /\ i \in (Roots \ Bad) \cap Decodable
            /\ Finish(i)
            /\ IF Children(i) = << >> THEN UNCHANGED <<pc, stack>>
               ELSE /\ pc' = [pc EXCEPT ![w] = "spread"]
                    /\ stack' = [stack EXCEPT ![w] = <<Base(i)>>]
  /\ UNCHANGED <<pack, rotten, phase, sums, deferred, inHand, budget>>

(***************************************************************************)
(* The budget.  The bottom of a stack is free.                             *)
(***************************************************************************)

Take(d, i, b) == IF d = 1 THEN b ELSE b - pack.size[i]
\* Mistake: a base is taken whether or not there is room.
CanTake_Always(d, i) == TRUE

CanTake(d, i) == d = 1 \/ budget >= pack.size[i]
Give(d, i) == IF d = 1 THEN budget ELSE budget + pack.size[i]

(***************************************************************************)
(* spread.                                                                 *)
(***************************************************************************)

Top(w) == Last(stack[w])
Depth(w) == Len(stack[w])
Exhausted(w) == Top(w).next > Len(Children(Top(w).entry))
Child(w) == Children(Top(w).entry)[Top(w).next]
IsLast(w) == Top(w).next = Len(Children(Top(w).entry))

\* The base on top is done with.
PopBase(w) ==
  /\ pc[w] = "spread" /\ Exhausted(w)
  /\ budget' = Give(Depth(w), Top(w).entry)
  /\ stack' = [stack EXCEPT ![w] = Front(@)]
  /\ pc' = [pc EXCEPT ![w] = IF Depth(w) = 1 THEN "drain" ELSE "spread"]
  /\ UNCHANGED <<pack, rotten, phase, sums, next, deferred, inHand, results>>

\* The stack with the base on top gone past its next child.
Visited(w) ==
  [stack[w] EXCEPT ![Depth(w)] = [entry |-> Top(w).entry, next |-> Top(w).next + 1]]

\* A child that does not decode, or that nothing stands on.
VisitLeaf(w) ==
  /\ pc[w] = "spread" /\ ~Exhausted(w)
  /\ LET c == Child(w)
     IN  /\ c \notin Decodable \/ Children(c) = << >>
         /\ IF c \in Decodable THEN Finish(c) ELSE Report(Subtree(c))
  /\ stack' = [stack EXCEPT ![w] = Visited(w)]
  /\ UNCHANGED <<pack, rotten, phase, sums, next, pc, deferred, inHand, budget>>

\* Mistake: a base that cannot be afforded is not put off.
VisitBase_Drop(w) ==
  /\ pc[w] = "spread" /\ ~Exhausted(w) /\ ~IsLast(w)
  /\ Child(w) \in Decodable /\ Children(Child(w)) # << >>
  /\ Finish(Child(w))
  /\ IF CanTake(Depth(w) + 1, Child(w))
     THEN /\ budget' = Take(Depth(w) + 1, Child(w), budget)
          /\ stack' = [stack EXCEPT ![w] = Append(Visited(w), Base(Child(w)))]
     ELSE stack' = [stack EXCEPT ![w] = Visited(w)] /\ UNCHANGED budget
  /\ UNCHANGED <<pack, rotten, phase, sums, next, pc, deferred, inHand>>

\* Mistake: the worker waits until it can afford the base.
VisitBase_Wait(w) ==
  /\ pc[w] = "spread" /\ ~Exhausted(w) /\ ~IsLast(w)
  /\ Child(w) \in Decodable /\ Children(Child(w)) # << >>
  /\ IF CanTake(Depth(w) + 1, Child(w))
     THEN /\ Finish(Child(w))
          /\ budget' = Take(Depth(w) + 1, Child(w), budget)
          /\ stack' = [stack EXCEPT ![w] = Append(Visited(w), Base(Child(w)))]
     ELSE UNCHANGED <<results, budget, stack>>
  /\ UNCHANGED <<pack, rotten, phase, sums, next, pc, deferred, inHand>>

\* A child that is a base itself, and not the last: it is stacked on its
\* parent, or put off.
VisitBase(w) ==
  /\ pc[w] = "spread" /\ ~Exhausted(w) /\ ~IsLast(w)
  /\ LET c == Child(w)
     IN  /\ c \in Decodable /\ Children(c) # << >>
         /\ Finish(c)
         /\ IF CanTake(Depth(w) + 1, c)
            THEN /\ budget' = Take(Depth(w) + 1, c, budget)
                 /\ stack' = [stack EXCEPT ![w] = Append(Visited(w), Base(c))]
                 /\ UNCHANGED deferred
            ELSE /\ deferred' = [deferred EXCEPT ![w] = Append(@, c)]
                 /\ stack' = [stack EXCEPT ![w] = Visited(w)]
                 /\ UNCHANGED budget
  /\ UNCHANGED <<pack, rotten, phase, sums, next, pc, inHand>>

\* The last child is a base itself: its parent is given back first.
HandOver(w) ==
  /\ pc[w] = "spread" /\ ~Exhausted(w) /\ IsLast(w)
  /\ LET c == Child(w)
     IN  /\ c \in Decodable /\ Children(c) # << >>
         /\ Finish(c)
         /\ inHand' = [inHand EXCEPT ![w] = c]
  /\ budget' = Give(Depth(w), Top(w).entry)
  /\ pc' = [pc EXCEPT ![w] = "take"]
  /\ UNCHANGED <<pack, rotten, phase, sums, next, stack, deferred>>

\* Mistake: the parent is given back again when its child is put off.
TakeOver_GiveTwice(w) ==
  /\ pc[w] = "take"
  /\ IF CanTake(Depth(w), inHand[w])
     THEN /\ budget' = Take(Depth(w), inHand[w], budget)
          /\ stack' = [stack EXCEPT ![w][Depth(w)] = Base(inHand[w])]
          /\ UNCHANGED deferred
     ELSE /\ deferred' = [deferred EXCEPT ![w] = Append(@, inHand[w])]
          /\ stack' = [stack EXCEPT ![w] = Front(@)]
          /\ budget' = Give(Depth(w), Top(w).entry)
  /\ inHand' = [inHand EXCEPT ![w] = NoEntry]
  /\ pc' = [pc EXCEPT ![w] = "spread"]
  /\ UNCHANGED <<pack, rotten, phase, sums, next, results>>

\* Then the child takes its place, or is put off.
TakeOver(w) ==
  /\ pc[w] = "take"
  /\ IF CanTake(Depth(w), inHand[w])
     THEN /\ budget' = Take(Depth(w), inHand[w], budget)
          /\ stack' = [stack EXCEPT ![w] = [@ EXCEPT ![Depth(w)] = Base(inHand[w])]]
          /\ UNCHANGED deferred
     ELSE /\ deferred' = [deferred EXCEPT ![w] = Append(@, inHand[w])]
          /\ stack' = [stack EXCEPT ![w] = Front(@)]
          /\ UNCHANGED budget
  /\ inHand' = [inHand EXCEPT ![w] = NoEntry]
  /\ pc' = [pc EXCEPT ![w] = "spread"]
  /\ UNCHANGED <<pack, rotten, phase, sums, next, results>>

\* Mistake: what stands on a base that cannot be rebuilt is not reported.
Rebuild_Alone(w) ==
  /\ pc[w] = "drain" /\ deferred[w] # << >>
  /\ LET d == Last(deferred[w])
     IN  IF Chain(d) \ {0} \subseteq Decodable
         THEN /\ stack' = [stack EXCEPT ![w] = <<Base(d)>>]
              /\ pc' = [pc EXCEPT ![w] = "spread"]
              /\ UNCHANGED results
         ELSE Report({d}) /\ UNCHANGED <<stack, pc>>
  /\ deferred' = [deferred EXCEPT ![w] = Front(@)]
  /\ UNCHANGED <<pack, rotten, phase, sums, next, inHand, budget>>

\* walkChain goes on with what was put off last, decoded again from the
\* bottom of its chain.
Rebuild(w) ==
  /\ pc[w] = "drain" /\ deferred[w] # << >>
  /\ LET d == Last(deferred[w])
     IN  IF Chain(d) \ {0} \subseteq Decodable
         THEN /\ stack' = [stack EXCEPT ![w] = <<Base(d)>>]
              /\ pc' = [pc EXCEPT ![w] = "spread"]
              /\ UNCHANGED results
         ELSE /\ Report(Subtree(d))
              /\ UNCHANGED <<stack, pc>>
  /\ deferred' = [deferred EXCEPT ![w] = Front(@)]
  /\ UNCHANGED <<pack, rotten, phase, sums, next, inHand, budget>>

EndChain(w) ==
  /\ pc[w] = "drain" /\ deferred[w] = << >>
  /\ pc' = [pc EXCEPT ![w] = "claim"]
  /\ UNCHANGED <<pack, rotten, phase, sums, next, walks, budget, results>>

\* The walk is over, and Verify waits for the hash.
Join ==
  /\ phase = "walk" /\ \A w \in Workers : pc[w] = "left"
  /\ sums # "hashing"
  /\ phase' = "over" /\ good' = (good /\ sums = "match")
  /\ UNCHANGED <<pack, rotten, sums, next, pc, walks, budget, delivered, reported, mismatch>>

Over == phase = "over"

Rest == Over /\ UNCHANGED vars

Work(w) ==
  \/ CheckBatch(w) \/ Claim(w) \/ PopBase(w) \/ VisitLeaf(w) \/ VisitBase(w)
  \/ HandOver(w) \/ TakeOver(w) \/ Rebuild(w) \/ EndChain(w)

Next == OpenPack \/ HashPack \/ Join \/ ReportBad \/ StartWalk \/ Rot \/ Rest \/ \E w \in Workers : Work(w)

Spec == Init /\ [][Next]_vars
FairSpec == Spec /\ WF_vars(OpenPack) /\ WF_vars(HashPack) /\ WF_vars(Join)
                 /\ WF_vars(ReportBad) /\ WF_vars(StartWalk)
                 /\ \A w \in Workers : WF_vars(Work(w))

(***************************************************************************)
(* Properties.                                                             *)
(***************************************************************************)

\* What the numbers of a sequence add up to.
Total(s) ==
  LET sum[n \in 0..Len(s)] == IF n = 0 THEN 0 ELSE sum[n - 1] + s[n]
  IN  sum[Len(s)]

\* The decoded bases a worker holds against the budget: all but the bottom of
\* its stack, and not the one it has given back to hand its place over.
Reserved(w) ==
  LET top == IF pc[w] = "take" THEN Depth(w) - 1 ELSE Depth(w)
  IN  Total([k \in 1..top |-> IF k = 1 THEN 0 ELSE pack.size[stack[w][k].entry]])

\* The budget and what the workers hold against it always make the whole, so
\* the bases held are never more than the budget (which is a natural number)
\* and one for each worker: nothing is given back twice or kept (take, give).
BudgetExact ==
  LET order == SetToSeq(Workers)
  IN  budget + Total([k \in 1..Len(order) |-> Reserved(order[k])]) = Budget

\* Entries that lead down to an entry that is no delta, or to a bad one.
\* Those on a cycle of deltas, or above one, do not: no worker gets to them,
\* and nothing reports them.
InForest == {i \in Entries : 0 \in Chain(i)}

\* What is there to be had from the pack, whatever the budget.
Sound == {i \in InForest : /\ Chain(i) \cap Bad = {}
                           /\ Chain(i) \ {0} \subseteq Decodable}

\* The result is that of decoding every chain by itself: however the workers
\* shared the budget and whatever they put off, each object that is to be had
\* and hashes to its name is delivered once, and each other one in the forest
\* reported once (Verify, TestAChainBudgetChangesNothingButMemory).
ResultExact ==
  Over /\ rotten = {} /\ pack.opens = "yes" =>
    \A i \in Entries :
      /\ delivered[i] = IF i \in Sound \cap pack.hashes THEN 1 ELSE 0
      /\ reported[i] = IF i \in InForest \ (Sound \cap pack.hashes) THEN 1 ELSE 0

\* When the file changes under the run, an object may be delivered and then
\* reported, but none is delivered twice and none in the forest is passed
\* over; and a pack is passed only when every entry of the forest was
\* delivered and every hash and checksum matched (Verify, walkChain, rebuild).
NothingPassedOver ==
  /\ \A i \in Entries : delivered[i] <= 1
  /\ Over /\ pack.opens = "yes" => \A i \in InForest : delivered[i] + reported[i] > 0
  /\ Over => good = /\ pack.opens = "yes" /\ pack.idxSum /\ sums = "match"
                    /\ mismatch = {} /\ Entries \subseteq pack.crc
                    /\ \A i \in Entries : reported[i] = 0

\* The verification ends: nobody waits for the budget (spread, walkChain).
Termination == <>Over

\* The types, and the budget against what the workers hold.
Bookkeeping == TypeOK /\ BudgetExact
=============================================================================
