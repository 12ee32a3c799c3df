------------------------------ MODULE PackRead -------------------------------
(***************************************************************************)
(* Reading objects by name (internal/odb/db.go, Read, readPacked and       *)
(* readBase) through the cache of delta bases (internal/odb/cache.go),     *)
(* by several workers at once.  A worker has a stack of calls: Read for a  *)
(* name, readBase for a base in the same pack; readPacked is the body of   *)
(* both.  A call that is over has left its result in ret and is popped by  *)
(* Return.  A step is what is done between two uses of the lock of a       *)
(* shard, which is all the workers share that a read depends on: DB.bad is *)
(* written here and by the pack check (markBad, MarkBadPacked) and read    *)
(* nowhere, and is left out.                                               *)
(***************************************************************************)
EXTENDS PackStore, SequencesExt

CONSTANTS
  Readers,    \* the workers
  Failed,     \* the result of a call that returns an error
  NoResult,   \* no call is over
  Shards,     \* the shards of the cache
  Shard,      \* the shard of each place
  Length,     \* how many bytes the content of each place has
  ShardLimit  \* deltaCacheLimit/deltaCacheShards

ASSUME PackReadAssumption ==
  /\ Shard \in [Places -> Shards] /\ Length \in [Places -> Nat]
  /\ ShardLimit \in Nat
  /\ Failed \notin Seq(Places) /\ NoResult \notin Seq(Places) /\ Failed # NoResult

VARIABLES
  store,   \* the database
  asked,   \* what each worker reads
  answer,  \* what its last read returned
  stack,   \* its calls, the innermost last
  ret,     \* the result of the innermost call
  m,       \* deltaShard.m of all shards: the places cached, and their contents
  lru,     \* deltaShard.lru of each shard, most recently used first
  size     \* deltaShard.size

calls == <<asked, answer, stack, ret>>
cache == <<m, lru, size>>
vars == <<store, asked, answer, stack, ret, m, lru, size>>

\* A call: the place it decodes, how many deltas it is below a Read, and the
\* name it was asked for if it is a Read.
Frame == [at : Places \cup {Nowhere}, depth : Nat, name : Objects \cup {NoObject}]

ReadCall(o) == [at |-> Find(store, o), depth |-> 0, name |-> o]
BaseCall(b, d) == [at |-> b, depth |-> d, name |-> NoObject]

TypeOK ==
  /\ store \in Database
  /\ asked \in [Readers -> Objects \cup {NoObject}]
  /\ answer \in [Readers -> Seq(Places) \cup {Failed}]
  /\ stack \in [Readers -> Seq(Frame)]
  /\ ret \in [Readers -> Seq(Places) \cup {Failed, NoResult}]
  /\ DOMAIN m \subseteq Places /\ \A e \in DOMAIN m : m[e] \in Seq(Places)
  /\ lru \in [Shards -> Seq(Places)] /\ size \in [Shards -> Int]

Init ==
  /\ store \in Stores
  /\ asked = [r \in Readers |-> NoObject]
  /\ answer = [r \in Readers |-> Failed]
  /\ stack = [r \in Readers |-> << >>]
  /\ ret = [r \in Readers |-> NoResult]
  /\ m = << >>
  /\ lru = [h \in Shards |-> << >>] /\ size = [h \in Shards |-> 0]

(***************************************************************************)
(* The cache.                                                              *)
(***************************************************************************)

MoveToFront(l, e) == LET i == CHOOSE i \in 1..Len(l) : l[i] = e IN <<e>> \o RemoveAt(l, i)

\* deltaCache.get, when the place is cached.
Touch(e) ==
  /\ lru' = [lru EXCEPT ![Shard[e]] = MoveToFront(@, e)]
  /\ UNCHANGED <<m, size>>

\* How many bytes a list of places holds.
Bytes(l) ==
  LET sum[n \in 0..Len(l)] == IF n = 0 THEN 0 ELSE sum[n - 1] + Length[l[n]]
  IN  sum[Len(l)]

\* How many of the entries of l, from the front, are kept when the others are
\* dropped from the back until the limit is met or there are none.
Keep(l, n) ==
  CHOOSE k \in 0..Len(l) :
    LET Held(j) == n - Bytes(SubSeq(l, j + 1, Len(l)))
    IN  /\ k = 0 \/ Held(k) <= ShardLimit
        /\ \A j \in (k + 1)..Len(l) : Held(j) > ShardLimit

\* Mistake: an entry put a second time is counted a second time.
Put_Twice(e, c) ==
  LET h == Shard[e]
      pushed == <<e>> \o Remove(lru[h], e)
      k == Keep(pushed, size[h] + Length[e])
      dropped == SubSeq(pushed, k + 1, Len(pushed))
      known == (DOMAIN m \cup {e}) \ ToSet(dropped)
  IN  IF Length[e] > ShardLimit THEN UNCHANGED cache
      ELSE /\ m' = [x \in known |-> IF x = e THEN c ELSE m[x]]
           /\ lru' = [lru EXCEPT ![h] = SubSeq(pushed, 1, k)]
           /\ size' = [size EXCEPT ![h] = @ + Length[e] - Bytes(dropped)]

\* deltaCache.put.
Put(e, c) ==
  LET h == Shard[e]
      pushed == <<e>> \o lru[h]
      k == Keep(pushed, size[h] + Length[e])
      dropped == SubSeq(pushed, k + 1, Len(pushed))
      known == (DOMAIN m \cup {e}) \ ToSet(dropped)
  IN  IF Length[e] > ShardLimit THEN UNCHANGED cache
      ELSE IF e \in DOMAIN m THEN Touch(e)
      ELSE /\ m' = [x \in known |-> IF x = e THEN c ELSE m[x]]
           /\ lru' = [lru EXCEPT ![h] = SubSeq(pushed, 1, k)]
           /\ size' = [size EXCEPT ![h] = @ + Length[e] - Bytes(dropped)]

(***************************************************************************)
(* The reads.                                                              *)
(***************************************************************************)

\* Inflate, and applyDelta on the content of the base if there is one.
Decode(e, base) == IF Decodes(store, e) THEN <<e>> \o base ELSE Failed

\* A worker calls Read.
Read(r, o) ==
  /\ asked[r] = NoObject
  /\ asked' = [asked EXCEPT ![r] = o]
  /\ stack' = [stack EXCEPT ![r] = <<ReadCall(o)>>]
  /\ UNCHANGED <<store, answer, ret, m, lru, size>>

\* The innermost call, when it has not returned.
Running(r) == stack[r] # << >> /\ ret[r] = NoResult
Top(r) == Last(stack[r])

\* The call does not get to a base: the object is missing, loose or stored
\* whole, the chain is too deep, or the header does not read.
ReadWhole(r) ==
  /\ Running(r)
  /\ LET e == Top(r).at
     IN  /\ ~IsDelta(store, e) \/ Top(r).depth > MaxDeltaChain
         /\ ret' = [ret EXCEPT ![r] =
              IF IsWhole(store, e) /\ (IsPacked(e) => Top(r).depth <= MaxDeltaChain)
              THEN Decode(e, << >>) ELSE Failed]
  /\ UNCHANGED <<store, asked, answer, stack, m, lru, size>>

\* Mistake: the cache is keyed by the offset alone, whatever the pack.
BaseCached_AnyPack(r) ==
  /\ Running(r)
  /\ LET e == Top(r).at
     IN  /\ IsDelta(store, e) /\ Top(r).depth <= MaxDeltaChain
         /\ BaseInPack(store, e)
         /\ \E b \in DOMAIN m :
              /\ b[2] = BaseOf(store, e)[2]
              /\ Touch(b)
              /\ ret' = [ret EXCEPT ![r] = Decode(e, m[b])]
  /\ UNCHANGED <<store, asked, answer, stack>>

\* The call needs a base of the same pack, and the cache has it.
BaseCached(r) ==
  /\ Running(r)
  /\ LET e == Top(r).at
         b == BaseOf(store, e)
     IN  /\ IsDelta(store, e) /\ Top(r).depth <= MaxDeltaChain
         /\ BaseInPack(store, e) /\ b \in DOMAIN m
         /\ Touch(b)
         /\ ret' = [ret EXCEPT ![r] = Decode(e, m[b])]
  /\ UNCHANGED <<store, asked, answer, stack>>

\* The cache does not have it.
BaseMissed(r) ==
  /\ Running(r)
  /\ LET e == Top(r).at
         b == BaseOf(store, e)
     IN  /\ IsDelta(store, e) /\ Top(r).depth <= MaxDeltaChain
         /\ BaseInPack(store, e) /\ b \notin DOMAIN m
         /\ stack' = [stack EXCEPT ![r] = Append(@, BaseCall(b, Top(r).depth + 1))]
  /\ UNCHANGED <<store, asked, answer, ret, m, lru, size>>

\* The base is not in this pack, and is read by its name, from depth 0.
BaseElsewhere(r) ==
  /\ Running(r)
  /\ LET e == Top(r).at
     IN  /\ IsDelta(store, e) /\ Top(r).depth <= MaxDeltaChain
         /\ ~BaseInPack(store, e)
         /\ stack' = [stack EXCEPT ![r] = Append(@, ReadCall(Header(store, e).base))]
  /\ UNCHANGED <<store, asked, answer, ret, m, lru, size>>

\* Mistake: a base that failed is read again.
WithBase_Retry(e, v) == IF v = Failed THEN NoResult ELSE Decode(e, v)

\* What becomes of the caller, at e, when its base was read or was not.
WithBase(e, v) == IF v = Failed THEN Failed ELSE Decode(e, v)

\* The call is over.  What a readBase has read goes into the cache.  The
\* caller, if there is one, goes on.
Return(r) ==
  /\ stack[r] # << >> /\ ret[r] # NoResult
  /\ LET f == Top(r)
         rest == Front(stack[r])
         v == ret[r]
     IN  /\ IF v # Failed /\ f.name = NoObject THEN Put(f.at, v) ELSE UNCHANGED cache
         /\ stack' = [stack EXCEPT ![r] = rest]
         /\ IF rest = << >>
            THEN /\ answer' = [answer EXCEPT ![r] = v]
                 /\ asked' = [asked EXCEPT ![r] = NoObject]
                 /\ ret' = [ret EXCEPT ![r] = NoResult]
            ELSE /\ ret' = [ret EXCEPT ![r] = WithBase(Last(rest).at, v)]
                 /\ UNCHANGED <<asked, answer>>
  /\ UNCHANGED store

Step(r) ==
  \/ ReadWhole(r) \/ BaseCached(r) \/ BaseMissed(r) \/ BaseElsewhere(r)
  \/ Return(r)

Next == \E r \in Readers : (\E o \in Objects : Read(r, o)) \/ Step(r)

Spec == Init /\ [][Next]_vars
FairSpec == Spec /\ \A r \in Readers : WF_vars(Step(r))

(***************************************************************************)
(* Properties.                                                             *)
(***************************************************************************)

\* The map, the list and the size of each shard of the cache agree, and the
\* shard holds no more than its share (deltaShard, put).
CacheAgrees ==
  \A h \in Shards :
    /\ ToSet(lru[h]) = {e \in DOMAIN m : Shard[e] = h}
    /\ Len(lru[h]) = Cardinality(ToSet(lru[h]))
    /\ size[h] = Bytes(lru[h])
    /\ size[h] <= ShardLimit

\* What TypeInPack says of an object from headers alone is what the object
\* turns out to be when it is read.
TypesAgree ==
  \A r \in Readers :
    LET c == answer[r]
    IN  c # Failed /\ TypeInPack(store, c[1][2]) # Nowhere =>
          c[Len(c)] = TypeInPack(store, c[1][2])

\* The cache holds what it should whoever put it there (deltaShard, put).
Bookkeeping == TypeOK /\ CacheAgrees

\* Reading through the cache, by several workers at once, answers as reading
\* without it would, and always does, also around a cycle of deltas inside a
\* pack: every behaviour is one of ObjectReads (Read, readPacked, readBase).
Reads == INSTANCE ObjectReads
ReadsAsIfAlone == Reads!Promise
=============================================================================
