------------------------------ MODULE ObjTable -------------------------------
(***************************************************************************)
(* The object table of the fsck and the arena its edges are kept in        *)
(* (internal/fsckcmd/objtable.go, edgearena.go), under the workers of the  *)
(* object pass: each takes an object, looks it up, makes room for its      *)
(* edges, looks up what it names, and records the edges.  A lookup holds   *)
(* the lock of the object's shard; entries live in slabs every shard       *)
(* shares, and an index leads to an entry through the list of slabs        *)
(* without a lock.  A step is one use of something shared.                 *)
(***************************************************************************)
EXTENDS Integers, Sequences, FiniteSets, SequencesExt

CONSTANTS
  Names,        \* object names
  Kinds,        \* object types
  NoType,       \* gitobj.TypeNone
  AnyType,      \* gitobj.TypeAny, of a link that expects nothing
  Checkers,     \* the workers of the object pass
  Nobody,       \* no worker
  Stores,       \* the repositories to consider
  Shards,       \* the shards of the table
  ShardOf,      \* the shard of each object
  Key,          \* slotKey of each object
  Start,        \* how many slots a shard is made with, objShardMin or more
  SlabSize,     \* objSlabSize
  MaxIndex,     \* maxObjIndex
  EdgeSlabSize, \* edgeSlabSize
  Nil           \* no object, no index, no chunk, no room, no edges

\* A link names an object and the type it expects it to have.
Link == [oid : Names, typ : Kinds \cup {AnyType}]

\* A repository: the copies of objects to check, place by place (an object
\* directory or a pack) and in the order they are handed out, and what each
\* object is and names.  gitlinks counts the entries of a tree that room is
\* made for and that are not followed.
Store == [copies : Seq(Seq(Names)), typ : [Names -> Kinds],
         links : [Names -> Seq(Link)], gitlinks : [Names -> Nat]]

ASSUME ObjTableAssumption ==
  /\ IsFiniteSet(Checkers) /\ Nobody \notin Checkers /\ Nil \notin Names \cup Nat
  /\ Nil \notin [slab : Nat, used : Nat] /\ Nil \notin [slab : Nat, pos : Nat]
  /\ Nil \notin [slab : Nat, pos : Nat, n : Nat]
  /\ ShardOf \in [Names -> Shards] /\ Key \in [Names -> Nat]
  /\ Start \in Nat \ {0, 1} /\ SlabSize \in Nat \ {0} /\ EdgeSlabSize \in Nat \ {0}
  /\ MaxIndex \in Nat /\ NoType \notin Kinds /\ AnyType \notin Kinds \cup {NoType}
  /\ Stores \subseteq Store

VARIABLES
  store,    \* the repository
  queue,    \* the places that are left, with the copies no worker has taken
  slots,    \* objShard.slots: a key, and an index plus one or 0 for an empty slot
  used,     \* objShard.used
  holder,   \* who holds objShard.mu
  created,  \* objTable.created
  slabs,    \* objTable.slabs: the slabs of entries, by number
  heap,     \* what each slab ever made holds
  arena,    \* edgeArena.slabs: the slabs of edges
  pool,     \* edgeArena.chunks: the chunks nobody has
  stage,    \* where each worker is
  job,      \* the object it checks, its index, and the room for its edges
  want,     \* what it looks up
  probe,    \* the index it has claimed
  chunk,    \* the chunk it allocates from
  crashed   \* the run has panicked

tableState == <<slots, used, holder, created, slabs, heap>>
tableVars == <<store, queue, slots, used, holder, created, slabs, heap, arena, pool,
               stage, job, want, probe, chunk, crashed>>

\* objEntry: the name, the type, whether flagSeen is set, and the span of its
\* edges once flagWalked is.
Blank == [hash |-> Nil, typ |-> NoType, seen |-> FALSE, edges |-> Nil]
Empty == [key |-> 0, idx |-> 0]
Unresolved == -1

(***************************************************************************)
(* Reading the table.                                                      *)
(***************************************************************************)

SlabOf(i) == (i \div SlabSize) + 1
PosIn(i) == (i % SlabSize) + 1

\* objTable.At.
At(i) == heap[slabs[SlabOf(i)]][PosIn(i)]

\* The slots of a table of n in the order a key probes them.
Way(k, n) == [j \in 1..n |-> (((k % n) + j - 1) % n) + 1]

\* The slot a probe for the object ends at: its own, or the first empty one.
Hit(o) ==
  LET h == ShardOf[o]
      Ends(p) == \/ slots[h][p].idx = 0
                 \/ slots[h][p].key = Key[o] /\ At(slots[h][p].idx - 1).hash = o
      way == Way(Key[o], Len(slots[h]))
  IN  way[CHOOSE j \in 1..Len(way) : Ends(way[j]) /\ \A k \in 1..(j - 1) : ~Ends(way[k])]

\* objTable.Get: the index of the entry of an object, or Nil.
Get(o) ==
  IF slots[ShardOf[o]] = << >> \/ slots[ShardOf[o]][Hit(o)].idx = 0 THEN Nil
  ELSE slots[ShardOf[o]][Hit(o)].idx - 1

\* objTable.Edges of the entry at an index.
Edges(i) ==
  LET s == At(i).edges
  IN  IF s.n = 0 THEN << >> ELSE SubSeq(arena[s.slab], s.pos + 1, s.pos + s.n)

TableTypeOK ==
  /\ store \in Store /\ queue \in Seq(Seq(Names))
  /\ slots \in [Shards -> Seq([key : Nat, idx : Nat])] /\ used \in [Shards -> Nat]
  /\ holder \in [Shards -> Checkers \cup {Nobody}]
  /\ created \in 0..(MaxIndex + 2) /\ slabs \in Seq(1..Len(heap))
  /\ stage \in [Checkers -> {"idle", "lookup", "claim", "load", "grow", "insert",
                             "clear", "seen", "alloc", "cut", "link"}]
  /\ \A c \in pool : c.slab \in 1..Len(arena) /\ c.used \in 0..EdgeSlabSize
  /\ crashed \in BOOLEAN

TableInit ==
  /\ store \in Stores /\ queue = store.copies
  /\ slots = [h \in Shards |-> << >>] /\ used = [h \in Shards |-> 0]
  /\ holder = [h \in Shards |-> Nobody]
  /\ created = 0 /\ slabs = << >> /\ heap = << >>
  /\ arena = << >> /\ pool = {}
  /\ stage = [w \in Checkers |-> "idle"]
  /\ job = [w \in Checkers |-> Nil] /\ want = [w \in Checkers |-> Nil]
  /\ probe = [w \in Checkers |-> Nil] /\ chunk = [w \in Checkers |-> Nil]
  /\ crashed = FALSE

\* An entry changes.
SetEntry(i, e) == heap' = [heap EXCEPT ![slabs[SlabOf(i)]][PosIn(i)] = e]

(***************************************************************************)
(* Lookup.                                                                 *)
(***************************************************************************)

\* The workers are done with a place, and its successor begins.
NextPlace ==
  /\ queue # << >> /\ Head(queue) = << >> /\ \A w \in Checkers : stage[w] = "idle"
  /\ queue' = Tail(queue)
  /\ UNCHANGED <<store, tableState, arena, pool, stage, job, want, probe, chunk, crashed>>

\* A worker takes the next copy of the place and looks its object up under its own type.
Take(w) ==
  /\ stage[w] = "idle" /\ queue # << >> /\ Head(queue) # << >>
  /\ queue' = [queue EXCEPT ![1] = Tail(@)]
  /\ LET o == Head(Head(queue))
     IN  /\ job' = [job EXCEPT ![w] = [oid |-> o, idx |-> 0, span |-> Nil, n |-> 0]]
         /\ want' = [want EXCEPT ![w] = [oid |-> o, typ |-> store.typ[o]]]
  /\ stage' = [stage EXCEPT ![w] = "lookup"]
  /\ UNCHANGED <<store, tableState, arena, pool, probe, chunk, crashed>>

\* Mistake: an object with a link that is refused is not walked.
Answer_GiveUp(w, i, ok) ==
  LET j == job[w]
  IN  IF j.span = Nil
      THEN /\ job' = [job EXCEPT ![w].idx = i]
           /\ stage' = [stage EXCEPT ![w] = IF ok THEN "clear" ELSE "idle"]
           /\ UNCHANGED arena
      ELSE /\ arena' = [arena EXCEPT ![j.span.slab][j.span.pos + j.n + 1] = i]
           /\ job' = [job EXCEPT ![w].n = @ + 1]
           /\ stage' = [stage EXCEPT ![w] = IF ok THEN "link" ELSE "idle"]

\* Lookup returns to the worker: with the entry of its object, or with the
\* target of the next edge, which makeEdge records.
Answer(w, i, ok) ==
  LET j == job[w]
  IN  IF j.span = Nil
      THEN /\ job' = [job EXCEPT ![w].idx = i]
           /\ stage' = [stage EXCEPT ![w] = IF ok THEN "clear" ELSE "idle"]
           /\ UNCHANGED arena
      ELSE /\ arena' = [arena EXCEPT ![j.span.slab][j.span.pos + j.n + 1] =
                          IF ok THEN i ELSE Unresolved]
           /\ job' = [job EXCEPT ![w].n = @ + 1]
           /\ stage' = [stage EXCEPT ![w] = "link"]

\* SetType: the type that was seen first is kept.
Settle(old, t) == IF old = NoType /\ t # AnyType THEN t ELSE old

\* The object is in the table: reconcile, all under the lock of the shard.
LookupOld(w) ==
  /\ stage[w] = "lookup" /\ holder[ShardOf[want[w].oid]] = Nobody
  /\ Get(want[w].oid) # Nil
  /\ LET i == Get(want[w].oid)
         e == At(i)
     IN  /\ SetEntry(i, [e EXCEPT !.typ = Settle(@, want[w].typ)])
         /\ Answer(w, i, want[w].typ \in {AnyType, Settle(e.typ, want[w].typ)})
  /\ UNCHANGED <<store, queue, slots, used, holder, created, slabs, pool, want,
                 probe, chunk, crashed>>

\* It is not: the lock is held, and the shard has its slots.
LookupNew(w) ==
  LET h == ShardOf[want[w].oid]
  IN  /\ stage[w] = "lookup" /\ holder[h] = Nobody
      /\ Get(want[w].oid) = Nil
      /\ holder' = [holder EXCEPT ![h] = w]
      /\ slots' = IF slots[h] # << >> THEN slots
                  ELSE [slots EXCEPT ![h] = [p \in 1..Start |-> Empty]]
      /\ stage' = [stage EXCEPT ![w] = "claim"]
      /\ UNCHANGED <<store, queue, used, created, slabs, heap, arena, pool, job,
                     want, probe, chunk, crashed>>

\* newEntry: an index is claimed.
Claim(w) ==
  /\ stage[w] = "claim"
  /\ created' = created + 1
  /\ crashed' = (created > MaxIndex)
  /\ probe' = [probe EXCEPT ![w] = created]
  /\ stage' = [stage EXCEPT ![w] = "load"]
  /\ UNCHANGED <<store, queue, slots, used, holder, slabs, heap, arena, pool, job,
                 want, chunk>>

\* The list of slabs is loaded, and is long enough or not.
LoadSlabs(w) ==
  /\ stage[w] = "load"
  /\ stage' = [stage EXCEPT ![w] = IF SlabOf(probe[w]) <= Len(slabs) THEN "insert" ELSE "grow"]
  /\ UNCHANGED <<store, queue, tableState, arena, pool, job, want, probe, chunk, crashed>>

NewSlab == [p \in 1..SlabSize |-> Blank]

\* Mistake: the list is not looked at again, and a slab that another worker
\* has added meanwhile is replaced.
GrowSlabs_Stale(w) ==
  /\ stage[w] = "grow"
  /\ LET n == SlabOf(probe[w])
         kept == SubSeq(slabs, 1, IF n - 1 < Len(slabs) THEN n - 1 ELSE Len(slabs))
         new == n - Len(kept)
     IN  /\ heap' = heap \o [k \in 1..new |-> NewSlab]
         /\ slabs' = kept \o [k \in 1..new |-> Len(heap) + k]
  /\ stage' = [stage EXCEPT ![w] = "insert"]
  /\ UNCHANGED <<store, queue, slots, used, holder, created, arena, pool, job, want,
                 probe, chunk, crashed>>

\* growSlabs, under slabMu: the list is looked at again, and a longer copy of
\* it takes its place.
GrowSlabs(w) ==
  /\ stage[w] = "grow"
  /\ LET short == IF SlabOf(probe[w]) > Len(slabs) THEN SlabOf(probe[w]) - Len(slabs) ELSE 0
     IN  /\ heap' = heap \o [k \in 1..short |-> NewSlab]
         /\ slabs' = slabs \o [k \in 1..short |-> Len(heap) + k]
  /\ stage' = [stage EXCEPT ![w] = "insert"]
  /\ UNCHANGED <<store, queue, slots, used, holder, created, arena, pool, job, want,
                 probe, chunk, crashed>>

\* Mistake: the slots keep their places in the longer table.
Rehash_Copy(sl, n) == sl \o [p \in 1..(n - Len(sl)) |-> Empty]

\* A slot is put back where a probe with its key first meets an empty one.
PutBack(t, s, n) ==
  LET way == Way(s.key, n)
      k == CHOOSE j \in 1..n : t[way[j]].idx = 0 /\ \A i \in 1..(j - 1) : t[way[i]].idx # 0
  IN  IF s.idx = 0 THEN t ELSE [t EXCEPT ![way[k]] = s]

\* objShard.grow: a table of n slots with every slot of sl put back, from the
\* first on.
Rehash(sl, n) ==
  LET done[q \in 0..Len(sl)] ==
        IF q = 0 THEN [p \in 1..n |-> Empty] ELSE PutBack(done[q - 1], sl[q], n)
  IN  done[Len(sl)]

\* Mistake: a shard is doubled when it is full.
MustGrow_Full(n, len) == n >= len

\* Whether a shard with n of len slots in use is doubled.
MustGrow(n, len) == 2 * n >= len

\* The rest of Lookup: the entry is filled in, its slot is set, the shard is
\* doubled when it is half full, and the lock is let go.
Insert(w) ==
  LET o == want[w].oid
      h == ShardOf[o]
      set == [slots[h] EXCEPT ![Hit(o)] = [key |-> Key[o], idx |-> probe[w] + 1]]
  IN  /\ stage[w] = "insert"
      /\ SetEntry(probe[w], [At(probe[w]) EXCEPT !.hash = o, !.typ = Settle(@, want[w].typ)])
      /\ used' = [used EXCEPT ![h] = @ + 1]
      /\ slots' = [slots EXCEPT ![h] =
            IF MustGrow(used[h] + 1, Len(set)) THEN Rehash(set, 2 * Len(set)) ELSE set]
      /\ holder' = [holder EXCEPT ![h] = Nobody]
      /\ Answer(w, probe[w], TRUE)
      /\ UNCHANGED <<store, queue, created, slabs, pool, want, probe, chunk, crashed>>

(***************************************************************************)
(* checkObject and the arena.                                              *)
(***************************************************************************)

\* ClearFlags: a copy is checked whether or not another one has been.
ClearSeen(w) ==
  /\ stage[w] = "clear"
  /\ SetEntry(job[w].idx, [At(job[w].idx) EXCEPT !.seen = FALSE])
  /\ stage' = [stage EXCEPT ![w] = "seen"]
  /\ UNCHANGED <<store, queue, slots, used, holder, created, slabs, arena, pool, job,
                 want, probe, chunk, crashed>>

\* SetFlag(flagSeen), at the head of checkObject.
SetSeen(w) ==
  /\ stage[w] = "seen"
  /\ SetEntry(job[w].idx, [At(job[w].idx) EXCEPT !.seen = TRUE])
  /\ stage' = [stage EXCEPT ![w] = IF At(job[w].idx).seen THEN "idle" ELSE "alloc"]
  /\ UNCHANGED <<store, queue, slots, used, holder, created, slabs, arena, pool, job,
                 want, probe, chunk, crashed>>

Room(w) == Len(store.links[job[w].oid]) + store.gitlinks[job[w].oid]

\* alloc: nothing to make room for, more than a slab holds, or a chunk from
\* the pool, which may have been emptied meanwhile.
Alloc(w) ==
  /\ stage[w] = "alloc"
  /\ \/ /\ Room(w) = 0
        /\ job' = [job EXCEPT ![w].span = [slab |-> 0, pos |-> 0]]
        /\ stage' = [stage EXCEPT ![w] = "link"]
        /\ UNCHANGED <<arena, pool, chunk>>
     \/ /\ Room(w) > EdgeSlabSize
        /\ arena' = Append(arena, [p \in 1..Room(w) |-> 0])
        /\ job' = [job EXCEPT ![w].span = [slab |-> Len(arena) + 1, pos |-> 0]]
        /\ stage' = [stage EXCEPT ![w] = "link"]
        /\ UNCHANGED <<pool, chunk>>
     \/ /\ Room(w) \in 1..EdgeSlabSize
        /\ \/ \E c \in pool : pool' = pool \ {c} /\ chunk' = [chunk EXCEPT ![w] = c]
           \/ UNCHANGED <<pool, chunk>>
        /\ stage' = [stage EXCEPT ![w] = "cut"]
        /\ UNCHANGED <<arena, job>>
  /\ UNCHANGED <<store, queue, tableState, want, probe, crashed>>

\* Mistake: the chunk does not note what was cut from it.
Advance_Not(c, n) == c

\* A chunk with n more of its edges handed out.
Advance(c, n) == [c EXCEPT !.used = @ + n]

\* The room is cut from the chunk, or from a new slab when the chunk is too
\* short, and the chunk goes back to the pool.
Cut(w) ==
  /\ stage[w] = "cut"
  /\ LET fits == chunk[w] # Nil /\ chunk[w].used + Room(w) <= EdgeSlabSize
         c == IF fits THEN chunk[w] ELSE [slab |-> Len(arena) + 1, used |-> 0]
     IN  /\ arena' = IF fits THEN arena ELSE Append(arena, [p \in 1..EdgeSlabSize |-> 0])
         /\ job' = [job EXCEPT ![w].span = [slab |-> c.slab, pos |-> c.used]]
         /\ pool' = pool \cup {Advance(c, Room(w))}
  /\ chunk' = [chunk EXCEPT ![w] = Nil]
  /\ stage' = [stage EXCEPT ![w] = "link"]
  /\ UNCHANGED <<store, queue, tableState, want, probe, crashed>>

\* The next link is looked up, or all are in and SetEdges records them.
NextLink(w) ==
  LET j == job[w]
      l == store.links[j.oid]
  IN  /\ stage[w] = "link"
      /\ \/ /\ j.n < Len(l)
            /\ want' = [want EXCEPT ![w] = l[j.n + 1]]
            /\ stage' = [stage EXCEPT ![w] = "lookup"]
            /\ UNCHANGED heap
         \/ /\ j.n = Len(l)
            /\ SetEntry(j.idx, [At(j.idx) EXCEPT !.edges =
                  [slab |-> j.span.slab, pos |-> j.span.pos, n |-> j.n]])
            /\ stage' = [stage EXCEPT ![w] = "idle"]
            /\ UNCHANGED want
      /\ UNCHANGED <<store, queue, slots, used, holder, created, slabs, arena, pool,
                     job, probe, chunk, crashed>>

Over == crashed \/ (queue = << >> /\ \A w \in Checkers : stage[w] = "idle")
TableRest == Over /\ UNCHANGED tableVars

Work(w) ==
  ~crashed /\ (\/ Take(w) \/ LookupOld(w) \/ LookupNew(w) \/ Claim(w) \/ LoadSlabs(w)
               \/ GrowSlabs(w) \/ Insert(w) \/ ClearSeen(w) \/ SetSeen(w) \/ Alloc(w) \/ Cut(w)
               \/ NextLink(w))

TableNext == TableRest \/ (~crashed /\ NextPlace) \/ \E w \in Checkers : Work(w)

TableSpec == TableInit /\ [][TableNext]_tableVars
TableFairSpec ==
  TableSpec /\ WF_tableVars(~crashed /\ NextPlace) /\ \A w \in Checkers : WF_tableVars(Work(w))

(***************************************************************************)
(* Properties.                                                             *)
(***************************************************************************)

InTable == UNION {{slots[h][p].idx - 1 : p \in 1..Len(slots[h])} \ {-1} : h \in Shards}

\* Through every growth of a shard and of the slabs, the table finds each
\* object it holds and no two under one index: every slot in use is the one a
\* probe for the object in its entry ends at, and every index claimed is in
\* one slot or in the hands of one worker (Lookup, newEntry, grow).
TableFinds ==
  /\ \A i \in InTable : SlabOf(i) <= Len(slabs) /\ At(i).hash # Nil /\ Get(At(i).hash) = i
  /\ Cardinality(InTable)
       + Cardinality({w \in Checkers : stage[w] \in {"load", "grow", "insert"}}) = created

\* A probe always meets an empty slot: a shard in use is at most half full
\* (Lookup, Get).
ProbesEnd ==
  \A h \in Shards :
    /\ used[h] = Cardinality({p \in 1..Len(slots[h]) : slots[h][p].idx # 0})
    /\ slots[h] # << >> => 2 * used[h] < Len(slots[h])

\* The edges recorded for an object lead to what it names, one edge for each
\* link in order, whatever other workers cut from the same slab; an edge is
\* unresolved only where the object has another type than the link expects
\* (SetEdges, Edges, alloc, reconcile).
EdgesLead ==
  \A i \in {x \in InTable : At(x).edges # Nil} :
    LET l == store.links[At(i).hash]
        e == Edges(i)
    IN  /\ Len(e) = Len(l)
        /\ \A k \in 1..Len(l) :
             IF e[k] = Unresolved
             THEN Get(l[k].oid) # Nil /\ At(Get(l[k].oid)).typ \notin {NoType, l[k].typ}
             ELSE /\ e[k] \in InTable /\ At(e[k]).hash = l[k].oid
                  /\ l[k].typ \in {AnyType, At(e[k]).typ}

\* An entry keeps its name, its type once it has one, and what its edges lead
\* to, under the same index, however often the list of slabs is replaced or
\* another copy of the object is walked (At, SetType, SetEdges, growSlabs).
EntriesStay ==
  [][\A i \in InTable :
       /\ At(i)'.hash = At(i).hash
       /\ At(i).typ # NoType => At(i)'.typ = At(i).typ
       /\ At(i).edges # Nil => Edges(i)' = Edges(i)]_tableVars

\* The pass ends, with every object it was handed walked, except where the
\* first link to it had settled another type (checkObject, reconcile), or the
\* run panics because the table cannot name them all.
EveryObjectWalked ==
  <>[](\/ crashed
       \/ /\ Over
          /\ \A o \in UNION {ToSet(p) : p \in ToSet(store.copies)} :
               LET e == At(Get(o))
               IN  IF e.typ = store.typ[o] THEN e.seen /\ e.edges # Nil ELSE ~e.seen)

\* The types, and that the table finds what it holds and a probe ends (Lookup,
\* Get, newEntry, grow).
Bookkeeping == TableTypeOK /\ TableFinds /\ ProbesEnd
=============================================================================
