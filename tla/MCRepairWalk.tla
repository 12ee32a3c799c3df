----------------------------- MODULE MCRepairWalk -----------------------------
(***************************************************************************)
(* Instances of RepairWalk: every acyclic graph of a few objects, with     *)
(* every choice of what reads, what is proven and what is carried.         *)
(***************************************************************************)
EXTENDS RepairWalk

CONSTANT
  MaxHunt     \* how far above the damage there is an fsck may have counted

\* An object names only later ones: git's graph has no cycle.
MCLinks == {l \in [Objects -> SUBSET Objects] : \A o \in Objects : \A c \in l[o] : c > o}

\* A scan carries nothing and may hunt.
Scans ==
  {r \in [roots : {{1}, {1, 2}}, links : MCLinks, readable : SUBSET Objects,
          proven : SUBSET Objects, carried : {{}},
          hunt : 0 .. Cardinality(Objects) + MaxHunt] :
     /\ r.proven \subseteq r.readable
     /\ Cardinality(r.proven) <= 1
     /\ \A o \in r.proven : r.links[o] = {}
     /\ \/ r.hunt = 0
        \/ r.hunt \in Cardinality(BadReach(r)) .. Cardinality(BadReach(r)) + MaxHunt}

\* A descend starts below what was put back and carries what was read before.
Descends ==
  {r \in [roots : {{1}, {1, 2}}, links : MCLinks, readable : SUBSET Objects,
          proven : {{}}, carried : SUBSET Objects, hunt : {0}] :
     r.carried # {} /\ 1 \in r.readable}

MCRepos == Scans \cup Descends
=============================================================================
