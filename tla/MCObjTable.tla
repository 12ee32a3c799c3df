----------------------------- MODULE MCObjTable ------------------------------
(***************************************************************************)
(* An instance of ObjTable: five objects in two shards, slabs of two       *)
(* entries and of three edges, and two workers.                            *)
(***************************************************************************)
EXTENDS ObjTable

To(o, t) == [oid |-> o, typ |-> t]
TypesOf == [o \in Names |-> IF o <= 2 THEN "tree" ELSE "blob"]
NoLinks == [o \in Names |-> << >>]
None == [o \in Names |-> 0]

Of(c, l, g) == [copies |-> c, typ |-> TypesOf, links |-> l, gitlinks |-> g]

Graphs ==
  {[NoLinks EXCEPT ![1] = <<To(2, "tree"), To(3, "blob")>>, ![2] = <<To(4, t), To(3, "blob")>>] :
     t \in {"tree", "blob", "any"}}
  \cup {[NoLinks EXCEPT ![1] = <<To(3, "blob")>>, ![2] = <<To(1, "tree"), To(4, "blob"), To(5, "blob"), To(3, "blob")>>]}

Repositories ==
  {Of(<<<<1, 2>>>>, l, [None EXCEPT ![1] = k]) : l \in Graphs, k \in {0, 1}}
  \cup {Of(c, l, None) : l \in Graphs, c \in {<<<<1, 4>>, <<1>>>>, <<<<2, 4>>, <<2, 3>>>>}}

Shard2 == [o \in Names |-> IF o \in {1, 4} THEN 1 ELSE 2]
Keys == [o \in Names |-> CASE o = 1 -> 3 [] o = 4 -> 7 [] o = 2 -> 1 [] o = 3 -> 5 [] OTHER -> 5]
=============================================================================
