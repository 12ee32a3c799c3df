--------------------------- MODULE MCRemoteSource ----------------------------
(***************************************************************************)
(* An instance of RemoteSource: a commit 1 that names the commit before    *)
(* it, 2, and a tree 3; the tree of 2 is 4, and the remote has no 5.       *)
(***************************************************************************)
EXTENDS RemoteSource

History == [o \in Names |-> CASE o = 1 -> {2, 3} [] o = 2 -> {4} [] OTHER -> {}]

SomePasses ==
  {[bad |-> b, local |-> l] :
     b \in {<<1>>, <<1, 2, 4>>, <<3, 2, 3>>, <<2, 4, 5>>}, l \in {{}, {3}, {2, 5}}}
=============================================================================
