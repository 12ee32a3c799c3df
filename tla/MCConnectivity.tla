---------------------------- MODULE MCConnectivity ----------------------------
(***************************************************************************)
(* Instances of Connectivity: chains, fans and diamonds of a few objects,  *)
(* with every choice of what is there.                                     *)
(***************************************************************************)
EXTENDS Connectivity

CONSTANT Shapes  \* the link functions tried

\* Object 1 names three others: a surplus for a batch of one.
Fan == [o \in Objects |-> IF o = 1 THEN Objects \ {1} ELSE {}]
\* Two ways to the last object, and a tip nothing names.
Diamond == [o \in Objects |-> CASE o = 1 -> {2, 3} [] o = 2 -> {4} [] o = 3 -> {4} [] OTHER -> {}]
\* A history with one commit at a time.
Chain == [o \in Objects |-> IF o + 1 \in Objects THEN {o + 1} ELSE {}]

Base(roots, links, has, only, file) ==
  [roots |-> roots, links |-> links, refused |-> roots \cap {2}, has |-> has,
   file |-> has \cup file, packed |-> file, only |-> only]

MCRepos ==
  {Base(roots, links, has, only, file) :
     roots \in {{1}, {2}, {1, 2}}, links \in Shapes, has \in SUBSET Objects,
     only \in BOOLEAN, file \in {{}, {3}}}

AllShapes == {Fan, Diamond, Chain}
=============================================================================
