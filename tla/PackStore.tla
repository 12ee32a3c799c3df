------------------------------ MODULE PackStore ------------------------------
(***************************************************************************)
(* What an object database holds, and what each of its objects is          *)
(* (internal/odb/db.go, pack.go).  A packed object is stored whole or as a *)
(* delta on another one, named by its place in the same pack or by its     *)
(* name; the object is what applying the chain of deltas to the bottom of  *)
(* it yields.  A content is therefore the sequence of entries it was made  *)
(* from, the object's own entry first: two contents are the same bytes     *)
(* when they are the same sequence.                                        *)
(***************************************************************************)
EXTENDS Integers, Sequences, FiniteSets

CONSTANTS
  Objects,       \* object names; those of one pack are stored in this order
  Packs,         \* packs, as numbers: the database asks them in this order
  MaxDeltaChain, \* how many deltas a read follows inside one pack
  Stores,        \* the databases to consider
  NoObject,      \* no object name
  Nowhere        \* the place of an object the database does not hold

Kind == {"none", "unreadable", "whole", "ofs", "ref"}

\* What a pack has for an object: how the header of the entry says it is
\* stored, the base it names, and whether its stream inflates, to a delta
\* that fits its base if it is one.
Entry ==
  {e \in [kind : Kind, base : Objects \cup {NoObject}, inflates : BOOLEAN] :
     e.kind \in {"ofs", "ref"} => e.base \in Objects}

Database == [opens : [Packs -> BOOLEAN], entry : [Packs -> [Objects -> Entry]],
             loose : [Objects -> {"none", "good", "bad"}]]

\* An entry of a pack, or the loose file of an object (pack 0).
Places == (Packs \cup {0}) \X Objects

ASSUME PackStoreAssumption ==
  /\ Objects \subseteq Nat /\ Packs \subseteq Nat \ {0}
  /\ IsFiniteSet(Objects) /\ IsFiniteSet(Packs)
  /\ MaxDeltaChain \in Nat /\ Stores \subseteq Database
  /\ NoObject \notin Objects /\ Nowhere \notin Places

\* Pack.Find: the entry of an object in a pack, when the pack lists it.
Lists(s, p, o) == s.opens[p] /\ s.entry[p][o].kind # "none"

\* DB.Find: the first pack that lists the object, and only then a file.
Find(s, o) ==
  LET In == {p \in Packs : Lists(s, p, o)}
  IN  IF In # {} THEN <<CHOOSE p \in In : \A q \in In : p <= q, o>>
      ELSE IF s.loose[o] # "none" THEN <<0, o>>
      ELSE Nowhere

\* DB.HasPacked.
HasPacked(s, o) == \E p \in Packs : Lists(s, p, o)

IsPacked(e) == e # Nowhere /\ e[1] # 0
Header(s, e) == s.entry[e[1]][e[2]]
IsDelta(s, e) == IsPacked(e) /\ Header(s, e).kind \in {"ofs", "ref"}

\* A delta whose base is an entry of its own pack.  An offset always is.
BaseInPack(s, e) ==
  Header(s, e).kind = "ofs" \/ s.entry[e[1]][Header(s, e).base].kind # "none"

BaseOf(s, e) ==
  IF BaseInPack(s, e) THEN <<e[1], Header(s, e).base>> ELSE Find(s, Header(s, e).base)

\* A place that yields an object by itself.
IsWhole(s, e) ==
  e # Nowhere /\ (e[1] = 0 \/ Header(s, e).kind = "whole")

\* Whether what is stored at a place decompresses and is applied.
Decodes(s, e) ==
  IF e[1] = 0 THEN s.loose[e[2]] = "good" ELSE Header(s, e).inflates

\* The places a read of an object comes to, one delta after the other.
Chain(s, o) ==
  LET at[d \in 0..MaxDeltaChain] ==
        IF d = 0 THEN Find(s, o)
        ELSE IF IsDelta(s, at[d - 1]) THEN BaseOf(s, at[d - 1]) ELSE Nowhere
  IN  at

(***************************************************************************)
(* c is the content of what is stored at e: a chain from e down to a place *)
(* that needs no base, all of which decodes.                               *)
(***************************************************************************)
IsContent(s, c, e) ==
  /\ c \in Seq(Places) /\ c # << >>
  /\ c[1] = e
  /\ \A i \in 1..Len(c) : Decodes(s, c[i])
  /\ \A i \in 1..(Len(c) - 1) : IsDelta(s, c[i]) /\ c[i + 1] = BaseOf(s, c[i])
  /\ IsWhole(s, c[Len(c)])

\* Mistake: a delta is taken for what its base would be, without following it.
TypeInPack_NoChain(s, o) == IF IsPacked(Find(s, o)) THEN Find(s, o) ELSE Nowhere

\* DB.TypeInPack: the headers alone are followed, inside the pack, to the
\* entry that says what the object is.
TypeInPack(s, o) ==
  LET at[d \in 0..MaxDeltaChain] ==
        IF d = 0 THEN Find(s, o)
        ELSE IF IsDelta(s, at[d - 1]) /\ BaseInPack(s, at[d - 1])
             THEN BaseOf(s, at[d - 1]) ELSE Nowhere
      Ends == {d \in 0..MaxDeltaChain : IsPacked(at[d]) /\ IsWhole(s, at[d])}
  IN  IF Ends = {} THEN Nowhere ELSE at[CHOOSE d \in Ends : TRUE]
=============================================================================
