----------------------------- MODULE MCDeltaWalk -----------------------------
(***************************************************************************)
(* An instance of DeltaWalk: nine entries, in two trees of deltas that are *)
(* walked by two workers at once.                                          *)
(***************************************************************************)
EXTENDS DeltaWalk

Whole == [kind |-> "whole", base |-> 0]
Torn == [kind |-> "unreadable", base |-> 0]
On(b) == [kind |-> "delta", base |-> b]

Sizes == <<3, 1, 2, 1, 1, 1, 2, 1, 1>>

Intact(h) == [opens |-> "yes", idxSum |-> TRUE, packSum |-> TRUE, header |-> h, size |-> Sizes, decodes |-> Entries,
              hashes |-> Entries, crc |-> Entries, fragile |-> {}]

\* Every tree of five entries, each on an earlier one.
Trees == {<<Whole, On(1)>> \o <<On(p), On(q), On(s)>> : p \in 1..2, q \in 1..3, s \in 1..4}

\* A base with another base under it that is not its last child.
Fork == <<Whole, On(6), On(7), On(6)>>
Pair == <<Whole, Whole, On(7), On(1)>>

Forests == {Intact(t \o f) : t \in Trees, f \in {Fork, Pair}}

\* A tree that needs the budget at two levels, next to Fork.
Branched == <<Whole, On(1), On(2), On(3), On(1)>> \o Fork

\* One entry or two that do not decode, hash or match.
Damaged ==
  {[Intact(Branched) EXCEPT !.decodes = Entries \ {x}, !.hashes = Entries \ {y}] :
     x \in {0, 1, 2, 3}, y \in {0, 2, 9}}
  \cup {[Intact(Branched) EXCEPT !.crc = Entries \ {z}] : z \in {1, 8, 9}}

\* Headers that do not read or name no base of the pack, with deltas on them,
\* deltas on later entries, and a cycle with a delta on it.
Odd ==
  {Intact(<<a, On(1), On(2), b, On(4)>> \o Fork) : a \in {Torn, On(0), On(9)}, b \in {Whole, On(5), Torn}}

\* Entries that go bad while the pack is walked.
Fading ==
  {[Intact(Branched) EXCEPT !.fragile = {x, y}] : x \in {1, 2}, y \in {3, 7}}

\* Packs that do not open, or whose hashes are wrong.
Unsealed ==
  {[Intact(Branched) EXCEPT !.opens = o] : o \in {"unopened", "refused"}}
  \cup {[Intact(Branched) EXCEPT !.idxSum = i, !.packSum = ~i] : i \in BOOLEAN}

Packs == Unsealed \cup Forests \cup Damaged \cup Odd \cup Fading
=============================================================================
