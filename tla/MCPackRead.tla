----------------------------- MODULE MCPackRead ------------------------------
(***************************************************************************)
(* An instance of PackRead: four objects in two packs, and two workers.    *)
(***************************************************************************)
EXTENDS PackRead

Absent == [kind |-> "none", base |-> NoObject, inflates |-> FALSE]
Whole(i) == [kind |-> "whole", base |-> NoObject, inflates |-> i]
Torn == [kind |-> "unreadable", base |-> NoObject, inflates |-> FALSE]
Ofs(b, i) == [kind |-> "ofs", base |-> b, inflates |-> i]
Ref(b, i) == [kind |-> "ref", base |-> b, inflates |-> i]

AllAbsent == [o \in Objects |-> Absent]
Loose(S) == [o \in Objects |-> IF o \in S THEN "good" ELSE "none"]

Db(first, second, loose) ==
  [opens |-> [p \in Packs |-> TRUE], entry |-> <<first, second>>, loose |-> loose]

\* A chain of four, longer than a read follows; a bottom that does or does not
\* decode; a cycle beside it.
Deep == {Db(<<b, Ofs(1, TRUE), Ref(2, TRUE), Ofs(3, TRUE)>>, AllAbsent, Loose({})) :
           b \in {Whole(TRUE), Whole(FALSE), Torn}}
Cycle == {Db(<<Whole(TRUE), Ref(3, TRUE), Ref(2, TRUE), Ofs(1, i)>>, AllAbsent, Loose({})) :
            i \in BOOLEAN}
\* A fan, and in the second pack a delta on another copy of its base.
Fan == {Db(<<Whole(TRUE), Ofs(1, TRUE), Ofs(2, i), Absent>>,
           <<Whole(TRUE), Absent, Absent, Ofs(1, TRUE)>>, Loose({})) : i \in BOOLEAN}
\* A thin pack, whose bases are in the other pack, loose or missing, and in
\* front of another copy.
Thin == {Db(<<Absent, Ref(1, TRUE), Ofs(2, TRUE), Ref(2, i)>>,
            <<Whole(TRUE), Absent, Whole(TRUE), Whole(TRUE)>>, Loose({1})) : i \in BOOLEAN}
        \cup {Db(<<Absent, Ref(1, TRUE), Ofs(2, TRUE), Absent>>, AllAbsent, Loose(l)) :
                l \in {{}, {1, 4}}}
\* The first pack does not open.
Shut == {[Db(<<Torn, Torn, Torn, Torn>>,
             <<Whole(TRUE), Ofs(1, TRUE), Absent, Ref(3, TRUE)>>,
             [Loose({3}) EXCEPT ![3] = l]) EXCEPT !.opens[1] = FALSE] :
           l \in {"good", "bad"}}

Databases == Deep \cup Cycle \cup Fan \cup Thin \cup Shut

\* A shard for each pack.  In the first, the content of 3 takes the room of
\* those of 1 and 2; in the second, that of 1 is beyond the limit.
ShardOf == [e \in Places |-> IF e[1] = 2 THEN 2 ELSE 1]
LengthOf == [e \in Places |-> CASE e = <<2, 1>> -> 3 [] e[2] = 3 -> 2 [] OTHER -> 1]
=============================================================================
