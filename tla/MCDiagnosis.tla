----------------------------- MODULE MCDiagnosis -----------------------------
(***************************************************************************)
(* Instances of Diagnosis: a tag or commit, a tree or commit below it, and *)
(* a blob.                                                                 *)
(***************************************************************************)
EXTENDS Diagnosis, TLC

L(o, t) == [to |-> o, as |-> t]
Index(ok, e, t) == [ok |-> ok, entries |-> e, trees |-> t, undo |-> e]

Sound ==
  [type |-> <<"commit", "tree", "blob">>,
   links |-> <<{L(2, "tree")}, {L(3, "blob")}, {}>>,
   copy |-> ("loose" :> <<"good", "good", "good">> @@ "alt" :> <<"none", "none", "none">>
             @@ "pack" :> <<"none", "none", "none">>),
   malformed |-> {}, faulty |-> {}, special |-> {},
   refs |-> {1}, branches |-> {1}, own |-> {}, logs |-> {},
   garbled |-> FALSE, unpackable |-> FALSE,
   index |-> Index(TRUE, {}, {}), faults |-> {}]

\* Every way three objects are held loose and in a pack, the blob in an
\* alternate or not, with references to any of them and more in reflogs.
CopyRepos ==
  {[Sound EXCEPT !.copy = ("loose" :> l @@ "alt" :> <<"none", "none", a>> @@ "pack" :> p),
                 !.refs = r[1], !.branches = r[1], !.logs = r[2], !.special = s] :
     l \in [Objects -> Copy], p \in [Objects -> {"none", "good"}] \cup
                                    {<<"none", "bad", "none">>, <<"none", "none", "bad">>},
     a \in {"none", "good"},
     r \in {<<{1}, {}>>, <<{2, 3}, {}>>, <<{2}, {1}>>}, s \in {{}, {3}}}

\* Links that expect another type than they find.
TypedRepos ==
  {[Sound EXCEPT !.type = <<"commit", "commit", "blob">>,
                 !.links = <<{L(2, t)}, {L(3, "tree")}, {}>>,
                 !.copy = ("loose" :> l @@ "alt" :> <<"none", "none", "none">> @@ "pack" :> p),
                 !.refs = r, !.branches = r, !.malformed = m] :
     t \in {"tree", "commit"}, r \in {{1}, {1, 2}, {3}}, m \in {{}, {2}},
     l \in [Objects -> {"none", "good"}], p \in [Objects -> {"none", "good"}]}

\* What the passes beside the objects find.
OtherRepos ==
  {[Sound EXCEPT !.copy["loose"] = l, !.copy["pack"][3] = k,
                 !.garbled = g, !.unpackable = u, !.own = w,
                 !.index = i, !.faults = f, !.faulty = x] :
     l \in [Objects -> {"none", "good"}], k \in Copy, g \in BOOLEAN, u \in BOOLEAN,
     w \in {{}, {3}}, i \in {Index(FALSE, {}, {}), Index(TRUE, {3}, {2})},
     f \in {{}, {"pack", "refs", "rev"}, {"graph", "midx", "bitmap"}, {"midxfatal"}}, x \in {{}, {1}}}

\* A blob that a tree names as .gitmodules and that a reference leads to.
TipRepos ==
  {[Sound EXCEPT !.copy = ("loose" :> <<"none", l, b>> @@ "alt" :> <<"none", "none", a>>
                           @@ "pack" :> <<"none", "none", k>>),
                 !.refs = {3}, !.branches = {}, !.special = s, !.malformed = m] :
     l \in Copy, b \in Copy, a \in Copy, k \in Copy, s \in {{}, {3}}, m \in {{}, {2}}}

\* Entries over which the check of a pack and a read differ, at each height,
\* with the good files they hide, and as a special blob.
EntryRepos ==
  {[Sound EXCEPT !.copy = ("loose" :> l @@ "alt" :> <<"none", "none", "none">> @@ "pack" :> k),
                 !.refs = r[1], !.branches = r[1], !.logs = r[2], !.special = s] :
     l \in [Objects -> {"none", "good"}],
     k \in {<<"none", "ring", "none">>, <<"none", "deep", "none">>, <<"none", "thin", "none">>,
            <<"none", "none", "ring">>, <<"none", "none", "deep">>, <<"none", "none", "thin">>,
            <<"none", "ring", "ring">>, <<"thin", "deep", "bad">>, <<"good", "ring", "good">>},
     r \in {<<{1}, {}>>, <<{2}, {1}>>}, s \in {{}, {3}}}

AllRepos == CopyRepos \cup TypedRepos \cup OtherRepos \cup TipRepos \cup EntryRepos
=============================================================================
