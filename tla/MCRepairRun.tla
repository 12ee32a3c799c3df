----------------------------- MODULE MCRepairRun -----------------------------
(***************************************************************************)
(* Instances of RepairRun: a commit, the commit before it, its tree and a  *)
(* file, in two packs, as loose files and in an alternate; a branch, a     *)
(* packed branch, and two worktrees.                                       *)
(***************************************************************************)
EXTENDS RepairRun, TLC

CONSTANTS tip, old, tree, file, main, side, graph

History == [o \in Objects |-> Objects \cap (CASE o = tip  -> {tree, old}
                                              [] o = tree -> {file}
                                              [] OTHER    -> {})]
Log == [f \in Refs |-> IF f = main THEN <<old, tip>> ELSE <<tree>>]
\* The first worktree's index names the file, which has been edited since, so
\* that only the tree can be had from there; the other index is empty.
InIndex == [w \in Worktrees |-> Objects \cap (IF w = 1 THEN {file} ELSE {})]
FromIndexes == [S \in SUBSET Worktrees |-> IF 1 \in S THEN {tree} ELSE {}]

All(c) == [o \in Objects |-> c]
Both(x, y) == [p \in Packs |-> IF p = 1 THEN x ELSE y]

\* A repository with nothing wrong, and its objects loose.
Sound ==
  [loose |-> All("good"), alt |-> All("none"),
   entry |-> Both(All("none"), All("none")), pack |-> Both("gone", "gone"),
   list |-> {}, broken |-> {},
   ref |-> [f \in Refs |-> "ok"], val |-> [f \in Refs |-> Log[f][Len(Log[f])]],
   prefs |-> "ok", lines |-> <<>>, idx |-> [w \in Worktrees |-> "ok"]]

\* The copies of each object but a file, loose or in the first pack, when the
\* second pack holds the tree as s: the old commit, which has nothing to do with
\* a shadow, is then good.
CopiesBeside(s) ==
  {h \in [Objects -> Copy] : /\ s # "none" => h[old] = "good"
                             /\ file \in Objects => h[file] = "good"}

\* Every way the objects can be held loose and in a pack that may itself be
\* damaged, beside a second pack that may shadow the tree.
ObjectDamage ==
  UNION {{[Sound EXCEPT !.loose = l, !.entry = Both(e, [All("none") EXCEPT ![tree] = s]),
                        !.pack = Both(k, IF s = "none" THEN "gone" ELSE "sound"),
                        !.idx = [w \in Worktrees |-> i]] :
            l \in CopiesBeside(s), e \in CopiesBeside(s)} :
     <<i, s, k>> \in {<<"ok", "none", c>> : c \in {"sound", "headless", "unopened"}}
                   \cup {<<"ok", "good", "sound">>, <<"ok", "good", "unopened">>,
                         <<"ok", "bad", "sound">>, <<"absent", "none", "headless">>}}

\* A line of packed-refs that does not read.
Bad(of, names) == [of |-> of, names |-> names]

\* How the branch and the packed one are, and packed-refs: the lines that do
\* not read are the packed branch's own, whole or in two parts, or one that the
\* file of the other branch has replaced, or both of these run into one, of
\* which the other branch alone is still a word; or the file is only cut short.
RefDamage ==
  {<<m, "ok", "ok", <<>>>> : m \in {"ok", "malformed"}}
  \cup {<<m, "garbled", "bad", <<Bad({side}, {side})>>>> : m \in {"ok", "malformed"}}
  \cup {<<"malformed", "ok", "bad", <<>>>>, <<"ok", "ok", "bad", <<Bad({}, {main})>>>>,
        <<"ok", "garbled", "bad", <<Bad({side}, {}), Bad({}, {side})>>>>,
        <<"ok", "garbled", "bad", <<Bad({side}, {main})>>>>}

\* A few ways to hold the objects, with everything else a scan looks at in
\* order or not.
MixedDamage ==
  {[Sound EXCEPT !.loose = (tip :> a @@ old :> y @@ tree :> b @@ file :> z),
                 !.alt = [All("none") EXCEPT ![file] = v, ![tree] = v],
                 !.entry = Both((tip :> "good" @@ old :> "none" @@ tree :> "bad" @@ file :> "good"),
                                All("none")),
                 !.pack = Both(k, "gone"), !.list = l, !.broken = c,
                 !.ref = [f \in Refs |-> IF f = main THEN m ELSE s],
                 !.prefs = p, !.lines = x, !.idx = [w \in Worktrees |-> i]] :
     <<z, v>> \in {<<"none", "good">>, <<"none", "bad">>, <<"bad", "good">>}, a \in {"none", "bad"},
     <<y, b>> \in {<<"good", "good">>, <<"good", "bad">>, <<"bad", "bad">>},
     k \in {"sumwrong", "gone"}, <<l, c>> \in {<<{1}, {}>>, <<{}, Caches>>},
     <<m, s, p, x>> \in RefDamage,
     i \in {"ok", "bad"}}

\* A pack that has to go, with a second one that answers for the tree when it
\* is gone.
Shadowed ==
  {[Sound EXCEPT !.loose = (tip :> "good" @@ old :> "bad" @@ tree :> a @@ file :> "good"),
                 !.entry = Both((tip :> "bad" @@ old :> "bad" @@ tree :> "good" @@ file :> "none"),
                                [All("none") EXCEPT ![tree] = b]),
                 !.pack = Both("sound", k), !.list = {1, 2}, !.prefs = p] :
     a \in {"none", "bad"}, b \in {"good", "bad"}, k \in {"sound", "sumwrong"}, p \in {"ok", "bad"}}

\* A file that is bad here and good in an alternate is looked at without a pack
\* that has it too.
WholeDamage ==
  {d \in MixedDamage : d.loose[file] = "bad" => d.pack[1] = "gone"} \cup Shadowed

=============================================================================
