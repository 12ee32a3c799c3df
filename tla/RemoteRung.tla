----------------------------- MODULE RemoteRung ------------------------------
(***************************************************************************)
(* What the last rung of the recovery ladder promises the run that climbs  *)
(* it.  Before a pass the run says which names nothing local answers; when *)
(* it goes on, some more objects can be had, or the remote has failed and  *)
(* is not asked again, and that is one step.  RemoteSource shows how the   *)
(* code brings it about, and RepairRun takes its Prime from here.          *)
(***************************************************************************)
EXTENDS Naturals

CONSTANTS
  Names,    \* object names
  Links,    \* what each object names
  Remote    \* what the branches and tags of the remote lead to

VARIABLES
  busy,     \* whether the run waits for the rung
  need,     \* the names it has asked the rung about
  rung      \* what can be had, whether every ref was fetched, whether it failed

rungVars == <<busy, need, rung>>

NoRung == [got |-> {}, all |-> FALSE, failed |-> FALSE]

\* What the objects of S lead to.
Below(S) ==
  LET Closed(T) == S \subseteq T /\ \A o \in T : Links[o] \subseteq T
  IN  {o \in Names : \A T \in SUBSET Names : Closed(T) => o \in T}

\* A fetch by name succeeds only when the remote has every name in it.
Serves(S) == S \subseteq Remote

\* What a fetch of the names of S may bring along: some of what they lead to.
Brought(S) == {S \cup m : m \in SUBSET (Below(S) \cap Remote)}

\* A fetch by name that comes through brings all of w, and the remote has all of it.
ByName(r, w) ==
  {[got |-> r.got \cup b, all |-> FALSE, failed |-> FALSE] :
     b \in IF Serves(w) THEN Brought(w) ELSE {}}

\* Some batches of a fetch by name may have come through when a later one fails.
Parts(w) == UNION {Brought(p) : p \in SUBSET (w \cap Remote)}

\* A fetch of every ref tells the remote what has been fetched by name, and is
\* not sent what lies below that, whether or not it is here.
ByEveryRef(r, w) ==
  UNION {{[got |-> r.got \cup p \cup (Remote \ out), all |-> TRUE, failed |-> FALSE] :
            out \in SUBSET Below(r.got \cup p)} : p \in Parts(w)}

\* Neither comes through.
Fails(r, w) == {[got |-> r.got \cup p, all |-> FALSE, failed |-> TRUE] : p \in Parts(w)}

\* What may become of r when the names of S are wanted.
Outcomes(r, S) ==
  LET wanted == S \ r.got
  IN  IF r.failed \/ r.all \/ wanted = {} THEN {r}
      ELSE ByName(r, wanted) \cup ByEveryRef(r, wanted) \cup Fails(r, wanted)

Init == busy = FALSE /\ need = {} /\ rung = NoRung

\* The run asks about what a pass needs.
Ask ==
  /\ ~busy /\ busy' = TRUE
  /\ need' \in SUBSET Names
  /\ UNCHANGED rung

\* The rung answers.
Answer ==
  /\ busy /\ busy' = FALSE
  /\ rung' \in Outcomes(rung, need)
  /\ need' = {}

Next == Ask \/ Answer

Spec == Init /\ [][Next]_rungVars

\* And the run is not kept waiting.
Promise == Spec /\ []<>~busy
=============================================================================
