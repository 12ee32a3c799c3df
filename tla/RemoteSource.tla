---------------------------- MODULE RemoteSource -----------------------------
(***************************************************************************)
(* The remote at the bottom of the recovery ladder: Sources.Prime          *)
(* (internal/repair/sources.go) and the scratch repository it fetches into *)
(* (internal/repair/remote.go).  A run calls Prime before each pass, with  *)
(* the objects of that pass and a database it has reopened.  One step is   *)
(* one git command, or the code between two.                               *)
(*                                                                         *)
(* git and the remote are external: a command may fail at any time, and a  *)
(* remote may refuse to serve names.                                       *)
(***************************************************************************)
EXTENDS Naturals, Sequences, FiniteSets, SequencesExt

CONSTANTS
  Names,      \* object names
  Links,      \* what each object names
  Remote,     \* what the branches and tags of the remote lead to
  Passes,     \* the passes to consider
  WantBatch,  \* wantBatch
  MaxPasses   \* bound on the passes of a run

\* A pass: the damaged objects, in order, and those of them a local source has.
Pass == [bad : Seq(Names), local : SUBSET Names]

ASSUME RemoteAssumption ==
  /\ Links \in [Names -> SUBSET Names] /\ Remote \subseteq Names
  /\ Passes \subseteq Pass /\ WantBatch \in Nat \ {0} /\ MaxPasses \in Nat \ {0}

VARIABLES
  url,         \* firstRemoteURL: whether there is a remote to ask
  everyRef,    \* RemotePolicy.EveryRef: TRUE in a run, FALSE in a plan
  byName,      \* whether the remote serves names at all
  pass,        \* how many passes have begun
  pc,          \* where Prime is
  need,        \* the names no local source answers, in order
  rest,        \* the names of missing that fetchByName has still to send
  open,        \* Sources.remote is not nil
  remoteErr,   \* Sources.remoteErr
  asked,       \* remoteSource.asked
  everything,  \* remoteSource.everything
  scratch,     \* the objects in the scratch repository
  anchored,    \* the names its references keep
  visible,     \* what remoteSource.db reads
  sent,        \* how often each name has gone out in a fetch
  copies,      \* how often every ref has been fetched
  before       \* what db read when Prime was called

config == <<url, everyRef, byName>>
counters == <<sent, copies>>
vars == <<config, pass, pc, need, rest, open, remoteErr, asked, everything,
          scratch, anchored, visible, counters, before>>

TypeOK ==
  /\ url \in BOOLEAN /\ everyRef \in BOOLEAN /\ byName \in BOOLEAN
  /\ pass \in 0..MaxPasses /\ pc \in {"idle", "open", "want", "byName", "every", "closed"}
  /\ need \in Seq(Names) /\ rest \in Seq(Names)
  /\ open \in BOOLEAN
  /\ remoteErr \in {"none", "noRemote", "init", "wouldClone", "fetch"}
  /\ asked \subseteq anchored /\ everything \in BOOLEAN
  /\ visible \subseteq scratch /\ scratch \subseteq Remote /\ anchored \subseteq scratch
  /\ before \subseteq visible

Init ==
  /\ url \in BOOLEAN /\ everyRef \in BOOLEAN /\ byName \in BOOLEAN
  /\ pass = 0 /\ pc = "idle" /\ need = << >> /\ rest = << >>
  /\ open = FALSE /\ remoteErr = "none" /\ asked = {} /\ everything = FALSE
  /\ scratch = {} /\ anchored = {} /\ visible = {} /\ before = {}
  /\ sent = [o \in Names |-> 0] /\ copies = 0

\* The rung as RepairRun sees it: what it has had since the pass began shows
\* when the pass goes on.
Rung ==
  INSTANCE RemoteRung WITH
    busy <- pc \notin {"idle", "closed"},
    need <- IF pc \in {"idle", "closed"} THEN {} ELSE ToSet(need),
    rung <- [got |-> IF pc \in {"idle", "closed"} THEN visible ELSE before,
             all |-> everything, failed |-> remoteErr # "none"]

(***************************************************************************)
(* Sources.Prime.                                                          *)
(***************************************************************************)

\* The names no local source answers.
Needed(p) ==
  LET out[n \in 0..Len(p.bad)] ==
        IF n = 0 THEN << >>
        ELSE IF p.bad[n] \in p.local THEN out[n - 1] ELSE Append(out[n - 1], p.bad[n])
  IN  out[Len(p.bad)]

\* Mistake: a remote that failed is tried again in the next pass.
Consults_Again(p) == Needed(p) # << >>

\* Whether Prime of a pass comes to the remote at all.
Consults(p) == remoteErr = "none" /\ Needed(p) # << >>

\* Retarget, which keeps the remote and its error, and Prime up to the remote.
\* A plan has one pass.
Prime ==
  /\ pc = "idle" /\ pass < IF everyRef THEN MaxPasses ELSE 1
  /\ pass' = pass + 1 /\ before' = visible
  /\ \E p \in Passes :
       /\ need' = Needed(p)
       /\ pc' = IF ~Consults(p) THEN "idle" ELSE IF open THEN "want" ELSE "open"
  /\ UNCHANGED <<config, rest, open, remoteErr, asked, everything, scratch,
                 anchored, visible, counters>>

\* openRemote; what it has made is removed when it fails.
OpenRemote ==
  /\ pc = "open"
  /\ \/ ~url /\ remoteErr' = "noRemote" /\ pc' = "idle" /\ UNCHANGED open
     \/ url /\ remoteErr' = "init" /\ pc' = "idle" /\ UNCHANGED open
     \/ url /\ open' = TRUE /\ pc' = "want" /\ UNCHANGED remoteErr
  /\ UNCHANGED <<config, pass, need, rest, asked, everything, scratch, anchored,
                 visible, counters, before>>

(***************************************************************************)
(* remoteSource.want.                                                      *)
(***************************************************************************)

\* Mistake: a name that is needed twice goes out twice.
missing_Twice(s) ==
  LET out[n \in 0..Len(s)] ==
        IF n = 0 THEN << >>
        ELSE IF s[n] \in asked \cup visible THEN out[n - 1] ELSE Append(out[n - 1], s[n])
  IN  out[Len(s)]

\* missing: the names not asked for before and not here, each once.
missing(s) ==
  LET out[n \in 0..Len(s)] ==
        IF n = 0 THEN << >>
        ELSE IF s[n] \in asked \cup visible \cup ToSet(out[n - 1]) THEN out[n - 1]
             ELSE Append(out[n - 1], s[n])
  IN  out[Len(s)]

Want ==
  /\ pc = "want"
  /\ \/ /\ everything \/ missing(need) = << >>
        /\ pc' = "idle" /\ UNCHANGED rest
     \/ /\ ~everything /\ missing(need) # << >>
        /\ pc' = "byName" /\ rest' = missing(need)
  /\ UNCHANGED <<config, pass, need, open, remoteErr, asked, everything, scratch,
                 anchored, visible, counters, before>>

Batch == SubSeq(rest, 1, IF Len(rest) < WantBatch THEN Len(rest) ELSE WantBatch)

\* How often the batch has o.
Times(o) == Cardinality({i \in 1..Len(Batch) : Batch[i] = o})

\* A fetch of the next batch of names comes through.  git keeps what it brings
\* as a pack, which db does not see, or as loose objects, which it does.
FetchBatch ==
  /\ pc = "byName" /\ rest # << >> /\ url /\ byName
  /\ Rung!Serves(ToSet(Batch))
  /\ \E b \in Rung!Brought(ToSet(Batch)), loose \in BOOLEAN :
       /\ scratch' = scratch \cup b
       /\ visible' = IF loose THEN visible \cup b ELSE visible
  /\ anchored' = anchored \cup ToSet(Batch)
  /\ sent' = [o \in Names |-> sent[o] + Times(o)]
  /\ rest' = SubSeq(rest, Len(Batch) + 1, Len(rest))
  /\ UNCHANGED <<config, pass, pc, need, open, remoteErr, asked, everything, copies, before>>

\* Mistake: a batch that fails is sent again, and again.
BatchFails_Retry == pc = "byName" /\ rest # << >> /\ UNCHANGED vars

\* It does not: what is left is not sent, and every ref is fetched instead,
\* where the policy allows.
BatchFails ==
  /\ pc = "byName" /\ rest # << >>
  /\ sent' = [o \in Names |-> sent[o] + Times(o)]
  /\ rest' = << >>
  /\ \/ everyRef /\ pc' = "every" /\ UNCHANGED remoteErr
     \/ ~everyRef /\ pc' = "idle" /\ remoteErr' = "wouldClone"
  /\ UNCHANGED <<config, pass, need, open, asked, everything, scratch, anchored,
                 visible, copies, before>>

\* Mistake: what was fetched is not picked up.
reopen_Not == UNCHANGED visible

\* reopen: db reads everything in the scratch repository.
reopen == visible' = scratch'

\* Every batch came through, so each name of missing is kept by a reference.
EndByName ==
  /\ pc = "byName" /\ rest = << >>
  /\ asked' = asked \cup (ToSet(need) \cap anchored)
  /\ UNCHANGED scratch /\ reopen
  /\ pc' = "idle"
  /\ UNCHANGED <<config, pass, need, rest, open, remoteErr, everything, anchored,
                 counters, before>>

\* Mistake: it is not noted that every ref has been fetched.
GotEverything_Forgets == UNCHANGED everything

GotEverything == everything' = TRUE

\* The fetch of every branch and tag.  What lies below a name the scratch
\* repository keeps is taken to be there.
FetchEveryRef ==
  /\ pc = "every" /\ copies' = copies + 1
  /\ pc' = "idle"
  /\ \/ /\ remoteErr' = "fetch"
        /\ UNCHANGED <<scratch, visible, everything>>
     \/ /\ \E out \in SUBSET Rung!Below(anchored) : scratch' = scratch \cup (Remote \ out)
        /\ GotEverything /\ reopen
        /\ UNCHANGED remoteErr
  /\ UNCHANGED <<config, pass, need, rest, open, asked, anchored, sent, before>>

\* Close: the run is over.
Close ==
  /\ pc = "idle" /\ pass > 0
  /\ pc' = "closed"
  /\ UNCHANGED <<config, pass, need, rest, open, remoteErr, asked, everything,
                 scratch, anchored, visible, counters, before>>

Rest == pc = "closed" /\ UNCHANGED vars

want == OpenRemote \/ Want \/ FetchBatch \/ BatchFails \/ EndByName \/ FetchEveryRef

Next == Prime \/ want \/ Close \/ Rest

Spec == Init /\ [][Next]_vars
FairSpec == Spec /\ WF_vars(want)

(***************************************************************************)
(* Properties.                                                             *)
(***************************************************************************)

\* RemoteError
Reported == remoteErr \notin {"none", "noRemote"}

\* docs/repair.md: "Each name asked once".  Over all the passes of a run no
\* name goes out in two fetches, whether the first was answered, refused or
\* lost, and however often a pass needs it (want, missing, fetchByName).
AskedOnce == \A o \in Names : sent[o] <= 1

\* "it runs at most a single time in a run: it costs a copy of the repository":
\* every ref is fetched at most once, even when it fails, and never under a
\* plan (want, Prime).
CopiedOnce == copies <= IF everyRef THEN 1 ELSE 0

\* When a pass goes on, an object it needs that the remote has can be read, or
\* the run can say why not, except for what lies below an object fetched by
\* name before every ref was (Prime, want, reopen, RemoteError).
HadOrExplained ==
  pc = "idle" /\ url => \A o \in ToSet(need) \cap Remote :
    o \in visible \/ Reported \/ (everything /\ o \in Rung!Below(anchored) \ anchored)

\* The types, and that nothing is asked for or copied again (want, missing).
Bookkeeping == TypeOK /\ AskedOnce /\ CopiedOnce

\* Prime, step by step over batches, failures and the fallback, does no more
\* than the one step RepairRun makes of it, and returns (Prime, want).
ImplementsRung == Rung!Promise
=============================================================================
