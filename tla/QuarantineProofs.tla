--------------------------- MODULE QuarantineProofs ---------------------------
(***************************************************************************)
(* Proofs about Quarantine, for any paths, file systems and runs.          *)
(***************************************************************************)
EXTENDS Quarantine, FiniteSetTheorems, TLAPS

Held == Content \cup {NoFile, Torn}

InRepo(p) == at[Repo][p]
InKept(r, p) == at[Kept(r)][p]
InAside(r, p) == at[Aside(r)][p]

Repairing == pc \in {"ready", "taken", "truncated"}
Undoing == pc \in {"undo", "cleared"}

Moves == [from : Places, to : Places, stage : {"none", "copying", "copied"}]

Kinds ==
  /\ at \in [Places -> [Paths -> Held]] /\ before \in [Runs -> [Paths -> Held]]
  /\ manifest \in [Runs -> Seq(Paths) \cup {NoManifest, CutShort}]
  /\ man \in Seq(Paths) /\ moving \in Moves
  /\ pc \in {"idle", "ready", "taken", "truncated", "undo", "cleared"}
  /\ run \in Runs \cup {NoRun} /\ arg \in Paths \cup {NoFile} /\ left \in Nat
  /\ taken \subseteq Paths /\ started \subseteq Runs /\ written \subseteq Content
  /\ cut \subseteq Runs /\ halted \subseteq Runs

\* The writes to a path can be counted.
Numbered == \A p \in Paths : IsFiniteSet({x \in written : x.path = p})

\* A content stays under its path.
OwnPath == \A pl \in Places, p \in Paths : at[pl][p] \in Content => at[pl][p].path = p

\* A process has a run, and who is idle moves nothing.
Process ==
  /\ IF pc = "idle" THEN run = NoRun /\ moving = NoMove ELSE run \in started
  /\ pc \in {"taken", "truncated"} => arg \in taken /\ moving = NoMove
  /\ Undoing => manifest[run] \in Seq(Paths) /\ left <= Len(manifest[run])
  /\ pc = "cleared" => arg \in Paths /\ left > 0 /\ arg \in Range(manifest[run])

\* A move is a copy between the places the code says, which is torn until it
\* is whole.
Moving ==
  /\ moving.stage = "none" => moving = NoMove
  /\ moving.stage # "none" =>
       /\ arg \in Paths /\ arg \in Foreign
       /\ \/ /\ pc = "ready" /\ moving.from = Repo /\ moving.to = Kept(run)
             /\ arg \notin taken
          \/ /\ pc = "undo" /\ moving.from = Repo /\ moving.to = Aside(run)
             /\ left > 0 /\ arg \in Range(manifest[run])
          \/ pc = "cleared" /\ moving.from = Kept(run) /\ moving.to = Repo
  /\ moving.stage = "copying" => at[moving.to][arg] = Torn
  /\ moving.stage = "copied" => at[moving.to][arg] = at[moving.from][arg]

\* What an undo puts back is there, and nothing is in its way.
Clear ==
  /\ pc = "cleared" \/ (pc = "undo" /\ moving.stage # "none") => InKept(run, arg) # NoFile
  /\ pc = "cleared" /\ moving.stage = "none" => InRepo(arg) = NoFile

\* What the quarantine of a run under way holds, and what its lists say.
Taking ==
  Repairing =>
    /\ \A p \in Paths : InKept(run, p) # NoFile => p \in taken \/ (moving.stage # "none" /\ p = arg)
    /\ \A p \in Paths : InAside(run, p) = NoFile
    /\ \A p \in taken : InKept(run, p) = before[run][p]
    /\ Range(man) = taken
    /\ pc # "truncated" => \A p \in Paths : p \in Range(manifest[run]) => p \in taken
    /\ pc = "ready" => taken \subseteq Range(manifest[run])
    /\ pc = "taken" => taken \ {arg} \subseteq Range(manifest[run])
    /\ pc = "truncated" => manifest[run] = CutShort

\* A run that has not started has nothing.
Unstarted ==
  \A r \in Runs \ started :
    manifest[r] = NoManifest /\ \A p \in Paths : InKept(r, p) = NoFile /\ InAside(r, p) = NoFile

\* What is listed and there is what the run took.
ListedTrue ==
  \A r \in Runs, p \in Paths :
    p \in Range(manifest[r]) /\ InKept(r, p) # NoFile => InKept(r, p) = before[r][p]

\* Nothing is listed short by more than one file, and by none when a run ends.
OneOff ==
  \A r \in Runs :
    manifest[r] = CutShort \/ \E q \in Paths \cup {NoFile} : Unlisted(r) \subseteq {q}
DoneListed == \A r \in Runs \ cut : (Repairing /\ r = run) \/ Unlisted(r) = {}

\* Unless an undo of it was interrupted, what a run has set aside stands in
\* for what it has put back.
AsideClean ==
  \A r \in Runs \ halted, p \in Paths :
    InAside(r, p) # NoFile /\ InKept(r, p) # NoFile =>
      /\ r = run /\ p = arg
      /\ pc = "cleared" \/ (pc = "undo" /\ moving.stage # "none")

IInv ==
  /\ Kinds /\ Numbered /\ OwnPath /\ Process /\ Moving /\ Clear /\ Taking
  /\ Unstarted /\ ListedTrue /\ OneOff /\ DoneListed /\ AsideClean

-----------------------------------------------------------------------------
\* The directories are all different.
LEMMA PlacesDiffer ==
  /\ Repo \in Places
  /\ \A r \in Runs : Kept(r) \in Places /\ Aside(r) \in Places /\ Kept(r) # Repo /\ Aside(r) # Repo
  /\ \A r, q \in Runs : /\ Kept(r) # Aside(q) /\ Aside(r) # Kept(q)
                        /\ Kept(r) = Kept(q) => r = q
                        /\ Aside(r) = Aside(q) => r = q
BY DEF Places, Repo, Kept, Aside

\* NoFile and Torn are no contents.
LEMMA HeldKinds ==
  /\ NoFile \in Held /\ Torn \in Held /\ NoFile # Torn
  /\ NoFile \notin Content /\ Torn \notin Content /\ NoFile \notin Paths
BY QuarantineAssumption DEF Held, Content, Torn

LEMMA WithIs ==
  ASSUME NEW D, NEW fs \in [D -> [Paths -> Held]], NEW d \in D, NEW p \in Paths, NEW c \in Held
  PROVE  /\ With(fs, d, p, c) \in [D -> [Paths -> Held]]
         /\ \A e \in D, q \in Paths :
              With(fs, d, p, c)[e][q] = IF e = d /\ q = p THEN c ELSE fs[e][q]
<1>1. fs[d] \in [Paths -> Held]
  OBVIOUS
<1>2. [fs[d] EXCEPT ![p] = c] \in [Paths -> Held]
  BY <1>1
<1>3. With(fs, d, p, c) = [fs EXCEPT ![d] = [fs[d] EXCEPT ![p] = c]]
  BY DEF With
<1> DEFINE g == [fs[d] EXCEPT ![p] = c]
<1>4. \A q \in Paths : g[q] = IF q = p THEN c ELSE fs[d][q]
  BY <1>1
<1> HIDE DEF g
<1> QED
  BY <1>2, <1>3, <1>4 DEF g

\* What a list names.
LEMMA ListNames ==
  /\ Range(<< >>) = {}
  /\ Range(NoManifest) = {"none"} /\ Range(CutShort) = {"cut short"}
  /\ \A s \in Seq(Paths) :
       /\ Range(s) \subseteq Paths
       /\ \A p \in Paths : Range(Append(s, p)) = Range(s) \cup {p}
       /\ \A i \in 1..Len(s) : s[i] \in Range(s)
<1>1. Range(<< >>) = {}
  BY DEF Range
<1>2. Range(NoManifest) = {"none"} /\ Range(CutShort) = {"cut short"}
  <2>1. /\ DOMAIN NoManifest = {1} /\ NoManifest[1] = "none"
        /\ DOMAIN CutShort = {1} /\ CutShort[1] = "cut short"
    BY DEF NoManifest, CutShort
  <2> QED
    BY <2>1 DEF Range
<1>3. ASSUME NEW s \in Seq(Paths)
      PROVE  /\ Range(s) \subseteq Paths
             /\ \A i \in 1..Len(s) : s[i] \in Range(s)
  BY DEF Range
<1>4. ASSUME NEW s \in Seq(Paths), NEW p \in Paths
      PROVE  Range(Append(s, p)) = Range(s) \cup {p}
  <2> DEFINE ap == Append(s, p)
  <2>1. /\ DOMAIN s = 1..Len(s) /\ DOMAIN ap = 1..(Len(s) + 1) /\ Len(s) \in Nat
        /\ ap[Len(s) + 1] = p /\ \A i \in 1..Len(s) : ap[i] = s[i]
    OBVIOUS
  <2> HIDE DEF ap
  <2>2. Range(ap) = Range(s) \cup {p}
    BY <2>1 DEF Range
  <2> QED
    BY <2>2 DEF ap
<1> QED
  BY <1>1, <1>2, <1>3, <1>4

-----------------------------------------------------------------------------
\* What a step does to the directories.

LEMMA RenameIs ==
  ASSUME Kinds, NEW p \in Paths, NEW from \in Places, NEW to \in Places, Rename(p, from, to)
  PROVE  /\ at' \in [Places -> [Paths -> Held]]
         /\ \A pl \in Places, q \in Paths :
              at'[pl][q] = IF pl = from /\ q = p THEN NoFile
                           ELSE IF pl = to /\ q = p THEN at[from][p] ELSE at[pl][q]
<1> DEFINE g == With(at, to, p, at[from][p])
<1>1. at \in [Places -> [Paths -> Held]] /\ at[from][p] \in Held
  BY DEF Kinds
<1>2. /\ g \in [Places -> [Paths -> Held]]
      /\ \A pl \in Places, q \in Paths :
           g[pl][q] = IF pl = to /\ q = p THEN at[from][p] ELSE at[pl][q]
  BY <1>1, WithIs
<1>3. at' = With(g, from, p, NoFile)
  BY DEF Rename
<1> HIDE DEF g
<1> DEFINE h == With(g, from, p, NoFile)
<1>4. /\ h \in [Places -> [Paths -> Held]]
      /\ \A pl \in Places, q \in Paths :
           h[pl][q] = IF pl = from /\ q = p THEN NoFile ELSE g[pl][q]
  BY <1>2, WithIs, HeldKinds
<1> HIDE DEF h
<1>5. at' = h
  BY <1>3 DEF h
<1> QED
  BY <1>2, <1>4, <1>5

\* One path of one directory changes.
LEMMA OneChange ==
  ASSUME Kinds, NEW p \in Paths, NEW d \in Places, NEW c \in Held, at' = With(at, d, p, c)
  PROVE  /\ at' \in [Places -> [Paths -> Held]]
         /\ \A pl \in Places, q \in Paths :
              at'[pl][q] = IF pl = d /\ q = p THEN c ELSE at[pl][q]
<1> DEFINE h == With(at, d, p, c)
<1>1. at \in [Places -> [Paths -> Held]]
  BY DEF Kinds
<1>2. /\ h \in [Places -> [Paths -> Held]]
      /\ \A pl \in Places, q \in Paths : h[pl][q] = IF pl = d /\ q = p THEN c ELSE at[pl][q]
  BY <1>1, WithIs
<1>3. at' = h
  OBVIOUS
<1> HIDE DEF h
<1> QED
  BY <1>2, <1>3

LEMMA BeforeChange ==
  ASSUME Kinds, NEW p \in Paths, run \in Runs, Remember(p)
  PROVE  /\ before' \in [Runs -> [Paths -> Held]]
         /\ \A r \in Runs, q \in Paths :
              before'[r][q] = IF r = run /\ q = p THEN at[Repo][p] ELSE before[r][q]
<1>1. at[Repo][p] \in Held /\ before \in [Runs -> [Paths -> Held]]
  BY PlacesDiffer DEF Kinds
<1> DEFINE h == With(before, run, p, at[Repo][p])
<1>2. /\ h \in [Runs -> [Paths -> Held]]
      /\ \A r \in Runs, q \in Paths :
           h[r][q] = IF r = run /\ q = p THEN at[Repo][p] ELSE before[r][q]
  BY <1>1, WithIs
<1>3. before' = h
  BY DEF Remember
<1> HIDE DEF h
<1> QED
  BY <1>2, <1>3

\* What a run adds to its list is what it has taken.
LEMMA AppendIs ==
  ASSUME Kinds, NEW p \in Paths, man' = Append(man, p), taken' = taken \cup {p}, Range(man) = taken
  PROVE  man' \in Seq(Paths) /\ Range(man') = taken'
<1>1. man \in Seq(Paths)
  BY DEF Kinds
<1>2. Append(man, p) \in Seq(Paths)
  BY <1>1
<1>3. Range(Append(man, p)) = Range(man) \cup {p}
  BY <1>1, ListNames
<1> QED
  BY <1>2, <1>3

\* A run that starts has nothing.
LEMMA StartRunKeeps ==
  ASSUME IInv, NEW r \in Runs, StartRun(r)
  PROVE  IInv'
<1> USE PlacesDiffer, HeldKinds DEF IInv
<1>1. /\ r \notin started /\ pc = "idle" /\ run = NoRun /\ moving = NoMove
      /\ NoRun \notin Runs /\ NoMove \in Moves /\ moving' = NoMove
      /\ started' = started \cup {r} /\ run' = r /\ pc' = "ready" /\ man' = <<>> /\ taken' = {}
      /\ UNCHANGED <<at, manifest, arg, moving, left, before, written, cut, halted>>
  BY QuarantineAssumption DEF StartRun, Process, NoMove, Moves
<1>2. /\ manifest[r] = NoManifest /\ Range(manifest[r]) \cap Paths = {} /\ Range(man') = {}
      /\ \A q \in Paths : InKept(r, q) = NoFile /\ InAside(r, q) = NoFile
  BY <1>1, ListNames, QuarantineAssumption, ZenonT(60) DEF Unstarted
<1>3. Kinds'
  BY <1>1 DEF Kinds
<1>4. Numbered'
  BY <1>1 DEF Numbered
<1>5. OwnPath'
  BY <1>1 DEF OwnPath
<1>6. Process'
  BY <1>1 DEF Process, Repairing, Undoing
<1>7. Moving'
  BY <1>1 DEF Moving
<1>8. Clear'
  BY <1>1 DEF Clear, InKept, InRepo
<1>9. Taking'
  BY <1>1, <1>2 DEF Taking, Repairing, InKept, InAside
<1>10. Unstarted'
  BY <1>1 DEF Unstarted, InKept, InAside
<1>11. ListedTrue'
  BY <1>1 DEF ListedTrue, InKept
<1>12. OneOff'
  BY <1>1 DEF OneOff, Unlisted
<1>13. DoneListed'
  BY <1>1 DEF DoneListed, Unlisted, Repairing
<1>14. AsideClean'
  BY <1>1 DEF AsideClean, InAside, InKept
<1> QED
  BY <1>3, <1>4, <1>5, <1>6, <1>7, <1>8, <1>9, <1>10, <1>11, <1>12, <1>13, <1>14

\* The manifest is being written anew.
LEMMA TruncateKeeps ==
  ASSUME IInv, TruncateManifest
  PROVE  IInv'
<1> USE PlacesDiffer, HeldKinds DEF IInv
<1>1. /\ pc = "taken" /\ pc' = "truncated" /\ run \in started /\ run \in Runs
      /\ moving = NoMove /\ arg \in taken
      /\ UNCHANGED <<at, man, run, arg, moving, left, taken, started, before, written, cut,
                    halted>>
  BY DEF TruncateManifest, Process, Kinds, history
<1>2. /\ manifest' \in [Runs -> Seq(Paths) \cup {NoManifest, CutShort}]
      /\ \A r \in Runs : manifest'[r] = IF r = run THEN CutShort ELSE manifest[r]
  BY <1>1 DEF TruncateManifest, Kinds
<1>3. Range(CutShort) \cap Paths = {}
  BY ListNames, QuarantineAssumption
<1>4. Kinds'
  BY <1>1, <1>2 DEF Kinds
<1>5. Numbered'
  BY <1>1 DEF Numbered
<1>6. OwnPath'
  BY <1>1 DEF OwnPath
<1>7. Process'
  BY <1>1 DEF Process, Repairing, Undoing
<1>8. Moving'
  BY <1>1 DEF Moving
<1>9. Clear'
  BY <1>1 DEF Clear, InKept, InRepo
<1>10. Taking'
  BY <1>1, <1>2 DEF Taking, Repairing, InKept, InAside
<1>11. Unstarted'
  BY <1>1, <1>2 DEF Unstarted, InKept, InAside
<1>12. ListedTrue'
  BY <1>1, <1>2, <1>3 DEF ListedTrue, InKept
<1>13. OneOff'
  BY <1>1, <1>2 DEF OneOff, Unlisted
<1>14. DoneListed'
  BY <1>1, <1>2 DEF DoneListed, Unlisted, Repairing
<1>15. AsideClean'
  BY <1>1 DEF AsideClean, InAside, InKept
<1> QED
  BY <1>4, <1>5, <1>6, <1>7, <1>8, <1>9, <1>10, <1>11, <1>12, <1>13, <1>14, <1>15

\* The manifest names what the run took.
LEMMA FillKeeps ==
  ASSUME IInv, FillManifest
  PROVE  IInv'
<1> USE PlacesDiffer, HeldKinds DEF IInv
<1>1. /\ pc = "truncated" /\ pc' = "ready" /\ run \in started /\ run \in Runs
      /\ moving = NoMove /\ man \in Seq(Paths)
      /\ UNCHANGED <<at, man, run, arg, moving, left, taken, started, before, written, cut,
                    halted>>
  BY DEF FillManifest, Process, Kinds, history
<1>2. /\ manifest' \in [Runs -> Seq(Paths) \cup {NoManifest, CutShort}]
      /\ \A r \in Runs : manifest'[r] = IF r = run THEN man ELSE manifest[r]
  BY <1>1 DEF FillManifest, Kinds
<1>3. /\ Range(man) = taken
      /\ \A q \in Paths : InKept(run, q) # NoFile => q \in taken
      /\ \A q \in taken : InKept(run, q) = before[run][q]
  BY <1>1 DEF Taking, Repairing, NoMove
<1>4. Unlisted(run)' = {} /\ \A r \in Runs \ {run} : Unlisted(r)' = Unlisted(r)
  BY <1>1, <1>2, <1>3 DEF Unlisted, InKept
<1>5. Kinds'
  BY <1>1, <1>2 DEF Kinds
<1>6. Numbered'
  BY <1>1 DEF Numbered
<1>7. OwnPath'
  BY <1>1 DEF OwnPath
<1>8. Process'
  BY <1>1 DEF Process, Repairing, Undoing
<1>9. Moving'
  BY <1>1 DEF Moving
<1>10. Clear'
  BY <1>1 DEF Clear, InKept, InRepo
<1>11. Taking'
  BY <1>1, <1>2 DEF Taking, Repairing, InKept, InAside
<1>12. Unstarted'
  BY <1>1, <1>2 DEF Unstarted, InKept, InAside
<1>13. ListedTrue'
  BY <1>1, <1>2, <1>3 DEF ListedTrue, InKept
<1>14. OneOff'
  BY <1>1, <1>2, <1>4 DEF OneOff
<1>15. DoneListed'
  BY <1>1, <1>4 DEF DoneListed, Repairing
<1>16. AsideClean'
  BY <1>1 DEF AsideClean, InAside, InKept
<1> QED
  BY <1>5, <1>6, <1>7, <1>8, <1>9, <1>10, <1>11, <1>12, <1>13, <1>14, <1>15, <1>16

\* However a process ends, it leaves at most the file of one move behind.
LEMMA ExitKeeps ==
  ASSUME IInv, Exit, pc # "idle", at' \in [Places -> [Paths -> Held]],
         \A pl \in Places, q \in Paths : at'[pl][q] \in {at[pl][q], NoFile},
         UNCHANGED <<manifest, started, before, written>>,
         cut \subseteq cut', cut' \subseteq Runs, halted \subseteq halted', halted' \subseteq Runs,
         Repairing => run \in cut' \/ Unlisted(run) = {},
         run \in halted' \/ \A q \in Paths : InAside(run, q) = NoFile \/ InKept(run, q) = NoFile
  PROVE  IInv'
<1> USE PlacesDiffer, HeldKinds DEF IInv
<1>1. /\ pc' = "idle" /\ run' = NoRun /\ man' = <<>> /\ arg' = NoFile /\ moving' = NoMove
      /\ left' = 0 /\ taken' = {} /\ run \in Runs /\ NoMove \in Moves /\ NoMove.stage = "none"
  BY DEF Exit, Process, Kinds, NoMove, Moves
<1>2. Kinds'
  BY <1>1 DEF Kinds
<1>3. Numbered'
  BY <1>1 DEF Numbered
<1>4. OwnPath'
  BY <1>1 DEF OwnPath
<1>5. Process'
  BY <1>1 DEF Process, Repairing, Undoing
<1>6. Moving'
  BY <1>1 DEF Moving
<1>7. Clear'
  BY <1>1 DEF Clear, InKept, InRepo
<1>8. Taking'
  BY <1>1 DEF Taking, Repairing, InKept, InAside
<1>9. Unstarted'
  BY <1>1 DEF Unstarted, InKept, InAside
<1>10. ListedTrue'
  BY <1>1 DEF ListedTrue, InKept
<1>11. OneOff'
  BY <1>1 DEF OneOff, Unlisted
<1>12. DoneListed'
  BY <1>1 DEF DoneListed, Unlisted, Repairing
<1>13. AsideClean'
  BY <1>1 DEF AsideClean, InAside, InKept
<1> QED
  BY <1>2, <1>3, <1>4, <1>5, <1>6, <1>7, <1>8, <1>9, <1>10, <1>11, <1>12, <1>13

\* A file is moved and not yet listed.
LEMMA TakeRenameKeeps ==
  ASSUME IInv, NEW p \in Paths, TakeRename(p)
  PROVE  IInv'
<1> USE PlacesDiffer, HeldKinds DEF IInv
<1>1. /\ pc = "ready" /\ run \in started /\ run \in Runs /\ moving = NoMove /\ p \notin taken
      /\ pc' = "taken" /\ arg' = p /\ man' = Append(man, p) /\ taken' = taken \cup {p}
      /\ UNCHANGED <<manifest, run, moving, left, started, written, cut, halted>>
  BY DEF TakeRename, MayTake, Process, Kinds
<1>2. /\ at' \in [Places -> [Paths -> Held]]
      /\ \A pl \in Places, q \in Paths :
           at'[pl][q] = IF pl = Repo /\ q = p THEN NoFile
                        ELSE IF pl = Kept(run) /\ q = p THEN at[Repo][p] ELSE at[pl][q]
  BY <1>1, RenameIs DEF TakeRename
<1>3. \A r \in Runs, q \in Paths :
          /\ at'[Kept(r)][q] = IF r = run /\ q = p THEN at[Repo][p] ELSE at[Kept(r)][q]
          /\ at'[Aside(r)][q] = at[Aside(r)][q]
          /\ at'[Repo][q] = IF q = p THEN NoFile ELSE at[Repo][q]
  BY <1>1, <1>2
<1>4. /\ before' \in [Runs -> [Paths -> Held]]
      /\ \A r \in Runs, q \in Paths :
           before'[r][q] = IF r = run /\ q = p THEN at[Repo][p] ELSE before[r][q]
  BY <1>1, BeforeChange DEF TakeRename
<1>5. /\ \A q \in Paths : InKept(run, q) # NoFile => q \in taken
      /\ \A q \in Paths : InAside(run, q) = NoFile
      /\ \A q \in taken : InKept(run, q) = before[run][q]
      /\ taken \subseteq Range(manifest[run]) /\ Range(man) = taken
      /\ \A q \in Paths : q \in Range(manifest[run]) => q \in taken
      /\ taken \subseteq Paths
  BY <1>1 DEF Taking, Repairing, NoMove, Kinds
<1>6. man' \in Seq(Paths) /\ Range(man') = taken'
  BY <1>1, <1>5, AppendIs
<1>7. /\ Unlisted(run)' \subseteq {p} /\ \A r \in Runs \ {run} : Unlisted(r)' = Unlisted(r)
  BY <1>1, <1>3, <1>5 DEF Unlisted, InKept
<1>8. Kinds'
  BY <1>1, <1>2, <1>4 DEF Kinds
<1>9. Numbered'
  BY <1>1 DEF Numbered
<1>10. OwnPath'
  BY <1>1, <1>2, SMTT(30) DEF OwnPath
<1>11. Process'
  BY <1>1 DEF Process, Repairing, Undoing
<1>12. Moving'
  BY <1>1 DEF Moving, NoMove
<1>13. Clear'
  BY <1>1 DEF Clear, InKept, InRepo
<1>14. Taking'
  <2>1. \A q \in Paths : InKept(run, q)' # NoFile => q \in taken'
    BY <1>1, <1>3, <1>5 DEF InKept
  <2>2. \A q \in Paths : InAside(run, q)' = NoFile
    BY <1>1, <1>3, <1>5 DEF InAside
  <2>3. \A q \in taken' : InKept(run, q)' = before'[run][q]
    BY <1>1, <1>3, <1>4, <1>5 DEF InKept
  <2>4. \A q \in Paths : q \in Range(manifest'[run]) => q \in taken'
    BY <1>1, <1>5
  <2>5. taken' \ {arg'} \subseteq Range(manifest'[run])
    BY <1>1, <1>5
  <2> QED
    BY <1>1, <1>6, <2>1, <2>2, <2>3, <2>4, <2>5 DEF Taking, Repairing, InKept, InAside
<1>15. Unstarted'
  BY <1>1, <1>3 DEF Unstarted, InKept, InAside
<1>16. ListedTrue'
  BY <1>1, <1>2, <1>4 DEF ListedTrue, InKept
<1>17. OneOff'
  BY <1>1, <1>7 DEF OneOff
<1>18. DoneListed'
  BY <1>1, <1>7 DEF DoneListed, Repairing
<1>19. AsideClean'
  BY <1>1, <1>2, <1>5, <1>7 DEF AsideClean, InAside, InKept
<1> QED
  BY <1>8, <1>9, <1>10, <1>11, <1>12, <1>13, <1>14, <1>15, <1>16, <1>17, <1>18, <1>19

\* A file is being copied; it is in the quarantine in part.
LEMMA TakeCopyKeeps ==
  ASSUME IInv, NEW p \in Paths, TakeCopy(p)
  PROVE  IInv'
<1> USE PlacesDiffer, HeldKinds DEF IInv
<1>1. /\ pc = "ready" /\ run \in started /\ run \in Runs /\ moving = NoMove /\ p \notin taken
      /\ p \in Foreign /\ arg' = p
      /\ moving' = [from |-> Repo, to |-> Kept(run), stage |-> "copying"]
      /\ UNCHANGED <<manifest, man, run, pc, left, taken, started, before, written, cut,
                    halted>>
  BY DEF TakeCopy, MayTake, CopyStart, Process, Kinds, history
<1>2. /\ moving' \in Moves /\ moving'.stage = "copying" /\ moving'.from = Repo
      /\ moving'.to = Kept(run)
  BY <1>1 DEF Moves
<1>3. /\ at' \in [Places -> [Paths -> Held]]
      /\ \A pl \in Places, q \in Paths :
           at'[pl][q] = IF pl = Kept(run) /\ q = p THEN Torn ELSE at[pl][q]
  BY <1>1, OneChange DEF TakeCopy, CopyStart
<1>4. \A r \in Runs, q \in Paths :
          /\ at'[Kept(r)][q] = IF r = run /\ q = p THEN Torn ELSE at[Kept(r)][q]
          /\ at'[Aside(r)][q] = at[Aside(r)][q]
          /\ at'[Repo][q] = at[Repo][q]
  BY <1>1, <1>3
<1>5. /\ \A q \in Paths : InKept(run, q) # NoFile => q \in taken
      /\ \A q \in Paths : InAside(run, q) = NoFile
      /\ \A q \in taken : InKept(run, q) = before[run][q]
      /\ taken \subseteq Range(manifest[run]) /\ Range(man) = taken
      /\ \A q \in Paths : q \in Range(manifest[run]) => q \in taken
      /\ taken \subseteq Paths
  BY <1>1 DEF Taking, Repairing, NoMove, Kinds
<1>6. /\ Unlisted(run)' \subseteq {p} /\ \A r \in Runs \ {run} : Unlisted(r)' = Unlisted(r)
  BY <1>1, <1>4, <1>5 DEF Unlisted, InKept
<1>7. Kinds'
  BY <1>1, <1>2, <1>3 DEF Kinds
<1>8. Numbered'
  BY <1>1 DEF Numbered
<1>9. OwnPath'
  BY <1>1, <1>3 DEF OwnPath
<1>10. Process'
  BY <1>1 DEF Process, Repairing, Undoing
<1>11. Moving'
  BY <1>1, <1>3 DEF Moving
<1>12. Clear'
  BY <1>1 DEF Clear, InKept, InRepo
<1>13. Taking'
  BY <1>1, <1>3, <1>5 DEF Taking, Repairing, InKept, InAside
<1>14. Unstarted'
  BY <1>1, <1>3 DEF Unstarted, InKept, InAside
<1>15. ListedTrue'
  BY <1>1, <1>3, <1>5 DEF ListedTrue, InKept
<1>16. OneOff'
  BY <1>1, <1>6 DEF OneOff
<1>17. DoneListed'
  BY <1>1, <1>6 DEF DoneListed, Repairing
<1>18. AsideClean'
  BY <1>1, <1>3, <1>5 DEF AsideClean, InAside, InKept
<1> QED
  BY <1>7, <1>8, <1>9, <1>10, <1>11, <1>12, <1>13, <1>14, <1>15, <1>16, <1>17, <1>18

\* The source of a copy goes, and what is in the quarantine is whole.
LEMMA TakeRemoveKeeps ==
  ASSUME IInv, TakeRemove
  PROVE  IInv'
<1> USE PlacesDiffer, HeldKinds DEF IInv
<1>1. /\ pc = "ready" /\ run \in started /\ run \in Runs /\ moving.stage = "copied"
      /\ arg \in Paths /\ arg \notin taken
      /\ moving.from = Repo /\ moving.to = Kept(run) /\ at[Kept(run)][arg] = at[Repo][arg]
      /\ moving' = NoMove /\ NoMove \in Moves /\ NoMove.stage = "none"
      /\ pc' = "taken" /\ man' = Append(man, arg) /\ taken' = taken \cup {arg}
      /\ UNCHANGED <<manifest, run, arg, left, started, written, cut, halted>>
  BY DEF TakeRemove, RemoveSource, Moving, Process, Kinds, NoMove, Moves
<1>2. /\ at' \in [Places -> [Paths -> Held]]
      /\ \A pl \in Places, q \in Paths :
           at'[pl][q] = IF pl = Repo /\ q = arg THEN NoFile ELSE at[pl][q]
  BY <1>1, OneChange DEF TakeRemove, RemoveSource
<1>3. \A r \in Runs, q \in Paths :
          /\ at'[Kept(r)][q] = at[Kept(r)][q]
          /\ at'[Aside(r)][q] = at[Aside(r)][q]
          /\ at'[Repo][q] = IF q = arg THEN NoFile ELSE at[Repo][q]
  BY <1>1, <1>2
<1>4. /\ before' \in [Runs -> [Paths -> Held]]
      /\ \A r \in Runs, q \in Paths :
           before'[r][q] = IF r = run /\ q = arg THEN at[Repo][arg] ELSE before[r][q]
  BY <1>1, BeforeChange DEF TakeRemove
<1>5. /\ \A q \in Paths : InKept(run, q) # NoFile => q \in taken \/ q = arg
      /\ \A q \in Paths : InAside(run, q) = NoFile
      /\ \A q \in taken : InKept(run, q) = before[run][q]
      /\ taken \subseteq Range(manifest[run]) /\ Range(man) = taken
      /\ \A q \in Paths : q \in Range(manifest[run]) => q \in taken
      /\ taken \subseteq Paths
  BY <1>1 DEF Taking, Repairing, Kinds
<1>6. man' \in Seq(Paths) /\ Range(man') = taken'
  BY <1>1, <1>5, AppendIs
<1>7. /\ Unlisted(run)' \subseteq {arg} /\ \A r \in Runs \ {run} : Unlisted(r)' = Unlisted(r)
  BY <1>1, <1>3, <1>5 DEF Unlisted, InKept
<1>8. Kinds'
  BY <1>1, <1>2, <1>4 DEF Kinds
<1>9. Numbered'
  BY <1>1 DEF Numbered
<1>10. OwnPath'
  BY <1>1, <1>2 DEF OwnPath
<1>11. Process'
  BY <1>1 DEF Process, Repairing, Undoing
<1>12. Moving'
  BY <1>1 DEF Moving
<1>13. Clear'
  BY <1>1 DEF Clear, InKept, InRepo
<1>14. Taking'
  <2>1. \A q \in Paths : InKept(run, q)' # NoFile => q \in taken'
    BY <1>1, <1>3, <1>5 DEF InKept
  <2>2. \A q \in Paths : InAside(run, q)' = NoFile
    BY <1>1, <1>3, <1>5 DEF InAside
  <2>3. \A q \in taken' : InKept(run, q)' = before'[run][q]
    BY <1>1, <1>3, <1>4, <1>5 DEF InKept
  <2>4. \A q \in Paths : q \in Range(manifest'[run]) => q \in taken'
    BY <1>1, <1>5
  <2>5. taken' \ {arg'} \subseteq Range(manifest'[run])
    BY <1>1, <1>5
  <2> QED
    BY <1>1, <1>6, <2>1, <2>2, <2>3, <2>4, <2>5 DEF Taking, Repairing, InKept, InAside
<1>15. Unstarted'
  BY <1>1, <1>3 DEF Unstarted, InKept, InAside
<1>16. ListedTrue'
  BY <1>1, <1>2, <1>4, <1>7 DEF ListedTrue, InKept
<1>17. OneOff'
  BY <1>1, <1>7 DEF OneOff
<1>18. DoneListed'
  BY <1>1, <1>7 DEF DoneListed, Repairing
<1>19. AsideClean'
  BY <1>1, <1>2 DEF AsideClean, InAside, InKept
<1> QED
  BY <1>8, <1>9, <1>10, <1>11, <1>12, <1>13, <1>14, <1>15, <1>16, <1>17, <1>18, <1>19

\* A copy is whole; what was there of it was torn.
LEMMA CopyEndKeeps ==
  ASSUME IInv, CopyEnd
  PROVE  IInv'
<1> USE PlacesDiffer, HeldKinds DEF IInv
<1>1. /\ moving.stage = "copying" /\ arg \in Paths /\ arg \in Foreign /\ run \in started
      /\ run \in Runs
      /\ moving.to \in Places /\ moving.from \in Places /\ at[moving.to][arg] = Torn
      /\ \/ pc = "ready" /\ moving.from = Repo /\ moving.to = Kept(run) /\ arg \notin taken
         \/ pc = "undo" /\ moving.from = Repo /\ moving.to = Aside(run)
         \/ pc = "cleared" /\ moving.from = Kept(run) /\ moving.to = Repo
      /\ UNCHANGED <<manifest, man, run, pc, arg, left, taken, started, before, written,
                    cut, halted>>
  BY DEF CopyEnd, Moving, Process, Kinds, Moves, history
<1>2. /\ moving' \in Moves /\ moving'.stage = "copied" /\ moving # NoMove
      /\ moving'.from = moving.from /\ moving'.to = moving.to
  BY <1>1, SMTT(30) DEF CopyEnd, Kinds, Moves, NoMove
<1>3. at[moving.from][arg] \in Held
  BY <1>1 DEF Kinds
<1>4. /\ at' \in [Places -> [Paths -> Held]]
      /\ \A pl \in Places, q \in Paths :
           at'[pl][q] = IF pl = moving.to /\ q = arg THEN at[moving.from][arg] ELSE at[pl][q]
  BY <1>1, <1>3, OneChange DEF CopyEnd
<1>5. \A r \in Runs, q \in Paths :
          /\ at'[Kept(r)][q] # NoFile => at[Kept(r)][q] # NoFile
          /\ at'[Aside(r)][q] # NoFile => at[Aside(r)][q] # NoFile
          /\ at'[Kept(r)][q] # at[Kept(r)][q] => pc = "ready" /\ r = run /\ q = arg
          /\ at'[Aside(r)][q] # at[Aside(r)][q] => pc = "undo"
  BY <1>1, <1>4
<1>6. pc = "ready" => arg \notin Range(manifest[run])
  BY <1>1 DEF Taking, Repairing
<1>7. Kinds'
  BY <1>1, <1>2, <1>4 DEF Kinds
<1>8. Numbered'
  BY <1>1 DEF Numbered
<1>9. OwnPath'
  BY <1>1, <1>3, <1>4 DEF OwnPath
<1>10. Process'
  BY <1>1 DEF Process, Repairing, Undoing
<1>11. Moving'
  BY <1>1, <1>2, <1>4 DEF Moving
<1>12. Clear'
  BY <1>1, <1>2, <1>5 DEF Clear, InKept, InRepo
<1>13. Taking'
  <2>1. Repairing => \A q \in Paths : InAside(run, q)' = NoFile
    BY <1>1, <1>5 DEF InAside, Taking, Repairing
  <2>2. Repairing => \A q \in taken : InKept(run, q)' = InKept(run, q)
    BY <1>1, <1>5 DEF InKept, Kinds
  <2>3. Repairing => \A q \in Paths : InKept(run, q)' # NoFile => InKept(run, q) # NoFile
    BY <1>1, <1>5 DEF InKept
  <2> QED
    BY <1>1, <1>2, <2>1, <2>2, <2>3 DEF Taking, Repairing
<1>14. Unstarted'
  BY <1>1, <1>4 DEF Unstarted, InKept, InAside
<1>15. ListedTrue'
  BY <1>1, <1>4, <1>6 DEF ListedTrue, InKept
<1>16. OneOff'
  <2>1. \A r \in Runs : Unlisted(r)' \subseteq Unlisted(r)
    BY <1>1, <1>5 DEF Unlisted
  <2> QED
    BY <1>1, <2>1 DEF OneOff
<1>17. DoneListed'
  <2>1. \A r \in Runs : Unlisted(r)' \subseteq Unlisted(r)
    BY <1>1, <1>5 DEF Unlisted
  <2> QED
    BY <1>1, <2>1 DEF DoneListed, Repairing
<1>18. AsideClean'
  BY <1>1, <1>2, <1>5 DEF AsideClean, InAside, InKept
<1> QED
  BY <1>7, <1>8, <1>9, <1>10, <1>11, <1>12, <1>13, <1>14, <1>15, <1>16, <1>17, <1>18

\* A file is written where there is none.
LEMMA FreshKeeps ==
  ASSUME IInv, NEW p \in Paths, Fresh(p), pc \in {"idle", "ready"}, moving = NoMove,
         UNCHANGED <<manifest, process, started, before, cut, halted>>
  PROVE  IInv'
<1> USE PlacesDiffer, HeldKinds DEF IInv
<1>1. /\ pc \notin {"undo", "cleared", "taken", "truncated"} /\ NoMove.stage = "none"
      /\ UNCHANGED <<manifest, man, run, pc, arg, moving, left, taken, started, before,
                    cut, halted>>
  BY DEF process, NoMove
<1>2. PICK c \in Content : c.path = p /\ at' = With(at, Repo, p, c) /\ written' = written \cup {c}
  BY FS_CardinalityType DEF Fresh, Numbered, Content
<1>3. /\ at' \in [Places -> [Paths -> Held]]
      /\ \A pl \in Places, q \in Paths :
           at'[pl][q] = IF pl = Repo /\ q = p THEN c ELSE at[pl][q]
  BY <1>2, OneChange DEF Held
<1>4. \A r \in Runs, q \in Paths :
          /\ at'[Kept(r)][q] = at[Kept(r)][q]
          /\ at'[Aside(r)][q] = at[Aside(r)][q]
  BY <1>3
<1>5. Kinds'
  BY <1>1, <1>2, <1>3 DEF Kinds
<1>6. Numbered'
  <2>1. ASSUME NEW q \in Paths PROVE IsFiniteSet({x \in written' : x.path = q})
    <3>1. IsFiniteSet({x \in written : x.path = q}) /\ IsFiniteSet({c})
      BY FS_Singleton DEF Numbered
    <3>2. IsFiniteSet({x \in written : x.path = q} \cup {c})
      BY <3>1, FS_Union
    <3>3. {x \in written' : x.path = q} \subseteq {x \in written : x.path = q} \cup {c}
      BY <1>2
    <3> QED
      BY <3>2, <3>3, FS_Subset
  <2> QED
    BY <2>1 DEF Numbered
<1>7. OwnPath'
  BY <1>2, <1>3 DEF OwnPath
<1>8. Process'
  BY <1>1 DEF Process, Repairing, Undoing
<1>9. Moving'
  BY <1>1 DEF Moving
<1>10. Clear'
  BY <1>1 DEF Clear, InKept, InRepo
<1>11. Taking'
  <2>1. CASE pc = "idle"
    BY <1>1, <2>1 DEF Taking, Repairing
  <2>2. CASE pc = "ready"
    <3>1. run \in Runs /\ taken \subseteq Paths
      BY <2>2 DEF Process, Kinds
    <3>2. \A q \in Paths : InKept(run, q)' = InKept(run, q) /\ InAside(run, q)' = InAside(run, q)
      BY <1>1, <1>4, <3>1 DEF InKept, InAside
    <3> QED
      BY <1>1, <2>2, <3>1, <3>2 DEF Taking, Repairing
  <2> QED
    BY <2>1, <2>2
<1>12. Unstarted'
  BY <1>1, <1>3 DEF Unstarted, InKept, InAside
<1>13. ListedTrue'
  BY <1>1, <1>3 DEF ListedTrue, InKept
<1>14. OneOff'
  BY <1>1, <1>4 DEF OneOff, Unlisted
<1>15. DoneListed'
  BY <1>1, <1>4 DEF DoneListed, Unlisted, Repairing
<1>16. AsideClean'
  BY <1>1, <1>3 DEF AsideClean, InAside, InKept
<1> QED
  BY <1>5, <1>6, <1>7, <1>8, <1>9, <1>10, <1>11, <1>12, <1>13, <1>14, <1>15, <1>16

-----------------------------------------------------------------------------
\* A step of an undo.

\* An undo works from a list that reads.
LEMMA StartUndoKeeps ==
  ASSUME IInv, NEW r \in Runs, StartUndo(r)
  PROVE  IInv'
<1> USE PlacesDiffer, HeldKinds DEF IInv
<1>1. /\ pc = "idle" /\ run = NoRun /\ run \notin Runs /\ moving = NoMove
      /\ NoMove.stage = "none"
      /\ pc' = "undo" /\ run' = r /\ left' = Len(manifest[r])
      /\ manifest[r] \notin {NoManifest, CutShort}
      /\ UNCHANGED <<at, manifest, man, arg, moving, taken, started, before, written, cut,
                    halted>>
  BY QuarantineAssumption DEF StartUndo, Process, NoMove, history
<1>2. manifest[r] \in Seq(Paths) /\ r \in started
  BY <1>1 DEF Kinds, Unstarted
<1>3. Kinds'
  BY <1>1 DEF Kinds
<1>4. Numbered'
  BY <1>1 DEF Numbered
<1>5. OwnPath'
  BY <1>1 DEF OwnPath
<1>6. Process'
  BY <1>1, <1>2 DEF Process, Repairing, Undoing
<1>7. Moving'
  BY <1>1 DEF Moving
<1>8. Clear'
  BY <1>1 DEF Clear, InKept, InRepo
<1>9. Taking'
  BY <1>1 DEF Taking, Repairing, InKept, InAside
<1>10. Unstarted'
  BY <1>1 DEF Unstarted, InKept, InAside
<1>11. ListedTrue'
  BY <1>1 DEF ListedTrue, InKept
<1>12. OneOff'
  BY <1>1 DEF OneOff, Unlisted
<1>13. DoneListed'
  BY <1>1 DEF DoneListed, Unlisted, Repairing
<1>14. AsideClean'
  BY <1>1 DEF AsideClean, InAside, InKept
<1> QED
  BY <1>3, <1>4, <1>5, <1>6, <1>7, <1>8, <1>9, <1>10, <1>11, <1>12, <1>13, <1>14

\* What an undo works on, between two moves.
LEMMA Entries ==
  ASSUME IInv, pc = "undo", moving = NoMove, left > 0
  PROVE  /\ run \in Runs /\ run \in started /\ manifest[run] \in Seq(Paths)
         /\ left <= Len(manifest[run]) /\ left - 1 \in Nat
         /\ Entry \in Paths /\ Entry \in Range(manifest[run])
<1>1. run \in Runs /\ run \in started /\ manifest[run] \in Seq(Paths) /\ left <= Len(manifest[run])
  BY DEF IInv, Process, Kinds, Undoing
<1>2. left \in Nat
  BY DEF IInv, Kinds
<1>3. left \in 1..Len(manifest[run])
  BY <1>1, <1>2
<1>4. manifest[run][left] \in Range(manifest[run]) /\ Range(manifest[run]) \subseteq Paths
  BY <1>1, <1>3, ListNames
<1> QED
  BY <1>1, <1>2, <1>4 DEF Entry

\* An entry that is no longer there is passed over.
LEMMA SkipEntryKeeps ==
  ASSUME IInv, SkipEntry
  PROVE  IInv'
<1> USE PlacesDiffer, HeldKinds DEF IInv
<1>1. /\ pc = "undo" /\ moving = NoMove /\ left > 0 /\ NoMove.stage = "none" /\ left' = left - 1
      /\ UNCHANGED <<at, manifest, man, run, pc, arg, moving, taken, started, before,
                    written, cut, halted>>
  BY DEF SkipEntry, NoMove, history
<1>2. /\ run \in Runs /\ run \in started /\ manifest[run] \in Seq(Paths)
      /\ left <= Len(manifest[run]) /\ left - 1 \in Nat
  BY <1>1, Entries
<1>3. left' \in Nat /\ left' <= Len(manifest[run])
  BY <1>1, <1>2 DEF Kinds
<1>4. Kinds'
  BY <1>1 DEF Kinds
<1>5. Numbered'
  BY <1>1 DEF Numbered
<1>6. OwnPath'
  BY <1>1 DEF OwnPath
<1>7. Process'
  BY <1>1, <1>3 DEF Process, Repairing, Undoing
<1>8. Moving'
  BY <1>1 DEF Moving
<1>9. Clear'
  BY <1>1 DEF Clear, InKept, InRepo
<1>10. Taking'
  BY <1>1 DEF Taking, Repairing, InKept, InAside
<1>11. Unstarted'
  BY <1>1 DEF Unstarted, InKept, InAside
<1>12. ListedTrue'
  BY <1>1 DEF ListedTrue, InKept
<1>13. OneOff'
  BY <1>1 DEF OneOff, Unlisted
<1>14. DoneListed'
  BY <1>1 DEF DoneListed, Unlisted, Repairing
<1>15. AsideClean'
  BY <1>1 DEF AsideClean, InAside, InKept
<1> QED
  BY <1>4, <1>5, <1>6, <1>7, <1>8, <1>9, <1>10, <1>11, <1>12, <1>13, <1>14, <1>15

\* Nothing is where the entry goes.
LEMMA NothingInTheWayKeeps ==
  ASSUME IInv, ClearTheWay, at[Repo][Entry] = NoFile
  PROVE  IInv'
<1> USE PlacesDiffer, HeldKinds DEF IInv
<1>1. /\ pc = "undo" /\ moving = NoMove /\ left > 0 /\ NoMove.stage = "none"
      /\ at[Kept(run)][Entry] # NoFile /\ arg' = Entry /\ pc' = "cleared"
      /\ UNCHANGED <<at, manifest, man, run, moving, left, taken, started, before, written,
                    cut, halted>>
  BY DEF ClearTheWay, NoMove, history
<1>2. /\ run \in Runs /\ run \in started /\ manifest[run] \in Seq(Paths)
      /\ left <= Len(manifest[run]) /\ Entry \in Paths /\ Entry \in Range(manifest[run])
  BY <1>1, Entries
<1>3. Kinds'
  BY <1>1, <1>2 DEF Kinds
<1>4. Numbered'
  BY <1>1 DEF Numbered
<1>5. OwnPath'
  BY <1>1 DEF OwnPath
<1>6. Process'
  BY <1>1, <1>2 DEF Process, Repairing, Undoing
<1>7. Moving'
  BY <1>1 DEF Moving
<1>8. Clear'
  BY <1>1 DEF Clear, InKept, InRepo
<1>9. Taking'
  BY <1>1 DEF Taking, Repairing, InKept, InAside
<1>10. Unstarted'
  BY <1>1 DEF Unstarted, InKept, InAside
<1>11. ListedTrue'
  BY <1>1 DEF ListedTrue, InKept
<1>12. OneOff'
  BY <1>1 DEF OneOff, Unlisted
<1>13. DoneListed'
  BY <1>1 DEF DoneListed, Unlisted, Repairing
<1>14. AsideClean'
  BY <1>1 DEF AsideClean, InAside, InKept
<1> QED
  BY <1>3, <1>4, <1>5, <1>6, <1>7, <1>8, <1>9, <1>10, <1>11, <1>12, <1>13, <1>14

\* What is in the way is set aside.
LEMMA ClearByRenameKeeps ==
  ASSUME IInv, ClearTheWay, Rename(Entry, Repo, Aside(run)), pc' = "cleared", UNCHANGED moving
  PROVE  IInv'
<1> USE PlacesDiffer, HeldKinds DEF IInv
<1>1. /\ pc = "undo" /\ moving = NoMove /\ left > 0 /\ NoMove.stage = "none"
      /\ at[Kept(run)][Entry] # NoFile /\ arg' = Entry
      /\ UNCHANGED <<manifest, man, run, moving, left, taken, started, before, written,
                    cut, halted>>
  BY DEF ClearTheWay, NoMove, history
<1>2. /\ run \in Runs /\ run \in started /\ manifest[run] \in Seq(Paths)
      /\ left <= Len(manifest[run]) /\ Entry \in Paths /\ Entry \in Range(manifest[run])
  BY <1>1, Entries
<1>3. /\ at' \in [Places -> [Paths -> Held]]
      /\ \A pl \in Places, q \in Paths :
           at'[pl][q] = IF pl = Repo /\ q = Entry THEN NoFile
                        ELSE IF pl = Aside(run) /\ q = Entry THEN at[Repo][Entry] ELSE at[pl][q]
  BY <1>2, RenameIs
<1>4. \A r \in Runs, q \in Paths :
          /\ at'[Kept(r)][q] = at[Kept(r)][q]
          /\ at'[Aside(r)][q] = IF r = run /\ q = Entry THEN at[Repo][Entry] ELSE at[Aside(r)][q]
          /\ at'[Repo][q] = IF q = Entry THEN NoFile ELSE at[Repo][q]
  BY <1>2, <1>3
<1>5. Kinds'
  BY <1>1, <1>2, <1>3 DEF Kinds
<1>6. Numbered'
  BY <1>1 DEF Numbered
<1>7. OwnPath'
  BY <1>1, <1>2, <1>3 DEF OwnPath
<1>8. Process'
  BY <1>1, <1>2 DEF Process, Repairing, Undoing
<1>9. Moving'
  BY <1>1 DEF Moving
<1>10. Clear'
  BY <1>1, <1>2, <1>3 DEF Clear, InKept, InRepo
<1>11. Taking'
  BY <1>1 DEF Taking, Repairing, InKept, InAside
<1>12. Unstarted'
  BY <1>1, <1>2, <1>3 DEF Unstarted, InKept, InAside
<1>13. ListedTrue'
  BY <1>1, <1>2, <1>3 DEF ListedTrue, InKept
<1>14. OneOff'
  BY <1>1, <1>4 DEF OneOff, Unlisted
<1>15. DoneListed'
  BY <1>1, <1>4 DEF DoneListed, Unlisted, Repairing
<1>16. AsideClean'
  BY <1>1, <1>2, <1>3 DEF AsideClean, InAside, InKept
<1> QED
  BY <1>5, <1>6, <1>7, <1>8, <1>9, <1>10, <1>11, <1>12, <1>13, <1>14, <1>15, <1>16

\* What is in the way is being copied aside.
LEMMA ClearByCopyKeeps ==
  ASSUME IInv, ClearTheWay, CopyStart(Entry, Repo, Aside(run)), UNCHANGED pc
  PROVE  IInv'
<1> USE PlacesDiffer, HeldKinds DEF IInv
<1>1. /\ pc = "undo" /\ moving = NoMove /\ left > 0 /\ NoMove.stage = "none"
      /\ at[Kept(run)][Entry] # NoFile /\ Entry \in Foreign /\ arg' = Entry
      /\ moving' = [from |-> Repo, to |-> Aside(run), stage |-> "copying"]
      /\ UNCHANGED <<manifest, man, run, pc, left, taken, started, before, written, cut,
                    halted>>
  BY DEF ClearTheWay, CopyStart, NoMove, history
<1>2. /\ run \in Runs /\ run \in started /\ manifest[run] \in Seq(Paths)
      /\ left <= Len(manifest[run]) /\ Entry \in Paths /\ Entry \in Range(manifest[run])
  BY <1>1, Entries
<1>3. /\ moving' \in Moves /\ moving'.stage = "copying" /\ moving'.from = Repo
      /\ moving'.to = Aside(run)
  BY <1>1, <1>2 DEF Moves
<1>4. /\ at' \in [Places -> [Paths -> Held]]
      /\ \A pl \in Places, q \in Paths :
           at'[pl][q] = IF pl = Aside(run) /\ q = Entry THEN Torn ELSE at[pl][q]
  BY <1>2, OneChange DEF CopyStart
<1>5. \A r \in Runs, q \in Paths :
          /\ at'[Kept(r)][q] = at[Kept(r)][q]
          /\ at'[Aside(r)][q] = IF r = run /\ q = Entry THEN Torn ELSE at[Aside(r)][q]
          /\ at'[Repo][q] = at[Repo][q]
  BY <1>2, <1>4
<1>6. Kinds'
  BY <1>1, <1>2, <1>3, <1>4 DEF Kinds
<1>7. Numbered'
  BY <1>1 DEF Numbered
<1>8. OwnPath'
  BY <1>1, <1>4 DEF OwnPath
<1>9. Process'
  BY <1>1 DEF Process, Repairing, Undoing
<1>10. Moving'
  BY <1>1, <1>2, <1>4 DEF Moving
<1>11. Clear'
  BY <1>1, <1>2, <1>4 DEF Clear, InKept, InRepo
<1>12. Taking'
  BY <1>1 DEF Taking, Repairing, InKept, InAside
<1>13. Unstarted'
  BY <1>1, <1>2, <1>4 DEF Unstarted, InKept, InAside
<1>14. ListedTrue'
  BY <1>1, <1>2, <1>4 DEF ListedTrue, InKept
<1>15. OneOff'
  BY <1>1, <1>5 DEF OneOff, Unlisted
<1>16. DoneListed'
  BY <1>1, <1>5 DEF DoneListed, Unlisted, Repairing
<1>17. AsideClean'
  BY <1>1, <1>2, <1>4 DEF AsideClean, InAside, InKept
<1> QED
  BY <1>6, <1>7, <1>8, <1>9, <1>10, <1>11, <1>12, <1>13, <1>14, <1>15, <1>16, <1>17

\* The source of a copy set aside goes.
LEMMA ClearedByCopyKeeps ==
  ASSUME IInv, ClearedByCopy
  PROVE  IInv'
<1> USE PlacesDiffer, HeldKinds DEF IInv
<1>1. /\ pc = "undo" /\ moving.stage = "copied" /\ arg \in Paths /\ run \in Runs
      /\ run \in started
      /\ moving.from = Repo /\ manifest[run] \in Seq(Paths) /\ left <= Len(manifest[run])
      /\ left > 0 /\ arg \in Range(manifest[run]) /\ pc' = "cleared"
      /\ moving' = NoMove /\ NoMove \in Moves /\ NoMove.stage = "none"
      /\ InKept(run, arg) # NoFile
      /\ UNCHANGED <<manifest, man, run, arg, left, taken, started, before, written, cut,
                    halted>>
  BY DEF ClearedByCopy, RemoveSource, Moving, Process, Undoing, Kinds, Clear, NoMove, Moves, history
<1>2. /\ at' \in [Places -> [Paths -> Held]]
      /\ \A pl \in Places, q \in Paths :
           at'[pl][q] = IF pl = Repo /\ q = arg THEN NoFile ELSE at[pl][q]
  BY <1>1, OneChange DEF ClearedByCopy, RemoveSource
<1>3. \A r \in Runs, q \in Paths :
          /\ at'[Kept(r)][q] = at[Kept(r)][q]
          /\ at'[Aside(r)][q] = at[Aside(r)][q]
          /\ at'[Repo][q] = IF q = arg THEN NoFile ELSE at[Repo][q]
  BY <1>1, <1>2
<1>4. Kinds'
  BY <1>1, <1>2 DEF Kinds
<1>5. Numbered'
  BY <1>1 DEF Numbered
<1>6. OwnPath'
  BY <1>1, <1>2 DEF OwnPath
<1>7. Process'
  BY <1>1 DEF Process, Repairing, Undoing
<1>8. Moving'
  BY <1>1 DEF Moving
<1>9. Clear'
  BY <1>1, <1>2 DEF Clear, InKept, InRepo
<1>10. Taking'
  BY <1>1 DEF Taking, Repairing, InKept, InAside
<1>11. Unstarted'
  BY <1>1, <1>2 DEF Unstarted, InKept, InAside
<1>12. ListedTrue'
  BY <1>1, <1>2 DEF ListedTrue, InKept
<1>13. OneOff'
  BY <1>1, <1>3 DEF OneOff, Unlisted
<1>14. DoneListed'
  BY <1>1, <1>3 DEF DoneListed, Unlisted, Repairing
<1>15. AsideClean'
  BY <1>1, <1>2 DEF AsideClean, InAside, InKept
<1> QED
  BY <1>4, <1>5, <1>6, <1>7, <1>8, <1>9, <1>10, <1>11, <1>12, <1>13, <1>14, <1>15

\* A file is back where it was.
LEMMA PutBackByRenameKeeps ==
  ASSUME IInv, PutBack, Rename(arg, Kept(run), Repo), pc' = "undo", left' = left - 1, UNCHANGED moving
  PROVE  IInv'
<1> USE PlacesDiffer, HeldKinds DEF IInv
<1>1. /\ pc = "cleared" /\ arg \in Paths /\ run \in Runs /\ run \in started /\ left > 0
      /\ left \in Nat
      /\ manifest[run] \in Seq(Paths) /\ left <= Len(manifest[run])
      /\ UNCHANGED <<manifest, man, run, arg, moving, taken, started, before, written, cut,
                    halted>>
  BY DEF PutBack, Process, Undoing, Kinds, history
<1>2. moving = NoMove /\ NoMove.stage = "none"
  BY <1>1 DEF Rename, Moving, NoMove
<1>3. /\ at' \in [Places -> [Paths -> Held]]
      /\ \A pl \in Places, q \in Paths :
           at'[pl][q] = IF pl = Kept(run) /\ q = arg THEN NoFile
                        ELSE IF pl = Repo /\ q = arg THEN at[Kept(run)][arg] ELSE at[pl][q]
  BY <1>1, RenameIs
<1>4. Kinds'
  BY <1>1, <1>3 DEF Kinds
<1>5. Numbered'
  BY <1>1 DEF Numbered
<1>6. OwnPath'
  BY <1>1, <1>3 DEF OwnPath
<1>7. Process'
  BY <1>1 DEF Process, Repairing, Undoing
<1>8. Moving'
  BY <1>1, <1>2 DEF Moving
<1>9. Clear'
  BY <1>1, <1>2 DEF Clear, InKept, InRepo
<1>10. Taking'
  BY <1>1 DEF Taking, Repairing, InKept, InAside
<1>11. Unstarted'
  BY <1>1, <1>3 DEF Unstarted, InKept, InAside
<1>12. ListedTrue'
  BY <1>1, <1>3, SMTT(30) DEF ListedTrue, InKept
<1>13. OneOff'
  BY <1>1, <1>3 DEF OneOff, Unlisted
<1>14. DoneListed'
  BY <1>1, <1>3 DEF DoneListed, Unlisted, Repairing
<1>15. AsideClean'
  BY <1>1, <1>3 DEF AsideClean, InAside, InKept
<1> QED
  BY <1>4, <1>5, <1>6, <1>7, <1>8, <1>9, <1>10, <1>11, <1>12, <1>13, <1>14, <1>15

\* A file is being copied back.
LEMMA PutBackStartKeeps ==
  ASSUME IInv, PutBack, CopyStart(arg, Kept(run), Repo), UNCHANGED <<pc, left>>
  PROVE  IInv'
<1> USE PlacesDiffer, HeldKinds DEF IInv
<1>1. /\ pc = "cleared" /\ arg \in Paths /\ run \in Runs /\ run \in started
      /\ moving = NoMove /\ NoMove.stage = "none" /\ arg \in Foreign
      /\ moving' = [from |-> Kept(run), to |-> Repo, stage |-> "copying"]
      /\ UNCHANGED <<manifest, man, run, arg, pc, left, taken, started, before, written,
                    cut, halted>>
  BY DEF PutBack, CopyStart, Process, Undoing, Kinds, NoMove, history
<1>2. /\ moving' \in Moves /\ moving'.stage = "copying" /\ moving'.from = Kept(run)
      /\ moving'.to = Repo
  BY <1>1 DEF Moves
<1>3. /\ at' \in [Places -> [Paths -> Held]]
      /\ \A pl \in Places, q \in Paths :
           at'[pl][q] = IF pl = Repo /\ q = arg THEN Torn ELSE at[pl][q]
  BY <1>1, OneChange DEF CopyStart
<1>4. \A r \in Runs, q \in Paths :
          /\ at'[Kept(r)][q] = at[Kept(r)][q]
          /\ at'[Aside(r)][q] = at[Aside(r)][q]
          /\ at'[Repo][q] = IF q = arg THEN Torn ELSE at[Repo][q]
  BY <1>1, <1>3
<1>5. Kinds'
  BY <1>1, <1>2, <1>3 DEF Kinds
<1>6. Numbered'
  BY <1>1 DEF Numbered
<1>7. OwnPath'
  BY <1>1, <1>3 DEF OwnPath
<1>8. Process'
  BY <1>1 DEF Process, Repairing, Undoing
<1>9. Moving'
  BY <1>1, <1>3 DEF Moving
<1>10. Clear'
  BY <1>1, <1>3 DEF Clear, InKept, InRepo
<1>11. Taking'
  BY <1>1 DEF Taking, Repairing, InKept, InAside
<1>12. Unstarted'
  BY <1>1, <1>3 DEF Unstarted, InKept, InAside
<1>13. ListedTrue'
  BY <1>1, <1>3 DEF ListedTrue, InKept
<1>14. OneOff'
  BY <1>1, <1>4 DEF OneOff, Unlisted
<1>15. DoneListed'
  BY <1>1, <1>4 DEF DoneListed, Unlisted, Repairing
<1>16. AsideClean'
  BY <1>1, <1>3 DEF AsideClean, InAside, InKept
<1> QED
  BY <1>5, <1>6, <1>7, <1>8, <1>9, <1>10, <1>11, <1>12, <1>13, <1>14, <1>15, <1>16

\* The source of what was copied back goes.
LEMMA PutBackByCopyKeeps ==
  ASSUME IInv, PutBackByCopy
  PROVE  IInv'
<1> USE PlacesDiffer, HeldKinds DEF IInv
<1>1. /\ pc = "cleared" /\ moving.stage = "copied" /\ arg \in Paths /\ run \in Runs
      /\ run \in started
      /\ moving.from = Kept(run) /\ manifest[run] \in Seq(Paths) /\ left <= Len(manifest[run])
      /\ left > 0 /\ left \in Nat /\ pc' = "undo" /\ left' = left - 1
      /\ moving' = NoMove /\ NoMove \in Moves /\ NoMove.stage = "none"
      /\ UNCHANGED <<manifest, man, run, arg, taken, started, before, written, cut, halted>>
  BY DEF PutBackByCopy, RemoveSource, Moving, Process, Undoing, Kinds, NoMove, Moves, history
<1>2. /\ at' \in [Places -> [Paths -> Held]]
      /\ \A pl \in Places, q \in Paths :
           at'[pl][q] = IF pl = Kept(run) /\ q = arg THEN NoFile ELSE at[pl][q]
  BY <1>1, OneChange DEF PutBackByCopy, RemoveSource
<1>3. Kinds'
  BY <1>1, <1>2 DEF Kinds
<1>4. Numbered'
  BY <1>1 DEF Numbered
<1>5. OwnPath'
  BY <1>1, <1>2 DEF OwnPath
<1>6. Process'
  BY <1>1 DEF Process, Repairing, Undoing
<1>7. Moving'
  BY <1>1 DEF Moving
<1>8. Clear'
  BY <1>1 DEF Clear, InKept, InRepo
<1>9. Taking'
  BY <1>1 DEF Taking, Repairing, InKept, InAside
<1>10. Unstarted'
  BY <1>1, <1>2 DEF Unstarted, InKept, InAside
<1>11. ListedTrue'
  BY <1>1, <1>2 DEF ListedTrue, InKept
<1>12. OneOff'
  BY <1>1, <1>2 DEF OneOff, Unlisted
<1>13. DoneListed'
  BY <1>1, <1>2 DEF DoneListed, Unlisted, Repairing
<1>14. AsideClean'
  BY <1>1, <1>2 DEF AsideClean, InAside, InKept
<1> QED
  BY <1>3, <1>4, <1>5, <1>6, <1>7, <1>8, <1>9, <1>10, <1>11, <1>12, <1>13, <1>14

-----------------------------------------------------------------------------
\* The end of a process.

LEMMA EndRunKeeps ==
  ASSUME IInv, EndRun
  PROVE  IInv'
<1>1. /\ pc = "ready" /\ moving = NoMove /\ Exit /\ at' = at
      /\ UNCHANGED <<manifest, started, before, written, cut, halted>>
  BY DEF EndRun, history
<1>2. /\ run \in Runs /\ cut \subseteq Runs /\ halted \subseteq Runs
      /\ at \in [Places -> [Paths -> Held]]
  BY <1>1 DEF IInv, Process, Kinds
<1>3. /\ \A q \in Paths : InKept(run, q) # NoFile => q \in taken
      /\ \A q \in Paths : InAside(run, q) = NoFile
      /\ taken \subseteq Range(manifest[run])
  BY <1>1 DEF IInv, Taking, Repairing, NoMove
<1>4. Unlisted(run) = {}
  BY <1>3 DEF Unlisted, InKept
<1> QED
  BY <1>1, <1>2, <1>3, <1>4, ExitKeeps

\* Between two moves of an undo, nothing is both set aside and not put back.
LEMMA EndUndoKeeps ==
  ASSUME IInv, EndUndo
  PROVE  IInv'
<1>1. /\ pc = "undo" /\ moving = NoMove /\ Exit /\ at' = at
      /\ UNCHANGED <<manifest, started, before, written, cut, halted>>
  BY DEF EndUndo, history
<1>2. /\ run \in Runs /\ cut \subseteq Runs /\ halted \subseteq Runs
      /\ at \in [Places -> [Paths -> Held]]
  BY <1>1 DEF IInv, Process, Kinds
<1>3. run \in halted \/ \A q \in Paths : InAside(run, q) = NoFile \/ InKept(run, q) = NoFile
  BY <1>1, <1>2 DEF IInv, AsideClean, NoMove
<1>4. ~Repairing
  BY <1>1 DEF Repairing
<1> QED
  BY <1>1, <1>2, <1>3, <1>4, ExitKeeps

\* A process that is killed, or gives up, is noted as such.
LEMMA InterruptedKeeps ==
  ASSUME IInv, Exit, Interrupted, pc # "idle", at' \in [Places -> [Paths -> Held]],
         \A pl \in Places, q \in Paths : at'[pl][q] \in {at[pl][q], NoFile},
         UNCHANGED <<manifest, started, before, written>>
  PROVE  IInv'
<1>1. run \in Runs /\ cut \subseteq Runs /\ halted \subseteq Runs
  BY DEF IInv, Process, Kinds
<1>2. /\ Repairing => cut' = cut \cup {run} /\ halted' = halted
      /\ ~Repairing => cut' = cut /\ halted' = halted \cup {run}
  BY DEF Interrupted, Repairing
<1>3. /\ cut \subseteq cut' /\ cut' \subseteq Runs /\ halted \subseteq halted'
      /\ halted' \subseteq Runs
      /\ Repairing => run \in cut'
  BY <1>1, <1>2
<1>4. run \in halted' \/ \A q \in Paths : InAside(run, q) = NoFile \/ InKept(run, q) = NoFile
  BY <1>2 DEF IInv, Taking
<1> QED
  BY <1>3, <1>4, ExitKeeps

LEMMA KillKeeps ==
  ASSUME IInv, Kill
  PROVE  IInv'
<1>1. pc # "idle" /\ Exit /\ Interrupted /\ UNCHANGED <<at, manifest, started, before, written>>
  BY DEF Kill
<1>2. at' \in [Places -> [Paths -> Held]]
  BY <1>1 DEF IInv, Kinds
<1> QED
  BY <1>1, <1>2, InterruptedKeeps

LEMMA RemoveFailsKeeps ==
  ASSUME IInv, RemoveFails
  PROVE  IInv'
<1>1. Exit /\ Interrupted /\ UNCHANGED <<at, manifest, started, before, written>>
  BY DEF RemoveFails
<1>2. at' \in [Places -> [Paths -> Held]] /\ pc # "idle"
  BY <1>1 DEF IInv, Kinds, RemoveFails, Process, NoMove
<1> QED
  BY <1>1, <1>2, InterruptedKeeps

LEMMA CopyFailsKeeps ==
  ASSUME IInv, CopyFails
  PROVE  IInv'
<1>1. /\ Exit /\ Interrupted /\ UNCHANGED <<manifest, started, before, written>>
      /\ moving.stage = "copying" /\ at' = With(at, moving.to, arg, NoFile)
  BY DEF CopyFails
<1>2. pc # "idle" /\ arg \in Paths /\ moving.to \in Places
  BY <1>1 DEF IInv, Process, Moving, NoMove, Kinds, Moves
<1>3. /\ at' \in [Places -> [Paths -> Held]]
      /\ \A pl \in Places, q \in Paths :
           at'[pl][q] = IF pl = moving.to /\ q = arg THEN NoFile ELSE at[pl][q]
  BY <1>1, <1>2, OneChange, HeldKinds DEF IInv
<1> QED
  BY <1>1, <1>2, <1>3, InterruptedKeeps

-----------------------------------------------------------------------------
LEMMA Initially == Init => IInv
<1> SUFFICES ASSUME Init PROVE IInv
  OBVIOUS
<1> USE PlacesDiffer, HeldKinds
<1>1. /\ pc = "idle" /\ run = NoRun /\ run \notin Runs /\ man = << >> /\ arg = NoFile
      /\ left = 0
      /\ moving = NoMove /\ NoMove \in Moves /\ NoMove.stage = "none"
      /\ taken = {} /\ started = {} /\ cut = {} /\ halted = {}
  BY QuarantineAssumption DEF Init, NoMove, Moves
<1>2. written = [path : Paths, nth : {0}] /\ written \subseteq Content
  BY DEF Init, Content
<1>3. \A p \in Paths : [path |-> p, nth |-> 0] \in Held
  BY DEF Held, Content
<1>4. /\ at \in [Places -> [Paths -> Held]]
      /\ \A pl \in Places, p \in Paths :
           at[pl][p] = IF pl = Repo THEN [path |-> p, nth |-> 0] ELSE NoFile
  BY <1>3 DEF Init
<1>5. before \in [Runs -> [Paths -> Held]]
  BY DEF Init
<1>6. /\ manifest \in [Runs -> Seq(Paths) \cup {NoManifest, CutShort}]
      /\ \A r \in Runs : manifest[r] = NoManifest
  BY DEF Init
<1>7. \A r \in Runs, p \in Paths : InKept(r, p) = NoFile /\ InAside(r, p) = NoFile
  BY <1>4 DEF InKept, InAside
<1>8. Kinds
  BY <1>2, <1>1, <1>4, <1>5, <1>6 DEF Kinds
<1>9. Numbered
  <2>1. ASSUME NEW p \in Paths PROVE IsFiniteSet({x \in written : x.path = p})
    <3>1. {x \in written : x.path = p} \subseteq {[path |-> p, nth |-> 0]}
      BY <1>2
    <3>2. IsFiniteSet({[path |-> p, nth |-> 0]})
      BY FS_Singleton
    <3> QED
      BY <3>1, <3>2, FS_Subset
  <2> QED
    BY <2>1 DEF Numbered
<1>10. OwnPath
  <2>1. ASSUME NEW pl \in Places, NEW p \in Paths, at[pl][p] \in Content
        PROVE  at[pl][p].path = p
    <3>1. at[pl][p] = [path |-> p, nth |-> 0]
      BY <1>4, <2>1
    <3> QED
      BY <3>1
  <2> QED
    BY <2>1 DEF OwnPath
<1>11. Process /\ Moving /\ Clear /\ Taking
  BY <1>1 DEF Process, Moving, Clear, Taking, Repairing, Undoing
<1>12. Unstarted /\ ListedTrue /\ AsideClean
  BY <1>6, <1>7 DEF Unstarted, ListedTrue, AsideClean
<1>13. OneOff /\ DoneListed
  BY <1>7 DEF OneOff, DoneListed, Unlisted, InKept
<1> QED
  BY <1>8, <1>9, <1>10, <1>11, <1>12, <1>13 DEF IInv

\* One step per action.
LEMMA StepKeeps == IInv /\ [Next]_vars => IInv'
<1> SUFFICES ASSUME IInv, [Next]_vars PROVE IInv'
  OBVIOUS
<1>1. ASSUME NEW r \in Runs, StartRun(r) PROVE IInv'
  BY <1>1, StartRunKeeps
<1>2. ASSUME NEW r \in Runs, StartUndo(r) PROVE IInv'
  BY <1>2, StartUndoKeeps
<1>3. ASSUME NEW p \in Paths, TakeRename(p) PROVE IInv'
  BY <1>3, TakeRenameKeeps
<1>4. ASSUME NEW p \in Paths, TakeCopy(p) PROVE IInv'
  BY <1>4, TakeCopyKeeps
<1>5. ASSUME NEW p \in Paths, Write(p) \/ Refill(p) PROVE IInv'
  <2>1. moving = NoMove /\ pc \in {"idle", "ready"}
    BY <1>5 DEF Write, Refill, IInv, Process
  <2>2. Fresh(p) /\ UNCHANGED <<manifest, process, started, before, cut, halted>>
    BY <1>5 DEF Write, Refill
  <2> QED
    BY <2>1, <2>2, FreshKeeps
<1>6. CASE TakeRemove
  BY <1>6, TakeRemoveKeeps
<1>7. CASE TruncateManifest
  BY <1>7, TruncateKeeps
<1>8. CASE FillManifest
  BY <1>8, FillKeeps
<1>9. CASE EndRun
  BY <1>9, EndRunKeeps
<1>10. CASE SkipEntry
  BY <1>10, SkipEntryKeeps
<1>11. CASE ClearTheWay
  BY <1>11, NothingInTheWayKeeps, ClearByRenameKeeps, ClearByCopyKeeps DEF ClearTheWay
<1>12. CASE ClearedByCopy
  BY <1>12, ClearedByCopyKeeps
<1>13. CASE PutBack
  BY <1>13, PutBackByRenameKeeps, PutBackStartKeeps DEF PutBack
<1>14. CASE PutBackByCopy
  BY <1>14, PutBackByCopyKeeps
<1>15. CASE CopyEnd
  BY <1>15, CopyEndKeeps
<1>16. CASE CopyFails
  BY <1>16, CopyFailsKeeps
<1>17. CASE RemoveFails
  BY <1>17, RemoveFailsKeeps
<1>18. CASE EndUndo
  BY <1>18, EndUndoKeeps
<1>19. CASE Kill
  BY <1>19, KillKeeps
<1>20. CASE UNCHANGED vars
  BY <1>20 DEF vars, process, history, IInv, Kinds, Moves, Numbered, OwnPath, Process, Repairing,
    Undoing, Moving, Clear, InKept, InRepo, Taking, InAside, Unstarted, ListedTrue, OneOff,
    Unlisted, DoneListed, AsideClean
<1> QED
  BY <1>1, <1>2, <1>3, <1>4, <1>5, <1>6, <1>7, <1>8, <1>9, <1>10, <1>11, <1>12, <1>13, <1>14,
    <1>15, <1>16, <1>17, <1>18, <1>19, <1>20 DEF Next, Rest

\* The invariant the theorems rest on: the list of every run falls short of its
\* quarantine by the move under way and no more, and what a list names and the
\* quarantine holds is what the run took (Take, writeManifest, Undo).
THEOREM Invariance == Spec => []IInv
<1>1. Init => IInv
  BY Initially
<1>2. IInv /\ [Next]_vars => IInv'
  BY StepKeeps
<1> QED
  BY <1>1, <1>2, PTL DEF Spec

-----------------------------------------------------------------------------
LEMMA ListsAccount == IInv => Manifested
<1> SUFFICES ASSUME IInv PROVE Manifested
  OBVIOUS
<1> DEFINE Names == Paths \cup {"none", "cut short"}
<1>1. Seq(Paths) \cup {NoManifest, CutShort} \subseteq Seq(Names)
  <2>1. NoManifest \in Seq(Names) /\ CutShort \in Seq(Names)
    BY DEF NoManifest, CutShort
  <2>2. ASSUME NEW s \in Seq(Paths) PROVE s \in Seq(Names)
    <3>1. Len(s) \in Nat /\ s \in [1..Len(s) -> Paths]
      OBVIOUS
    <3>2. Paths \subseteq Names
      OBVIOUS
    <3> HIDE DEF Names
    <3>3. s \in [1..Len(s) -> Names]
      BY <3>1, <3>2
    <3> QED
      BY <3>1, <3>3
  <2> QED
    BY <2>1, <2>2
<1>2. manifest \in [Runs -> Seq(Names)]
  <2>1. manifest \in [Runs -> Seq(Paths) \cup {NoManifest, CutShort}]
    BY DEF IInv, Kinds
  <2> HIDE DEF Names
  <2> QED
    BY <1>1, <2>1
<1>3. TypeOK
  BY <1>2 DEF TypeOK, IInv, Kinds, Held, Moves
<1>4. ListedWhenDone
  BY DEF ListedWhenDone, IInv, DoneListed, Repairing
<1>5. KillCostsOne
  <2> SUFFICES ASSUME NEW r \in Runs, manifest[r] # CutShort PROVE Cardinality(Unlisted(r)) <= 1
    BY DEF KillCostsOne
  <2>1. PICK q \in Paths \cup {NoFile} : Unlisted(r) \subseteq {q}
    BY DEF IInv, OneOff
  <2>2. Unlisted(r) = {} \/ Unlisted(r) = {q}
    BY <2>1
  <2>3. Cardinality({}) = 0 /\ Cardinality({q}) = 1
    BY FS_EmptySet, FS_Singleton
  <2> QED
    BY <2>2, <2>3
<1> QED
  BY <1>3, <1>4, <1>5 DEF Manifested

\* What a run moves is on the list an undo works from, but for the one move that
\* was interrupted, however often runs and undos are killed (Take,
\* writeManifest, Undo).
THEOREM ManifestAccounts == Spec => []Manifested
<1>1. IInv => Manifested
  BY ListsAccount
<1> QED
  BY <1>1, Invariance, PTL

\* Only the two ends of a move back leave the state they start in for the next
\* entry.
LEMMA PutBackStep ==
  ASSUME IInv, Next, pc = "cleared", pc' = "undo"
  PROVE  at'[Repo][arg] = before[run][arg]
<1> USE PlacesDiffer, HeldKinds
<1>1. /\ arg \in Paths /\ run \in Runs /\ arg \in Range(manifest[run])
      /\ at[Kept(run)][arg] # NoFile
  BY DEF IInv, Process, Kinds, Clear, InKept
<1>2. at[Kept(run)][arg] = before[run][arg]
  BY <1>1 DEF IInv, ListedTrue, InKept
<1>3. \/ Rename(arg, Kept(run), Repo)
      \/ moving.stage = "copied" /\ at' = With(at, moving.from, arg, NoFile)
  BY DEF Next, StartRun, StartUndo, TakeRename, TakeCopy, MayTake, Write, Refill, TakeRemove,
    TruncateManifest, FillManifest, EndRun, Exit, SkipEntry, ClearTheWay, ClearedByCopy, PutBack,
    PutBackByCopy, RemoveSource, CopyEnd, CopyFails, RemoveFails, EndUndo, Kill, Rest
<1>4. CASE Rename(arg, Kept(run), Repo)
  <2>1. \A pl \in Places, q \in Paths :
          at'[pl][q] = IF pl = Kept(run) /\ q = arg THEN NoFile
                       ELSE IF pl = Repo /\ q = arg THEN at[Kept(run)][arg] ELSE at[pl][q]
    BY <1>1, <1>4, RenameIs DEF IInv
  <2> QED
    BY <1>1, <1>2, <2>1
<1>5. CASE moving.stage = "copied" /\ at' = With(at, moving.from, arg, NoFile)
  <2>1. moving.from = Kept(run) /\ at[Repo][arg] = at[Kept(run)][arg]
    BY <1>5 DEF IInv, Moving
  <2>2. \A pl \in Places, q \in Paths :
          at'[pl][q] = IF pl = Kept(run) /\ q = arg THEN NoFile ELSE at[pl][q]
    BY <1>1, <1>5, <2>1, OneChange DEF IInv
  <2> QED
    BY <1>1, <1>2, <2>1, <2>2
<1> QED
  BY <1>3, <1>4, <1>5

\* An undo puts back what the run took, also when an undo before it was killed
\* (Undo).
THEOREM UndoExact == Spec => UndoPutsBack
<1>1. IInv /\ [Next]_vars =>
        [pc = "cleared" /\ pc' = "undo" => at'[Repo][arg] = before[run][arg]]_vars
  BY PutBackStep
<1> QED
  BY <1>1, Invariance, PTL DEF Spec, UndoPutsBack

-----------------------------------------------------------------------------
\* A rename takes nothing but what was at its destination.
LEMMA RenameLoses ==
  ASSUME Kinds, NEW p \in Paths, NEW from \in Places, NEW to \in Places, from # to,
         Rename(p, from, to), NEW c \in Content, Somewhere(c), at[to][p] # c
  PROVE  Somewhere(c)'
<1>1. \A pl \in Places, q \in Paths :
        at'[pl][q] = IF pl = from /\ q = p THEN NoFile
                     ELSE IF pl = to /\ q = p THEN at[from][p] ELSE at[pl][q]
  BY RenameIs
<1>2. PICK pl \in Places, q \in Paths : at[pl][q] = c
  BY DEF Somewhere
<1>3. CASE pl = from /\ q = p
  BY <1>1, <1>2, <1>3 DEF Somewhere
<1>4. CASE ~(pl = from /\ q = p)
  BY <1>1, <1>2, <1>4 DEF Somewhere
<1> QED
  BY <1>3, <1>4

\* Nor does a write to one path, when what was there is somewhere else too.
LEMMA ChangeLoses ==
  ASSUME Kinds, NEW p \in Paths, NEW d \in Places, NEW v \in Held, at' = With(at, d, p, v),
         NEW c \in Content, Somewhere(c),
         at[d][p] = c => \E pl \in Places : pl # d /\ at[pl][p] = c
  PROVE  Somewhere(c)'
<1>1. \A pl \in Places, q \in Paths : at'[pl][q] = IF pl = d /\ q = p THEN v ELSE at[pl][q]
  BY OneChange
<1>2. PICK pl \in Places, q \in Paths : at[pl][q] = c
  BY DEF Somewhere
<1>3. CASE pl = d /\ q = p
  BY <1>1, <1>2, <1>3 DEF Somewhere
<1>4. CASE ~(pl = d /\ q = p)
  BY <1>1, <1>2, <1>4 DEF Somewhere
<1> QED
  BY <1>3, <1>4

LEMMA LosesNothing ==
  ASSUME IInv, Next, NEW c \in Content, Somewhere(c),
         ~(pc = "undo" /\ run \in halted /\ at[Aside(run)][c.path] = c)
  PROVE  Somewhere(c)'
<1> USE PlacesDiffer, HeldKinds
<1>1. c # NoFile /\ c # Torn /\ Kinds
  BY DEF IInv
<1>2. pc # "idle" => run \in Runs
  BY DEF IInv, Process, Kinds
<1>3. CASE UNCHANGED at
  BY <1>3 DEF Somewhere
<1>4. ASSUME NEW p \in Paths, TakeRename(p) PROVE Somewhere(c)'
  <2>1. pc = "ready" /\ moving = NoMove /\ p \notin taken /\ run \in Runs
    BY <1>2, <1>4 DEF TakeRename, MayTake
  <2>2. at[Kept(run)][p] = NoFile
    BY <2>1 DEF IInv, Taking, Repairing, InKept, NoMove
  <2> QED
    BY <1>1, <1>4, <2>1, <2>2, RenameLoses DEF TakeRename
<1>5. ASSUME NEW p \in Paths, NEW from \in Places, NEW to \in Places, CopyStart(p, from, to)
      PROVE  Somewhere(c)'
  BY <1>1, <1>5, ChangeLoses DEF CopyStart
<1>6. ASSUME NEW p \in Paths, Fresh(p) PROVE Somewhere(c)'
  <2>1. PICK v \in Content : at' = With(at, Repo, p, v)
    BY <1>6, FS_CardinalityType DEF Fresh, IInv, Numbered, Content
  <2> QED
    BY <1>1, <1>6, <2>1, ChangeLoses DEF Fresh, Held
<1>7. CASE RemoveSource
  <2>1. /\ arg \in Paths /\ moving.from \in Places /\ moving.to \in Places /\ moving.from # moving.to
        /\ at[moving.to][arg] = at[moving.from][arg]
    BY <1>2, <1>7 DEF RemoveSource, IInv, Moving, Kinds, Moves
  <2> QED
    BY <1>1, <1>7, <2>1, ChangeLoses DEF RemoveSource
<1>8. CASE moving.stage = "copying" /\ \E v \in Held : at' = With(at, moving.to, arg, v)
  <2>1. arg \in Paths /\ moving.to \in Places /\ at[moving.to][arg] = Torn
    BY <1>8 DEF IInv, Moving, Kinds, Moves
  <2> QED
    BY <1>1, <1>8, <2>1, ChangeLoses
<1>9. CASE CopyEnd \/ CopyFails
  <2>1. moving.stage = "copying" /\ arg \in Paths /\ moving.from \in Places
    BY <1>9 DEF CopyEnd, CopyFails, IInv, Moving, Kinds, Moves
  <2>2. at[moving.from][arg] \in Held
    BY <1>1, <2>1 DEF Kinds
  <2> QED
    BY <1>8, <1>9, <2>1, <2>2 DEF CopyEnd, CopyFails
<1>10. CASE ClearTheWay
  <2>1. /\ pc = "undo" /\ moving = NoMove /\ left > 0 /\ run \in Runs
        /\ Entry \in Paths /\ at[Kept(run)][Entry] # NoFile
    BY <1>2, <1>10, Entries DEF ClearTheWay
  <2>2. CASE Rename(Entry, Repo, Aside(run))
    <3>1. at[Aside(run)][Entry] # c
      <4>1. SUFFICES ASSUME at[Aside(run)][Entry] = c PROVE FALSE
        OBVIOUS
      <4>2. c.path = Entry
        BY <2>1, <4>1 DEF IInv, OwnPath
      <4>3. run \notin halted
        BY <2>1, <4>1, <4>2
      <4> QED
        BY <1>1, <2>1, <4>1, <4>3 DEF IInv, AsideClean, InAside, InKept, NoMove
    <3> QED
      BY <1>1, <2>1, <2>2, <3>1, RenameLoses
  <2> QED
    BY <1>3, <1>5, <1>10, <2>1, <2>2 DEF ClearTheWay
<1>11. CASE PutBack
  <2>1. pc = "cleared" /\ arg \in Paths /\ run \in Runs
    BY <1>2, <1>11 DEF PutBack, IInv, Process
  <2>2. CASE Rename(arg, Kept(run), Repo)
    <3>1. at[Repo][arg] = NoFile
      BY <2>1, <2>2 DEF Rename, IInv, Moving, Clear, InRepo, Kinds, Moves
    <3> QED
      BY <1>1, <2>1, <2>2, <3>1, RenameLoses
  <2> QED
    BY <1>5, <1>11, <2>1, <2>2 DEF PutBack
<1>12. ASSUME NEW p \in Paths, TakeCopy(p) PROVE Somewhere(c)'
  BY <1>2, <1>5, <1>12 DEF TakeCopy, MayTake
<1>13. CASE TakeRemove \/ ClearedByCopy \/ PutBackByCopy
  BY <1>7, <1>13 DEF TakeRemove, ClearedByCopy, PutBackByCopy
<1>14. ASSUME NEW p \in Paths, Write(p) \/ Refill(p) PROVE Somewhere(c)'
  BY <1>6, <1>14 DEF Write, Refill
<1>15. CASE \/ \E r \in Runs : StartRun(r) \/ StartUndo(r)
            \/ TruncateManifest \/ FillManifest \/ EndRun \/ SkipEntry
            \/ RemoveFails \/ EndUndo \/ Kill \/ Rest
  BY <1>3, <1>15 DEF StartRun, StartUndo, TruncateManifest, FillManifest, EndRun, SkipEntry,
    RemoveFails, EndUndo, Kill, Rest, vars
<1> QED
  BY <1>4, <1>9, <1>10, <1>11, <1>12, <1>13, <1>14, <1>15 DEF Next

\* No content is lost but what an interrupted undo had set aside, and only to a
\* later undo of the same run (move, Take, Undo).
THEOREM NothingLost == Spec => OverwritesOnlyReplaced
<1>1. IInv /\ [Next]_vars =>
        [\A c \in written : Somewhere(c) =>
           \/ Somewhere(c)'
           \/ pc = "undo" /\ run \in halted /\ at[Aside(run)][c.path] = c]_vars
  BY LosesNothing DEF IInv, Kinds
<1> QED
  BY <1>1, Invariance, PTL DEF Spec, OverwritesOnlyReplaced
=============================================================================
