-------------------------- MODULE RemoteSourceProofs --------------------------
(***************************************************************************)
(* Proofs about RemoteSource, for any objects and links, any remote, any   *)
(* passes and any size of a batch: no name goes out twice and every ref    *)
(* once, what a pass needs is had or explained, and Prime, step by step,   *)
(* is the one step of RemoteRung.                                          *)
(***************************************************************************)
EXTENDS RemoteSource, SequenceTheorems, FiniteSetTheorems, WellFoundedInduction, TLAPS

(***************************************************************************)
(* The invariant.                                                          *)
(***************************************************************************)

\* A round of want is under way: what it can count on.
Fetching == pc \in {"byName", "every"}
Busy == pc \notin {"idle", "closed"}

\* What the round is for, and the part of it that S has.
Wanted == ToSet(need) \ before
Here(S) == Wanted \cap S

\* Where Prime may be for the flags.
Places ==
  /\ everything => open
  /\ url => remoteErr # "noRemote"
  /\ Busy => remoteErr = "none" /\ need # << >>
  /\ pc = "open" => ~open
  /\ pc \in {"want", "byName", "every"} => open
  /\ Fetching => ~everything /\ Wanted # {}
  /\ pc = "every" => everyRef

\* What is here before a round: all of it seen, and each name asked for.
Settled ==
  /\ ~open => scratch = {}
  /\ asked \subseteq visible
  /\ pc \in {"idle", "open", "want"} /\ remoteErr = "none" => visible = scratch
  /\ pc \in {"idle", "open", "want"} /\ remoteErr = "none" /\ ~everything => anchored = asked
  /\ pc \in {"open", "want"} => before = visible
  /\ Fetching => asked \subseteq before

\* What a round has brought came with the names it was for.
Came ==
  Fetching =>
    /\ anchored \ asked \subseteq Wanted
    /\ visible \subseteq before \cup Rung!Below(Here(visible))
    /\ scratch \subseteq before \cup Rung!Below(Here(scratch))

\* What the round has still to send, each name once and none of it sent yet.
ToSend ==
  pc = "byName" =>
    /\ \A i, j \in 1..Len(rest) : rest[i] = rest[j] => i = j
    /\ ToSet(rest) \cap anchored = {}
    /\ Wanted = ToSet(rest) \cup (anchored \ asked)

\* What has been sent is kept, or there is no further round.
Sent ==
  /\ sent \in [Names -> Nat]
  /\ \A o \in Names : sent[o] > 0 =>
       o \in anchored \/ everything \/ remoteErr # "none" \/ pc = "every"

\* Every ref is fetched last.
Copied ==
  /\ copies \in Nat /\ copies <= 1
  /\ copies = 1 => everyRef /\ (everything \/ remoteErr = "fetch")

\* What the fetch of every ref leaves out lies below what was here.
LeftOut ==
  everything => \A o \in Remote : o \in visible \/ o \in Rung!Below(anchored) \ anchored

IInv ==
  TypeOK /\ Places /\ Settled /\ Came /\ ToSend /\ AskedOnce /\ Sent /\ Copied
  /\ LeftOut /\ HadOrExplained

(***************************************************************************)
(* The operators.                                                          *)
(***************************************************************************)

\* A set of numbers has a smallest one.
LEMMA Smallest ==
  ASSUME NEW T, T \subseteq Nat, T # {}
  PROVE  \E x \in T : \A y \in T : x <= y
<1> DEFINE R == {ss \in Nat \X Nat : ss[1] < ss[2]}
<1>1. IsWellFoundedOn(R, Nat)
  BY NatLessThanWellFounded DEF OpToRel
<1>2. \A x, y \in Nat : y < x => <<y, x>> \in R
  OBVIOUS
<1> HIDE DEF R
<1>3. PICK x \in T : \A y \in T : ~ (<<y, x>> \in R)
  BY <1>1, WFMin
<1>4. ASSUME NEW y \in T PROVE x <= y
  <2>1. x \in Nat /\ y \in Nat /\ ~(y < x)
    BY <1>2, <1>3
  <2> QED
    BY <2>1
<1> QED
  BY <1>4

\* out is what is kept of the first n names of s, without those of S, and each
\* once when it says so.
Skips(out, S, once, o) == o \in S \/ (once /\ o \in ToSet(out))
Keeps(out, s, S, once, n) ==
  out = [d \in 0..n |-> IF d = 0 THEN << >>
                        ELSE IF Skips(out[d - 1], S, once, s[d]) THEN out[d - 1]
                             ELSE Append(out[d - 1], s[d])]

LEMMA KeepsExists ==
  ASSUME NEW s, NEW S, NEW once, NEW n \in Nat
  PROVE  \E out : Keeps(out, s, S, once, n)
<1> DEFINE F(v, d) == IF Skips(v, S, once, s[d]) THEN v ELSE Append(v, s[d])
           Is(out, k) == out = [d \in 0..k |-> IF d = 0 THEN << >> ELSE F(out[d - 1], d)]
           T == {k \in Nat : ~ \E out : Is(out, k)}
<1> SUFFICES T = {}
  BY DEF Keeps
<1> HIDE DEF F
<1>1. Is([d \in 0..0 |-> << >>], 0)
  OBVIOUS
<1>2. ASSUME NEW k \in Nat \ {0}, NEW g, Is(g, k - 1)
      PROVE  \E out : Is(out, k)
  <2> DEFINE f == [d \in 0..k |-> IF d = k THEN F(g[k - 1], k) ELSE g[d]]
  <2>1. ASSUME NEW d \in 0..k PROVE f[d] = IF d = 0 THEN << >> ELSE F(f[d - 1], d)
    <3>1. CASE d = 0
      BY <1>2, <3>1
    <3>2. CASE d = k
      <4>1. f[d - 1] = g[k - 1] /\ f[d] = F(g[k - 1], k)
        BY <3>2
      <4> QED
        BY <3>2, <4>1
    <3>3. CASE d # 0 /\ d # k
      <4>1. f[d] = g[d] /\ f[d - 1] = g[d - 1] /\ d \in 0..(k - 1)
        BY <3>3
      <4>2. g[d] = F(g[d - 1], d)
        BY <1>2, <3>3, <4>1
      <4> QED
        BY <3>3, <4>1, <4>2
    <3> QED
      BY <3>1, <3>2, <3>3
  <2>2. f = [d \in 0..k |-> f[d]]
    OBVIOUS
  <2> HIDE DEF f
  <2>3. [d \in 0..k |-> f[d]] = [d \in 0..k |-> IF d = 0 THEN << >> ELSE F(f[d - 1], d)]
    BY <2>1
  <2> QED
    BY <2>2, <2>3
<1>3. ASSUME T # {} PROVE FALSE
  <2>1. PICK k \in T : \A l \in T : k <= l
    BY <1>3, Smallest
  <2>2. k # 0
    BY <1>1, <2>1
  <2>3. k \in Nat \ {0} /\ k - 1 \in Nat /\ k - 1 \notin T
    BY <2>1, <2>2
  <2> HIDE DEF Is
  <2>4. PICK g : Is(g, k - 1)
    BY <2>3
  <2>5. \E out : Is(out, k)
    BY <1>2, <2>3, <2>4
  <2> QED
    BY <2>1, <2>5
<1> QED
  BY <1>3

\* What has been kept so far: some of the names, in a sequence; and, each once,
\* all of them but those of S.
Kept(v, s, S, once, n) ==
  /\ v \in Seq(Names)
  /\ once => /\ \A i, j \in 1..Len(v) : v[i] = v[j] => i = j
             /\ ToSet(v) = {s[i] : i \in 1..n} \ S

LEMMA KeptNext ==
  ASSUME NEW s \in Seq(Names), NEW S, NEW once \in BOOLEAN, NEW n \in 1..Len(s),
         NEW v, Kept(v, s, S, once, n - 1)
  PROVE  Kept(IF Skips(v, S, once, s[n]) THEN v ELSE Append(v, s[n]), s, S, once, n)
<1>1. s[n] \in Names /\ v \in Seq(Names)
  BY DEF Kept
<1>2. {s[i] : i \in 1..n} = {s[i] : i \in 1..(n - 1)} \cup {s[n]}
  OBVIOUS
<1>3. CASE Skips(v, S, once, s[n])
  <2>1. once => {s[i] : i \in 1..n} \ S = {s[i] : i \in 1..(n - 1)} \ S
    BY <1>2, <1>3 DEF Skips, Kept
  <2> QED
    BY <1>3, <2>1 DEF Kept
<1>4. CASE ~Skips(v, S, once, s[n])
  <2> DEFINE w == Append(v, s[n])
  <2>1. /\ w \in Seq(Names) /\ Len(w) = Len(v) + 1 /\ Len(v) \in Nat
        /\ w[Len(v) + 1] = s[n] /\ \A i \in 1..Len(v) : w[i] = v[i]
    BY <1>1, AppendProperties
  <2> HIDE DEF w
  <2>2. ToSet(w) = ToSet(v) \cup {s[n]}
    <3>1. DOMAIN w = 1..(Len(v) + 1) /\ DOMAIN v = 1..Len(v)
      BY <1>1, <2>1, LenProperties
    <3>2. 1..(Len(v) + 1) = 1..Len(v) \cup {Len(v) + 1}
      BY <2>1
    <3> QED
      BY <2>1, <3>1, <3>2, SMTT(20) DEF ToSet
  <2>3. ASSUME once PROVE s[n] \notin S /\ s[n] \notin ToSet(v)
    BY <1>4, <2>3 DEF Skips
  <2>4. ASSUME once PROVE ToSet(w) = {s[i] : i \in 1..n} \ S
    BY <1>2, <2>2, <2>3, <2>4 DEF Kept
  <2>5. ASSUME once, NEW i \in 1..Len(w), NEW j \in 1..Len(w), w[i] = w[j] PROVE i = j
    <3>1. \A k \in 1..Len(v) : v[k] # s[n]
      <4>1. DOMAIN v = 1..Len(v)
        BY <1>1, LenProperties
      <4> QED
        BY <2>3, <2>5, <4>1 DEF ToSet
    <3>2. \A k \in 1..Len(w) : k \in 1..Len(v) \/ k = Len(v) + 1
      BY <2>1
    <3> QED
      BY <2>1, <2>5, <3>1, <3>2 DEF Kept
  <2>6. Kept(w, s, S, once, n)
    BY <2>1, <2>4, <2>5 DEF Kept
  <2> QED
    BY <1>4, <2>6 DEF w
<1> QED
  BY <1>3, <1>4

LEMMA KeepsKept ==
  ASSUME NEW s \in Seq(Names), NEW S, NEW once \in BOOLEAN, NEW out,
         Keeps(out, s, S, once, Len(s))
  PROVE  Kept(out[Len(s)], s, S, once, Len(s))
<1> DEFINE T == {k \in 0..Len(s) : ~Kept(out[k], s, S, once, k)}
<1>1. Len(s) \in Nat
  OBVIOUS
<1>2. /\ out[0] = << >>
      /\ \A k \in 1..Len(s) : out[k] = IF Skips(out[k - 1], S, once, s[k]) THEN out[k - 1]
                                       ELSE Append(out[k - 1], s[k])
  <2> DEFINE G(d) == IF d = 0 THEN << >>
                     ELSE IF Skips(out[d - 1], S, once, s[d]) THEN out[d - 1]
                          ELSE Append(out[d - 1], s[d])
  <2>1. out = [d \in 0..Len(s) |-> G(d)]
    BY DEF Keeps
  <2>2. \A d \in 0..Len(s) : G(d) = IF d = 0 THEN << >>
                     ELSE IF Skips(out[d - 1], S, once, s[d]) THEN out[d - 1]
                          ELSE Append(out[d - 1], s[d])
    OBVIOUS
  <2> HIDE DEF G
  <2>3. \A d \in 0..Len(s) : out[d] = G(d)
    BY <2>1
  <2>4. 0 \in 0..Len(s) /\ \A d \in 1..Len(s) : d \in 0..Len(s) /\ d # 0
    BY <1>1
  <2> QED
    BY <2>2, <2>3, <2>4
<1>3. Kept(out[0], s, S, once, 0)
  BY <1>2 DEF Kept, ToSet
<1>4. ASSUME T # {} PROVE FALSE
  <2>1. PICK k \in T : \A l \in T : k <= l
    <3>1. T \subseteq Nat
      BY <1>1
    <3> QED
      BY <1>4, <3>1, Smallest
  <2>2. k # 0
    BY <1>3, <2>1
  <2>3. k \in 1..Len(s) /\ k - 1 \in 0..Len(s) /\ k - 1 \notin T
    BY <2>1, <2>2
  <2>4. Kept(out[k - 1], s, S, once, k - 1)
    BY <2>3
  <2>5. Kept(out[k], s, S, once, k)
    BY <1>2, <2>3, <2>4, KeptNext
  <2> QED
    BY <2>1, <2>5
<1> QED
  BY <1>1, <1>4

\* The names no local source answers are names.
LEMMA NeededNames ==
  ASSUME NEW p \in Pass
  PROVE  Needed(p) \in Seq(Names)
<1> DEFINE s == p.bad
           S == p.local
           Is(out) == out = [n \in 0..Len(s) |->
                              IF n = 0 THEN << >>
                              ELSE IF s[n] \in S THEN out[n - 1] ELSE Append(out[n - 1], s[n])]
<1>1. s \in Seq(Names)
  BY DEF Pass
<1>2. \A out : Is(out) <=> Keeps(out, s, S, FALSE, Len(s))
  BY DEF Keeps, Skips
<1>3. \E out : Is(out)
  <2>1. Len(s) \in Nat
    BY <1>1
  <2> QED
    BY <1>2, <2>1, KeepsExists
<1>4. Needed(p) = (CHOOSE out : Is(out))[Len(s)]
  BY DEF Needed
<1> HIDE DEF Is, s, S
<1>5. PICK out : Is(out) /\ Needed(p) = out[Len(s)]
  BY <1>3, <1>4
<1>6. Kept(out[Len(s)], s, S, FALSE, Len(s))
  BY <1>1, <1>2, <1>5, KeepsKept
<1> QED
  BY <1>5, <1>6 DEF Kept

\* missing names what has not been asked for and is not here, each once.
LEMMA MissingOnce ==
  ASSUME NEW s \in Seq(Names)
  PROVE  /\ missing(s) \in Seq(Names)
         /\ \A i, j \in 1..Len(missing(s)) : missing(s)[i] = missing(s)[j] => i = j
         /\ ToSet(missing(s)) = ToSet(s) \ (asked \cup visible)
<1> DEFINE S == asked \cup visible
           Is(out) == out = [n \in 0..Len(s) |->
                              IF n = 0 THEN << >>
                              ELSE IF s[n] \in S \cup ToSet(out[n - 1]) THEN out[n - 1]
                                   ELSE Append(out[n - 1], s[n])]
<1>1. missing(s) = (CHOOSE out : Is(out))[Len(s)]
  BY DEF missing
<1> HIDE DEF S
<1>2. \A out : Is(out) <=> Keeps(out, s, S, TRUE, Len(s))
  BY DEF Keeps, Skips
<1>3. \E out : Is(out)
  <2>1. Len(s) \in Nat
    OBVIOUS
  <2> QED
    BY <1>2, <2>1, KeepsExists
<1> HIDE DEF Is
<1>4. PICK out : Is(out) /\ missing(s) = out[Len(s)]
  BY <1>1, <1>3
<1>5. Kept(out[Len(s)], s, S, TRUE, Len(s))
  BY <1>2, <1>4, KeepsKept
<1>6. ToSet(s) = {s[i] : i \in 1..Len(s)}
  BY LenProperties DEF ToSet
<1> QED
  BY <1>4, <1>5, <1>6 DEF Kept, S

\* What the objects of a set lead to, they themselves among it.
LEMMA BelowContains ==
  ASSUME NEW S, S \subseteq Names
  PROVE  S \subseteq Rung!Below(S) /\ Rung!Below(S) \subseteq Names
BY DEF Rung!Below

LEMMA BelowGrows ==
  ASSUME NEW S, NEW T, S \subseteq T
  PROVE  Rung!Below(S) \subseteq Rung!Below(T)
BY DEF Rung!Below

\* A batch is the head of what is to be sent, and has a name once at most.
LEMMA BatchOnce ==
  ASSUME rest \in Seq(Names), rest # << >>,
         \A i, j \in 1..Len(rest) : rest[i] = rest[j] => i = j
  PROVE  LET left == SubSeq(rest, Len(Batch) + 1, Len(rest))
         IN  /\ left \in Seq(Names)
             /\ \A i, j \in 1..Len(left) : left[i] = left[j] => i = j
             /\ ToSet(Batch) \subseteq ToSet(rest)
             /\ ToSet(left) = ToSet(rest) \ ToSet(Batch)
             /\ \A o \in Names : Times(o) = IF o \in ToSet(Batch) THEN 1 ELSE 0
<1> DEFINE n == IF Len(rest) < WantBatch THEN Len(rest) ELSE WantBatch
           left == SubSeq(rest, Len(Batch) + 1, Len(rest))
<1>1. Len(rest) \in Nat /\ n \in 1..Len(rest)
  BY EmptySeq, RemoteAssumption
<1>2. Batch = SubSeq(rest, 1, n)
  BY DEF Batch
<1> HIDE DEF n
<1>3. Batch \in Seq(Names) /\ Len(Batch) = n /\ \A i \in 1..n : Batch[i] = rest[i]
  BY <1>1, <1>2, SubSeqProperties
<1>4. /\ left \in Seq(Names) /\ Len(left) = Len(rest) - n
      /\ \A i \in 1..(Len(rest) - n) : left[i] = rest[n + i]
  BY <1>1, <1>3, SubSeqProperties
<1> HIDE DEF left
<1>5. /\ ToSet(rest) = {rest[i] : i \in 1..Len(rest)}
      /\ ToSet(Batch) = {rest[i] : i \in 1..n}
  BY <1>3, LenProperties DEF ToSet
<1>6. ToSet(left) = {rest[i] : i \in (n + 1)..Len(rest)}
  <2>1. ToSet(left) = {left[i] : i \in 1..(Len(rest) - n)}
    BY <1>4, LenProperties DEF ToSet
  <2>2. ASSUME NEW i \in (n + 1)..Len(rest)
        PROVE  i - n \in 1..(Len(rest) - n) /\ left[i - n] = rest[i]
    BY <1>1, <1>4
  <2>3. ASSUME NEW i \in 1..(Len(rest) - n)
        PROVE  n + i \in (n + 1)..Len(rest) /\ left[i] = rest[n + i]
    BY <1>1, <1>4
  <2>4. ToSet(left) \subseteq {rest[i] : i \in (n + 1)..Len(rest)}
    BY <2>1, <2>3
  <2>5. {rest[i] : i \in (n + 1)..Len(rest)} \subseteq ToSet(left)
    BY <2>1, <2>2
  <2> QED
    BY <2>4, <2>5
<1>7. \A i, j \in 1..Len(left) : left[i] = left[j] => i = j
  BY <1>1, <1>4
<1>8. ToSet(left) = ToSet(rest) \ ToSet(Batch)
  BY <1>1, <1>5, <1>6
<1>9. ASSUME NEW o \in Names PROVE Times(o) = IF o \in ToSet(Batch) THEN 1 ELSE 0
  <2> DEFINE at == {i \in 1..Len(Batch) : Batch[i] = o}
  <2>1. Times(o) = Cardinality(at)
    BY DEF Times
  <2>2. CASE o \in ToSet(Batch)
    <3>1. PICK i \in 1..n : rest[i] = o
      BY <1>5, <2>2
    <3>2. at = {i}
      BY <1>1, <1>3, <3>1
    <3> QED
      BY <2>1, <2>2, <3>2, FS_Singleton
  <2>3. CASE o \notin ToSet(Batch)
    <3>1. at = {}
      BY <1>3, <1>5, <2>3
    <3> QED
      BY <2>1, <2>3, <3>1, FS_EmptySet
  <2> QED
    BY <2>2, <2>3
<1>10. ToSet(Batch) \subseteq ToSet(rest)
  BY <1>1, <1>5
<1> QED
  BY <1>4, <1>7, <1>8, <1>9, <1>10 DEF left

(***************************************************************************)
(* The steps keep the invariant.                                           *)
(***************************************************************************)

LEMMA InitKeeps == Init => IInv
<1> SUFFICES ASSUME Init PROVE IInv
  OBVIOUS
<1>1. TypeOK
  <2>1. need \in Seq(Names) /\ rest \in Seq(Names)
    BY EmptySeq DEF Init
  <2>2. pass \in 0..MaxPasses
    BY RemoteAssumption DEF Init
  <2> QED
    BY <2>1, <2>2 DEF Init, TypeOK
<1>2. Places /\ Settled /\ Came /\ ToSend /\ LeftOut
  BY DEF Init, Places, Settled, Came, ToSend, LeftOut, Fetching, Busy
<1>3. Sent /\ AskedOnce /\ Copied
  BY DEF Init, Sent, AskedOnce, Copied
<1>4. HadOrExplained
  BY EmptySeq DEF Init, HadOrExplained, ToSet
<1> QED
  BY <1>1, <1>2, <1>3, <1>4 DEF IInv

\* Prime of a pass begins with what the last one left.
LEMMA PrimeKeeps ==
  ASSUME IInv, Prime
  PROVE  IInv'
<1> USE DEF IInv
<1>1. /\ pc = "idle" /\ pass' \in 0..MaxPasses /\ before' = visible
      /\ UNCHANGED <<url, everyRef, byName, rest, open, remoteErr, asked, everything, scratch,
                     anchored, visible, sent, copies>>
  <2>1. pass \in 0..MaxPasses /\ pass' = pass + 1 /\ (pass < MaxPasses \/ pass < 1)
    BY DEF Prime, TypeOK
  <2>2. pass' \in 0..MaxPasses
    BY <2>1, RemoteAssumption
  <2> QED
    BY <2>2 DEF Prime, config, counters
<1>2. PICK p \in Passes :
        /\ need' = Needed(p)
        /\ pc' = IF ~Consults(p) THEN "idle" ELSE IF open THEN "want" ELSE "open"
  BY DEF Prime
<1>3. need' \in Seq(Names)
  BY <1>2, NeededNames, RemoteAssumption
<1>4. /\ pc' \in {"idle", "open", "want"}
      /\ pc' = "idle" => remoteErr # "none" \/ need' = << >>
      /\ pc' # "idle" => remoteErr = "none" /\ need' # << >> /\ (pc' = "open" <=> ~open)
  BY <1>2 DEF Consults
<1>5. TypeOK'
  BY <1>1, <1>3, <1>4 DEF TypeOK
<1>6. Places'
  BY <1>1, <1>4 DEF Places, Fetching, Busy
<1>7. Settled'
  BY <1>1, <1>4 DEF Settled, Fetching
<1>8. Came' /\ ToSend'
  BY <1>4 DEF Came, ToSend, Fetching
<1>9. AskedOnce' /\ Sent' /\ Copied' /\ LeftOut'
  <2>1. AskedOnce' /\ Copied'
    BY <1>1 DEF AskedOnce, Copied
  <2>2. Sent'
    BY <1>1, <1>4 DEF Sent
  <2>3. LeftOut'
    BY <1>1 DEF LeftOut
  <2> QED
    BY <2>1, <2>2, <2>3
<1>10. HadOrExplained'
  <2>1. pc' = "idle" /\ need' = << >> => ToSet(need') = {}
    BY EmptySeq DEF ToSet
  <2> QED
    BY <1>1, <1>4, <2>1 DEF HadOrExplained, Reported, Places
<1> QED
  BY <1>5, <1>6, <1>7, <1>8, <1>9, <1>10

\* The remote opens, or fails before anything is in its repository.
LEMMA OpenRemoteKeeps ==
  ASSUME IInv, OpenRemote
  PROVE  IInv'
<1> USE DEF IInv
<1>1. /\ pc = "open"
      /\ UNCHANGED <<url, everyRef, byName, pass, need, rest, asked, everything, scratch,
                     anchored, visible, sent, copies, before>>
  BY DEF OpenRemote, config, counters
<1>2. \/ pc' = "idle" /\ remoteErr' \in {"noRemote", "init"} /\ open' = open
         /\ (url => remoteErr' # "noRemote")
      \/ pc' = "want" /\ remoteErr' = remoteErr /\ open' = TRUE /\ url
  BY DEF OpenRemote
<1>3. TypeOK' /\ Places'
  BY <1>1, <1>2 DEF TypeOK, Places, Fetching, Busy
<1>4. Settled' /\ Came' /\ ToSend'
  BY <1>1, <1>2 DEF Settled, Came, ToSend, Fetching, Places, Busy
<1>5. AskedOnce' /\ Copied' /\ LeftOut'
  <2>1. AskedOnce' /\ LeftOut'
    BY <1>1 DEF AskedOnce, LeftOut
  <2>2. Copied'
    BY <1>1, <1>2 DEF Copied, Places, Busy
  <2> QED
    BY <2>1, <2>2
<1>6. Sent'
  BY <1>1, <1>2 DEF Sent
<1>7. HadOrExplained'
  BY <1>1, <1>2 DEF HadOrExplained, Reported
<1> QED
  BY <1>3, <1>4, <1>5, <1>6, <1>7

\* want goes on with what is here, or begins to send the names that are not.
LEMMA WantKeeps ==
  ASSUME IInv, Want
  PROVE  IInv'
<1> USE DEF IInv
<1>1. /\ pc = "want" /\ need \in Seq(Names) /\ before = visible
      /\ UNCHANGED <<url, everyRef, byName, pass, need, open, remoteErr, asked, everything,
                     scratch, anchored, visible, sent, copies, before>>
  BY DEF Want, config, counters, TypeOK, Settled
<1>2. /\ missing(need) \in Seq(Names)
      /\ \A i, j \in 1..Len(missing(need)) : missing(need)[i] = missing(need)[j] => i = j
      /\ ToSet(missing(need)) = Wanted
  BY <1>1, MissingOnce DEF Wanted, Settled
<1> DEFINE ms == missing(need)
<1>3. ms = << >> => Wanted = {}
  BY <1>2, EmptySeq DEF ToSet
<1>4. ms # << >> => Wanted # {}
  <2>1. ms # << >> => Len(ms) # 0 /\ Len(ms) \in Nat
    BY <1>2, EmptySeq
  <2>2. DOMAIN ms = 1..Len(ms)
    BY <1>2, LenProperties
  <2> QED
    BY <1>2, <2>1, <2>2 DEF ToSet
<1>5. \/ pc' = "idle" /\ rest' = rest /\ (everything \/ ms = << >>)
      \/ pc' = "byName" /\ rest' = ms /\ ~everything /\ ms # << >>
  BY DEF Want
<1> HIDE DEF ms
<1>6. ms \in Seq(Names) /\ \A i, j \in 1..Len(ms) : ms[i] = ms[j] => i = j
  BY <1>2 DEF ms
<1>7. Wanted' = Wanted /\ ToSet(ms) = Wanted /\ Wanted \cap visible = {}
  BY <1>1, <1>2 DEF Wanted, ms
<1>8. TypeOK'
  BY <1>1, <1>5, <1>6 DEF TypeOK
<1>9. Places'
  BY <1>1, <1>4, <1>5, <1>7 DEF Places, Fetching, Busy
<1>10. Settled'
  BY <1>1, <1>5 DEF Settled, Fetching
<1>11. pc' = "byName" => anchored = asked /\ visible = scratch /\ asked \subseteq visible
  BY <1>1, <1>5 DEF Settled, Places, Busy
<1>12. Came'
  BY <1>1, <1>5, <1>11 DEF Came, Fetching
<1>13. ToSend'
  BY <1>1, <1>5, <1>6, <1>7, <1>11 DEF ToSend
<1>14. AskedOnce' /\ LeftOut'
  BY <1>1 DEF AskedOnce, LeftOut
<1>15. Copied' /\ Sent'
  BY <1>1, <1>5 DEF Copied, Sent
<1>16. HadOrExplained'
  BY <1>1, <1>3, <1>5 DEF HadOrExplained, LeftOut, Wanted, TypeOK
<1> QED
  BY <1>8, <1>9, <1>10, <1>12, <1>13, <1>14, <1>15, <1>16

\* A batch that comes through brings its names, and what they lead to.
LEMMA FetchBatchKeeps ==
  ASSUME IInv, FetchBatch
  PROVE  IInv'
<1> USE DEF IInv
<1> DEFINE B == ToSet(Batch)
           left == SubSeq(rest, Len(Batch) + 1, Len(rest))
<1>1. /\ pc = "byName" /\ pc' = "byName" /\ rest # << >> /\ rest \in Seq(Names) /\ url
      /\ B \subseteq Remote /\ rest' = left /\ anchored' = anchored \cup B
      /\ sent' = [o \in Names |-> sent[o] + Times(o)]
      /\ UNCHANGED <<url, everyRef, byName, pass, need, open, remoteErr, asked, everything,
                     copies, before>>
  BY DEF FetchBatch, config, TypeOK, Rung!Serves
<1>2. /\ \A i, j \in 1..Len(rest) : rest[i] = rest[j] => i = j
      /\ ToSet(rest) \cap anchored = {} /\ Wanted = ToSet(rest) \cup (anchored \ asked)
  BY <1>1 DEF ToSend
<1>3. /\ left \in Seq(Names) /\ \A i, j \in 1..Len(left) : left[i] = left[j] => i = j
      /\ B \subseteq ToSet(rest) /\ ToSet(left) = ToSet(rest) \ B
      /\ \A o \in Names : Times(o) = IF o \in B THEN 1 ELSE 0
  BY <1>1, <1>2, BatchOnce
<1>4. PICK b \in Rung!Brought(B), loose \in BOOLEAN :
        /\ scratch' = scratch \cup b
        /\ visible' = IF loose THEN visible \cup b ELSE visible
  BY DEF FetchBatch
<1>5. B \subseteq b /\ b \subseteq B \cup (Rung!Below(B) \cap Remote)
  BY DEF Rung!Brought
<1> HIDE DEF B, left
<1>6. B \subseteq Names /\ B \subseteq Rung!Below(B)
  BY <1>1, RemoteAssumption, BelowContains
<1>7. b \subseteq Remote /\ B \subseteq b /\ b \subseteq Rung!Below(B)
  BY <1>1, <1>5, <1>6
<1>8. /\ Wanted' = Wanted /\ B \subseteq Wanted /\ asked \subseteq anchored
      /\ before \subseteq visible /\ visible \subseteq scratch /\ anchored \subseteq scratch
  BY <1>1, <1>2, <1>3 DEF Wanted, TypeOK
<1>9. TypeOK'
  <2>1. rest' \in Seq(Names) /\ need' \in Seq(Names)
    BY <1>1, <1>3 DEF TypeOK
  <2> QED
    BY <1>1, <1>4, <1>7, <2>1 DEF TypeOK
<1>10. Places'
  BY <1>1, <1>8 DEF Places, Fetching, Busy
<1>11. Settled'
  BY <1>1, <1>4 DEF Settled, Fetching, Places
<1>12. Came'
  <2>1. /\ Here(visible') = Here(visible)' /\ Here(scratch') = Here(scratch)'
        /\ Here(visible) \subseteq Here(visible') /\ Here(scratch) \subseteq Here(scratch')
        /\ B \subseteq Here(scratch') /\ (loose => B \subseteq Here(visible'))
    BY <1>4, <1>7, <1>8 DEF Here
  <2>2. /\ Rung!Below(Here(visible)) \subseteq Rung!Below(Here(visible'))
        /\ Rung!Below(Here(scratch)) \subseteq Rung!Below(Here(scratch'))
        /\ Rung!Below(B) \subseteq Rung!Below(Here(scratch'))
        /\ loose => Rung!Below(B) \subseteq Rung!Below(Here(visible'))
    BY <2>1, BelowGrows
  <2>3. /\ visible \subseteq before \cup Rung!Below(Here(visible))
        /\ scratch \subseteq before \cup Rung!Below(Here(scratch))
        /\ anchored \ asked \subseteq Wanted
    BY <1>1 DEF Came, Fetching
  <2>4. /\ visible' \subseteq before \cup Rung!Below(Here(visible'))
        /\ scratch' \subseteq before \cup Rung!Below(Here(scratch'))
    BY <1>4, <1>7, <2>2, <2>3
  <2>5. anchored' \ asked' \subseteq Wanted'
    BY <1>1, <1>8, <2>3
  <2> QED
    BY <1>1, <2>1, <2>4, <2>5 DEF Came
<1>13. ToSend'
  <2>1. ToSet(rest') \cap anchored' = {}
    BY <1>1, <1>2, <1>3
  <2>2. asked \cap B = {}
    BY <1>1, <1>2, <1>3, <1>8
  <2>3. Wanted' = ToSet(rest') \cup (anchored' \ asked')
    BY <1>1, <1>2, <1>3, <1>8, <2>2
  <2> QED
    BY <1>1, <1>3, <2>1, <2>3 DEF ToSend
<1>14. AskedOnce' /\ Sent'
  <2>1. sent \in [Names -> Nat] /\ \A o \in Names : sent[o] <= 1
    BY DEF Sent, AskedOnce
  <2>2. \A o \in Names : sent'[o] = IF o \in B THEN sent[o] + 1 ELSE sent[o]
    BY <1>1, <1>3, <2>1
  <2>3. \A o \in B : o \in Names /\ sent[o] = 0
    <3>1. ASSUME NEW o \in B PROVE o \notin anchored /\ o \in Names
      BY <1>2, <1>3, <1>6
    <3>2. ~everything /\ remoteErr = "none"
      BY <1>1 DEF Places, Fetching, Busy
    <3> QED
      BY <1>1, <2>1, <3>1, <3>2 DEF Sent
  <2>4. sent' \in [Names -> Nat]
    BY <1>1, <1>3, <2>1
  <2>5. AskedOnce'
    BY <2>1, <2>2, <2>3 DEF AskedOnce
  <2>6. ASSUME NEW o \in Names, sent'[o] > 0
        PROVE  o \in anchored' \/ everything' \/ remoteErr' # "none" \/ pc' = "every"
    BY <1>1, <2>2, <2>6 DEF Sent
  <2> QED
    BY <2>4, <2>5, <2>6 DEF Sent
<1>15. Copied'
  BY <1>1 DEF Copied
<1>16. LeftOut' /\ HadOrExplained'
  BY <1>1 DEF LeftOut, HadOrExplained, Places, Fetching
<1> QED
  BY <1>9, <1>10, <1>11, <1>12, <1>13, <1>14, <1>15, <1>16

\* A batch that fails has been sent all the same.
LEMMA BatchFailsKeeps ==
  ASSUME IInv, BatchFails
  PROVE  IInv'
<1> USE DEF IInv
<1> DEFINE B == ToSet(Batch)
<1>1. /\ pc = "byName" /\ rest # << >> /\ rest \in Seq(Names) /\ rest' = << >>
      /\ sent' = [o \in Names |-> sent[o] + Times(o)]
      /\ UNCHANGED <<url, everyRef, byName, pass, need, open, asked, everything, scratch,
                     anchored, visible, copies, before>>
  BY DEF BatchFails, config, TypeOK
<1>2. \/ everyRef /\ pc' = "every" /\ remoteErr' = remoteErr
      \/ ~everyRef /\ pc' = "idle" /\ remoteErr' = "wouldClone"
  BY DEF BatchFails
<1>3. /\ \A i, j \in 1..Len(rest) : rest[i] = rest[j] => i = j
      /\ ToSet(rest) \cap anchored = {}
  BY <1>1 DEF ToSend
<1>4. /\ B \subseteq ToSet(rest)
      /\ \A o \in Names : Times(o) = IF o \in B THEN 1 ELSE 0
  BY <1>1, <1>3, BatchOnce
<1> HIDE DEF B
<1>5. ~everything /\ remoteErr = "none" /\ Wanted' = Wanted
  BY <1>1 DEF Places, Fetching, Busy, Wanted
<1>6. TypeOK'
  BY <1>1, <1>2, EmptySeq DEF TypeOK
<1>7. Places'
  BY <1>1, <1>2, <1>5 DEF Places, Fetching, Busy
<1>8. Settled'
  BY <1>1, <1>2, <1>5 DEF Settled, Fetching
<1>9. Came'
  <2>1. Here(visible)' = Here(visible) /\ Here(scratch)' = Here(scratch)
    BY <1>1, <1>5 DEF Here
  <2> QED
    BY <1>1, <1>5, <2>1 DEF Came, Fetching
<1>10. ToSend'
  BY <1>2 DEF ToSend
<1>11. AskedOnce' /\ Sent'
  <2>1. sent \in [Names -> Nat] /\ \A o \in Names : sent[o] <= 1
    BY DEF Sent, AskedOnce
  <2>2. \A o \in Names : sent'[o] = IF o \in B THEN sent[o] + 1 ELSE sent[o]
    BY <1>1, <1>4, <2>1
  <2>3. \A o \in Names : o \in B => sent[o] = 0
    <3>1. \A o \in B : o \notin anchored
      BY <1>3, <1>4
    <3> QED
      BY <1>1, <1>5, <2>1, <3>1 DEF Sent
  <2>4. sent' \in [Names -> Nat]
    BY <1>1, <1>4, <2>1
  <2>5. AskedOnce'
    BY <2>1, <2>2, <2>3 DEF AskedOnce
  <2> QED
    BY <1>2, <2>4, <2>5 DEF Sent
<1>12. Copied' /\ LeftOut'
  BY <1>1, <1>5 DEF Copied, LeftOut
<1>13. HadOrExplained'
  BY <1>2 DEF HadOrExplained, Reported
<1> QED
  BY <1>6, <1>7, <1>8, <1>9, <1>10, <1>11, <1>12, <1>13

\* Once every batch came through, all of what was wanted is here.
LEMMA EndByNameKeeps ==
  ASSUME IInv, EndByName
  PROVE  IInv'
<1> USE DEF IInv
<1>1. /\ pc = "byName" /\ pc' = "idle" /\ rest = << >> /\ visible' = scratch
      /\ asked' = asked \cup (ToSet(need) \cap anchored)
      /\ UNCHANGED <<url, everyRef, byName, pass, need, rest, open, remoteErr, everything,
                     scratch, anchored, sent, copies, before>>
  BY DEF EndByName, reopen, config, counters
<1>2. Wanted = anchored \ asked /\ Wanted \subseteq ToSet(need) /\ ToSet(need) \subseteq Wanted \cup before
  <2>1. ToSet(rest) = {}
    BY <1>1, EmptySeq DEF ToSet
  <2> QED
    BY <1>1, <2>1 DEF ToSend, Wanted
<1>3. /\ asked \subseteq anchored /\ anchored \subseteq scratch
      /\ visible \subseteq scratch /\ before \subseteq visible
  BY DEF TypeOK
<1>4. asked' = anchored
  BY <1>1, <1>2, <1>3
<1>5. ~everything /\ remoteErr = "none" /\ open
  BY <1>1 DEF Places, Fetching, Busy
<1>6. TypeOK'
  BY <1>1, <1>3, <1>4 DEF TypeOK
<1>7. Places'
  BY <1>1, <1>5 DEF Places, Fetching, Busy
<1>8. Settled'
  BY <1>1, <1>3, <1>4, <1>5 DEF Settled, Fetching
<1>9. Came' /\ ToSend' /\ LeftOut'
  BY <1>1, <1>5 DEF Came, ToSend, LeftOut, Fetching
<1>10. AskedOnce' /\ Sent' /\ Copied'
  BY <1>1 DEF AskedOnce, Sent, Copied
<1>11. HadOrExplained'
  BY <1>1, <1>2, <1>3 DEF HadOrExplained
<1> QED
  BY <1>6, <1>7, <1>8, <1>9, <1>10, <1>11

\* The fetch of every ref leaves out only what lies below what was here.
LEMMA FetchEveryRefKeeps ==
  ASSUME IInv, FetchEveryRef
  PROVE  IInv'
<1> USE DEF IInv
<1>1. /\ pc = "every" /\ pc' = "idle" /\ copies' = copies + 1
      /\ UNCHANGED <<url, everyRef, byName, pass, need, rest, open, asked, anchored, sent, before>>
  BY DEF FetchEveryRef, config
<1>2. ~everything /\ remoteErr = "none" /\ open /\ everyRef
  BY <1>1 DEF Places, Fetching, Busy
<1>3. copies' = 1
  <2>1. copies \in Nat /\ copies <= 1 /\ copies # 1
    BY <1>2 DEF Copied
  <2> QED
    BY <1>1, <2>1
<1>4. AskedOnce' /\ Sent' /\ Came' /\ ToSend'
  <2>1. AskedOnce' /\ Came' /\ ToSend'
    BY <1>1 DEF AskedOnce, Came, ToSend, Fetching
  <2>2. remoteErr' # "none" \/ everything'
    BY DEF FetchEveryRef, GotEverything
  <2>3. Sent'
    BY <1>1, <2>2 DEF Sent
  <2> QED
    BY <2>1, <2>3
<1>5. CASE remoteErr' = "fetch" /\ UNCHANGED <<scratch, visible, everything>>
  <2>1. TypeOK' /\ Places'
    BY <1>1, <1>2, <1>5 DEF TypeOK, Places, Fetching, Busy
  <2>2. Settled' /\ Copied' /\ LeftOut' /\ HadOrExplained'
    BY <1>1, <1>2, <1>3, <1>5 DEF Settled, Copied, LeftOut, HadOrExplained, Reported, Fetching
  <2> QED
    BY <1>4, <2>1, <2>2
<1>6. CASE /\ \E out \in SUBSET Rung!Below(anchored) : scratch' = scratch \cup (Remote \ out)
           /\ everything' = TRUE /\ visible' = scratch' /\ remoteErr' = remoteErr
  <2>1. PICK out \in SUBSET Rung!Below(anchored) : scratch' = scratch \cup (Remote \ out)
    BY <1>6
  <2>2. asked \subseteq anchored /\ anchored \subseteq scratch /\ visible \subseteq scratch
        /\ before \subseteq visible /\ asked \subseteq visible
    BY DEF TypeOK, Settled
  <2>3. TypeOK'
    BY <1>1, <1>6, <2>1, <2>2 DEF TypeOK
  <2>4. Places'
    BY <1>1, <1>2, <1>6 DEF Places, Fetching, Busy
  <2>5. Settled' /\ Copied'
    BY <1>1, <1>2, <1>3, <1>6, <2>1, <2>2 DEF Settled, Copied, Fetching
  <2>6. \A o \in Remote : o \in visible' \/ o \in Rung!Below(anchored) \ anchored
    BY <1>6, <2>1, <2>2
  <2>7. LeftOut' /\ HadOrExplained'
    BY <1>1, <1>6, <2>6 DEF LeftOut, HadOrExplained
  <2> QED
    BY <1>4, <2>3, <2>4, <2>5, <2>7
<1> QED
  BY <1>5, <1>6 DEF FetchEveryRef, GotEverything, reopen

LEMMA NextKeeps ==
  ASSUME IInv, [Next]_vars
  PROVE  IInv'
<1>1. ASSUME \/ UNCHANGED vars
             \/ pc = "idle" /\ pc' = "closed"
                /\ UNCHANGED <<config, pass, need, rest, open, remoteErr, asked, everything,
                               scratch, anchored, visible, counters, before>>
      PROVE  IInv'
  <2> USE <1>1 DEF vars, config, counters, IInv
  <2>1. TypeOK' /\ Settled'
    BY DEF TypeOK, Settled, Fetching
  <2>2. Came' /\ ToSend'
    BY DEF Came, ToSend, Fetching, Wanted, Here
  <2>3. AskedOnce' /\ Sent' /\ Copied'
    BY DEF AskedOnce, Sent, Copied
  <2>4. LeftOut' /\ HadOrExplained'
    BY DEF LeftOut, HadOrExplained, Reported
  <2>5. Places'
    BY DEF Places, Fetching, Busy, Wanted
  <2> QED
    BY <2>1, <2>2, <2>3, <2>4, <2>5
<1>2. CASE Prime
  BY <1>2, PrimeKeeps
<1>3. CASE OpenRemote
  BY <1>3, OpenRemoteKeeps
<1>4. CASE Want
  BY <1>4, WantKeeps
<1>5. CASE FetchBatch
  BY <1>5, FetchBatchKeeps
<1>6. CASE BatchFails
  BY <1>6, BatchFailsKeeps
<1>7. CASE EndByName
  BY <1>7, EndByNameKeeps
<1>8. CASE FetchEveryRef
  BY <1>8, FetchEveryRefKeeps
<1>9. CASE Close
  BY <1>1, <1>9 DEF Close
<1>10. CASE Rest \/ UNCHANGED vars
  BY <1>1, <1>10 DEF Rest
<1> QED
  BY <1>2, <1>3, <1>4, <1>5, <1>6, <1>7, <1>8, <1>9, <1>10 DEF Next, want

(***************************************************************************)
(* What follows.                                                           *)
(***************************************************************************)

LEMMA Invariance == Spec => []IInv
BY InitKeeps, NextKeeps, PTL DEF Spec

\* docs/repair.md: "Each name asked once", and "it runs at most a single time
\* in a run": over all the passes of a run no name goes out in two fetches, and
\* every ref is fetched once, and never under a plan (Prime, want, missing,
\* fetchByName).
THEOREM NothingAskedAgain == Spec => []Bookkeeping
<1>1. IInv => Bookkeeping
  BY DEF IInv, Bookkeeping, CopiedOnce, Copied
<1> QED
  BY <1>1, Invariance, PTL

\* When a pass goes on, an object it needs that the remote has can be read, or
\* the run can say why not, except for what lies below an object fetched by name
\* before every ref was (Prime, want, reopen, RemoteError).
THEOREM NeedIsMetOrExplained == Spec => []HadOrExplained
<1>1. IInv => HadOrExplained
  BY DEF IInv
<1> QED
  BY <1>1, Invariance, PTL

(***************************************************************************)
(* Prime, step by step, is one step of the rung.                           *)
(***************************************************************************)

\* The rung as the mapping has it.
Had == [got |-> IF Busy THEN before ELSE visible, all |-> everything,
        failed |-> remoteErr # "none"]

\* What came with the names of w: they and some of what they lead to.
LEMMA PartsOf ==
  ASSUME NEW w, NEW m, m \subseteq Rung!Below(w \cap m), m \subseteq Remote
  PROVE  m \in Rung!Parts(w)
<1>1. w \cap m \in SUBSET (w \cap Remote)
  OBVIOUS
<1>2. m = (w \cap m) \cup m /\ m \in SUBSET (Rung!Below(w \cap m) \cap Remote)
  OBVIOUS
<1>3. m \in Rung!Brought(w \cap m)
  BY <1>2 DEF Rung!Brought
<1> QED
  BY <1>1, <1>3 DEF Rung!Parts

LEMMA SameOutcome ==
  ASSUME NEW r, NEW S, r.failed \/ r.all \/ S \ r.got = {}
  PROVE  r \in Rung!Outcomes(r, S)
BY DEF Rung!Outcomes

\* What may come of a rung that has g, asked for the names of S.
Asked(g) == [got |-> g, all |-> FALSE, failed |-> FALSE]

LEMMA SomeOutcome ==
  ASSUME NEW g, NEW S, S \ g # {}
  PROVE  Rung!Outcomes(Asked(g), S) = Rung!ByName(Asked(g), S \ g)
           \cup Rung!ByEveryRef(Asked(g), S \ g) \cup Rung!Fails(Asked(g), S \ g)
<1>1. Asked(g).got = g /\ ~Asked(g).failed /\ ~Asked(g).all
  BY DEF Asked
<1> QED
  BY <1>1 DEF Rung!Outcomes

LEMMA FailedOutcome ==
  ASSUME NEW g, NEW S, NEW m, S \ g # {},
         m \subseteq Rung!Below((S \ g) \cap m), m \subseteq Remote
  PROVE  [got |-> g \cup m, all |-> FALSE, failed |-> TRUE] \in Rung!Outcomes(Asked(g), S)
<1>1. Asked(g).got = g
  BY DEF Asked
<1>2. m \in Rung!Parts(S \ g)
  BY PartsOf
<1>3. [got |-> g \cup m, all |-> FALSE, failed |-> TRUE] \in Rung!Fails(Asked(g), S \ g)
  BY <1>1, <1>2 DEF Rung!Fails
<1> QED
  BY <1>3, SomeOutcome

LEMMA NamedOutcome ==
  ASSUME NEW g, NEW S, NEW m, S \ g # {}, S \ g \subseteq m,
         m \subseteq Rung!Below(S \ g), m \subseteq Remote
  PROVE  Asked(g \cup m) \in Rung!Outcomes(Asked(g), S)
<1>1. Asked(g).got = g
  BY DEF Asked
<1>2. Rung!Serves(S \ g)
  BY DEF Rung!Serves
<1>3. m \in Rung!Brought(S \ g)
  <2>1. m = (S \ g) \cup m /\ m \in SUBSET (Rung!Below(S \ g) \cap Remote)
    OBVIOUS
  <2> QED
    BY <2>1 DEF Rung!Brought
<1>4. [got |-> g \cup m, all |-> FALSE, failed |-> FALSE] \in Rung!ByName(Asked(g), S \ g)
  BY <1>1, <1>2, <1>3 DEF Rung!ByName
<1> QED
  BY <1>4, SomeOutcome DEF Asked

LEMMA CopiedOutcome ==
  ASSUME NEW g, NEW S, NEW m, S \ g # {},
         m \subseteq Rung!Below((S \ g) \cap m), m \subseteq Remote,
         NEW out, out \subseteq Rung!Below(g \cup m)
  PROVE  [got |-> g \cup m \cup (Remote \ out), all |-> TRUE, failed |-> FALSE]
           \in Rung!Outcomes(Asked(g), S)
<1> DEFINE copy == [got |-> g \cup m \cup (Remote \ out), all |-> TRUE, failed |-> FALSE]
<1>1. Asked(g).got = g
  BY DEF Asked
<1>2. m \in Rung!Parts(S \ g)
  BY PartsOf
<1>3. copy \in {[got |-> Asked(g).got \cup m \cup (Remote \ o), all |-> TRUE, failed |-> FALSE] :
                  o \in SUBSET Rung!Below(Asked(g).got \cup m)}
  BY <1>1
<1> HIDE DEF copy
<1>4. copy \in Rung!ByEveryRef(Asked(g), S \ g)
  BY <1>2, <1>3 DEF Rung!ByEveryRef
<1>5. copy \in Rung!Outcomes(Asked(g), S)
  BY <1>4, SomeOutcome
<1> QED
  BY <1>5 DEF copy

\* A step of Prime that goes on with the pass answers.
LEMMA Answers ==
  ASSUME Busy, ~Busy', Had' \in Rung!Outcomes(Had, ToSet(need))
  PROVE  Rung!Answer
BY DEF Rung!Answer, Had, Busy

\* A step that leaves what the rung has, and who waits, is none of it.
LEMMA Stutters ==
  ASSUME Busy' = Busy, Had' = Had, Busy => need' = need
  PROVE  UNCHANGED Rung!rungVars
BY DEF Rung!rungVars, Had, Busy

LEMMA RungStarts == Init => Rung!Init
BY DEF Init, Rung!Init, Rung!NoRung

LEMMA PrimeAsks ==
  ASSUME IInv, Prime
  PROVE  Rung!Ask \/ UNCHANGED Rung!rungVars
<1>1. /\ pc = "idle" /\ before' = visible /\ visible' = visible /\ ~Busy
      /\ UNCHANGED <<remoteErr, everything>>
  BY DEF Prime, Busy
<1>2. PICK p \in Passes : need' = Needed(p) /\ pc' \in {"idle", "open", "want"}
  BY DEF Prime
<1>3. need' \in Seq(Names)
  BY <1>2, NeededNames, RemoteAssumption
<1>4. CASE pc' = "idle"
  <2>1. Busy' = Busy /\ Had' = Had
    BY <1>1, <1>4 DEF Busy, Had
  <2> QED
    BY <1>1, <2>1, Stutters
<1>5. CASE pc' \in {"open", "want"}
  <2>1. ToSet(need') \in SUBSET Names
    BY <1>3 DEF ToSet
  <2> QED
    BY <1>1, <1>5, <2>1 DEF Rung!Ask
<1> QED
  BY <1>2, <1>4, <1>5

LEMMA OpenRemoteAnswers ==
  ASSUME IInv, OpenRemote
  PROVE  Rung!Answer \/ UNCHANGED Rung!rungVars
<1>1. /\ pc = "open" /\ Busy /\ before = visible /\ visible = {} /\ remoteErr = "none"
      /\ everything = FALSE /\ need # << >> /\ need \in Seq(Names)
      /\ UNCHANGED <<need, everything, visible, before>>
  BY DEF OpenRemote, IInv, Places, Settled, Busy, TypeOK
<1>2. Had = Asked({})
  BY <1>1 DEF Had, Asked
<1>3. CASE pc' = "idle" /\ remoteErr' # "none"
  <2>1. ~Busy' /\ Had' = [got |-> {}, all |-> FALSE, failed |-> TRUE]
    BY <1>1, <1>3 DEF Busy, Had
  <2>2. ToSet(need) \ {} # {}
    <3>1. Len(need) # 0 /\ Len(need) \in Nat /\ DOMAIN need = 1..Len(need)
      BY <1>1, EmptySeq, LenProperties
    <3>2. 1 \in DOMAIN need
      BY <3>1
    <3>3. need[1] \in ToSet(need)
      BY <3>2 DEF ToSet
    <3> QED
      BY <3>3
  <2> DEFINE no == {}
  <2>3. [got |-> no \cup no, all |-> FALSE, failed |-> TRUE]
           \in Rung!Outcomes(Asked(no), ToSet(need))
    <3>1. no \subseteq Rung!Below((ToSet(need) \ no) \cap no) /\ no \subseteq Remote
      OBVIOUS
    <3> HIDE DEF no
    <3>2. ToSet(need) \ no # {}
      BY <2>2 DEF no
    <3> QED
      BY <3>1, <3>2, FailedOutcome
  <2>4. no \cup no = {} /\ no = {}
    OBVIOUS
  <2> HIDE DEF no
  <2>5. Had' \in Rung!Outcomes(Had, ToSet(need))
    BY <1>2, <2>1, <2>3, <2>4
  <2> QED
    BY <1>1, <2>1, <2>5, Answers
<1>4. CASE pc' = "want" /\ remoteErr' = remoteErr
  <2>1. Busy' = Busy /\ Had' = Had
    BY <1>1, <1>4 DEF Busy, Had
  <2> QED
    BY <1>1, <2>1, Stutters
<1> QED
  BY <1>3, <1>4 DEF OpenRemote

LEMMA WantAnswers ==
  ASSUME IInv, Want
  PROVE  Rung!Answer \/ UNCHANGED Rung!rungVars
<1>1. /\ pc = "want" /\ Busy /\ before = visible /\ need \in Seq(Names)
      /\ UNCHANGED <<need, everything, remoteErr, visible, before>>
  BY DEF Want, IInv, Settled, Busy, TypeOK
<1>2. CASE pc' = "idle" /\ (everything \/ missing(need) = << >>)
  <2>1. ~Busy' /\ Had' = Had /\ Had.got = visible /\ Had.all = everything
    BY <1>1, <1>2 DEF Busy, Had
  <2>2. missing(need) = << >> => ToSet(need) \ visible = {}
    <3>1. ToSet(missing(need)) = ToSet(need) \ (asked \cup visible)
      BY <1>1, MissingOnce
    <3>2. asked \subseteq visible
      BY DEF IInv, Settled
    <3>3. missing(need) = << >> => ToSet(missing(need)) = {}
      BY EmptySeq DEF ToSet
    <3> QED
      BY <3>1, <3>2, <3>3
  <2>3. Had' \in Rung!Outcomes(Had, ToSet(need))
    BY <1>2, <2>1, <2>2, SameOutcome
  <2> QED
    BY <1>1, <2>1, <2>3, Answers
<1>3. CASE pc' = "byName"
  <2>1. Busy' = Busy /\ Had' = Had
    BY <1>1, <1>3 DEF Busy, Had
  <2> QED
    BY <1>1, <2>1, Stutters
<1> QED
  BY <1>2, <1>3 DEF Want

\* During a round, the rung has what was here before it.
LEMMA HadBefore ==
  ASSUME IInv, Fetching
  PROVE  /\ Busy /\ Had = Asked(before)
         /\ everything = FALSE /\ remoteErr = "none"
         /\ ToSet(need) \ before # {}
         /\ before \subseteq visible /\ visible \subseteq scratch /\ scratch \subseteq Remote
         /\ anchored \subseteq scratch
BY DEF IInv, Fetching, Places, Busy, Had, Asked, Wanted, TypeOK

LEMMA BatchFailsAnswers ==
  ASSUME IInv, BatchFails
  PROVE  Rung!Answer \/ UNCHANGED Rung!rungVars
<1>1. pc = "byName" /\ UNCHANGED <<need, everything, visible, before>>
  BY DEF BatchFails
<1>2. Fetching
  BY <1>1 DEF Fetching
<1>3. CASE pc' = "every" /\ remoteErr' = remoteErr
  <2>1. Busy' = Busy /\ Had' = Had
    BY <1>1, <1>3 DEF Busy, Had
  <2> QED
    BY <1>1, <2>1, Stutters
<1>4. CASE pc' = "idle" /\ remoteErr' = "wouldClone"
  <2> DEFINE m == visible \ before
             W == ToSet(need) \ before
  <2>1. m \subseteq Rung!Below(W \cap m) /\ m \subseteq Remote
    <3>1. Here(visible) = W \cap m
      BY DEF Here, Wanted
    <3>2. visible \subseteq before \cup Rung!Below(Here(visible))
      BY <1>2 DEF IInv, Came
    <3> QED
      BY <1>2, <3>1, <3>2, HadBefore
  <2>2. before \cup m = visible
    BY <1>2, HadBefore
  <2>3. ~Busy' /\ Had' = [got |-> before \cup m, all |-> FALSE, failed |-> TRUE]
    BY <1>1, <1>2, <1>4, <2>2, HadBefore DEF Busy, Had
  <2> HIDE DEF m
  <2>4. Had' \in Rung!Outcomes(Had, ToSet(need))
    BY <1>2, <2>1, <2>3, HadBefore, FailedOutcome
  <2> QED
    BY <1>2, <2>3, <2>4, HadBefore, Answers
<1> QED
  BY <1>3, <1>4 DEF BatchFails

LEMMA EndByNameAnswers ==
  ASSUME IInv, EndByName
  PROVE  Rung!Answer
<1>1. /\ pc = "byName" /\ pc' = "idle" /\ rest = << >> /\ visible' = scratch
      /\ UNCHANGED <<need, everything, remoteErr, before>>
  BY DEF EndByName, reopen
<1>2. Fetching
  BY <1>1 DEF Fetching
<1> DEFINE m == scratch \ before
           W == ToSet(need) \ before
<1>3. W \subseteq m
  <2>1. ToSet(rest) = {}
    BY <1>1, EmptySeq DEF ToSet
  <2>2. W = anchored \ asked
    BY <1>1, <2>1 DEF IInv, ToSend, Wanted
  <2> QED
    BY <1>2, <2>2, HadBefore
<1>4. m \subseteq Rung!Below(W) /\ m \subseteq Remote
  <2>1. Here(scratch) = W
    BY <1>3 DEF Here, Wanted
  <2>2. scratch \subseteq before \cup Rung!Below(Here(scratch))
    BY <1>2 DEF IInv, Came
  <2> QED
    BY <1>2, <2>1, <2>2, HadBefore
<1>5. before \cup m = scratch
  BY <1>2, HadBefore
<1>6. ~Busy' /\ Had' = Asked(before \cup m)
  BY <1>1, <1>2, <1>5, HadBefore DEF Busy, Had, Asked
<1> HIDE DEF m
<1>7. Had' \in Rung!Outcomes(Had, ToSet(need))
  BY <1>2, <1>3, <1>4, <1>6, HadBefore, NamedOutcome
<1> QED
  BY <1>2, <1>6, <1>7, HadBefore, Answers

LEMMA FetchEveryRefAnswers ==
  ASSUME IInv, FetchEveryRef
  PROVE  Rung!Answer
<1>1. pc = "every" /\ pc' = "idle" /\ UNCHANGED <<need, before>>
  BY DEF FetchEveryRef
<1>2. Fetching /\ remoteErr = "none" /\ ~everything
  BY <1>1 DEF Fetching, IInv, Places, Busy
<1> DEFINE W == ToSet(need) \ before
<1>3. CASE remoteErr' = "fetch" /\ UNCHANGED <<scratch, visible, everything>>
  <2> DEFINE m == visible \ before
  <2>1. m \subseteq Rung!Below(W \cap m) /\ m \subseteq Remote
    <3>1. Here(visible) = W \cap m
      BY DEF Here, Wanted
    <3>2. visible \subseteq before \cup Rung!Below(Here(visible))
      BY <1>2 DEF IInv, Came
    <3> QED
      BY <1>2, <3>1, <3>2, HadBefore
  <2>2. before \cup m = visible
    BY <1>2, HadBefore
  <2>3. ~Busy' /\ Had' = [got |-> before \cup m, all |-> FALSE, failed |-> TRUE]
    BY <1>1, <1>2, <1>3, <2>2, HadBefore DEF Busy, Had
  <2> HIDE DEF m
  <2>4. Had' \in Rung!Outcomes(Had, ToSet(need))
    BY <1>2, <2>1, <2>3, HadBefore, FailedOutcome
  <2> QED
    BY <1>2, <2>3, <2>4, HadBefore, Answers
<1>4. CASE /\ \E out \in SUBSET Rung!Below(anchored) : scratch' = scratch \cup (Remote \ out)
           /\ everything' = TRUE /\ visible' = scratch' /\ remoteErr' = remoteErr
  <2> DEFINE m == scratch \ before
  <2>1. PICK out \in SUBSET Rung!Below(anchored) : scratch' = scratch \cup (Remote \ out)
    BY <1>4
  <2>2. m \subseteq Rung!Below(W \cap m) /\ m \subseteq Remote
    <3>1. Here(scratch) = W \cap m
      BY DEF Here, Wanted
    <3>2. scratch \subseteq before \cup Rung!Below(Here(scratch))
      BY <1>2 DEF IInv, Came
    <3> QED
      BY <1>2, <3>1, <3>2, HadBefore
  <2>3. before \cup m = scratch
    BY <1>2, HadBefore
  <2>4. out \subseteq Rung!Below(before \cup m)
    <3>1. anchored \subseteq before \cup m
      BY <1>2, <2>3, HadBefore
    <3> QED
      BY <2>1, <3>1, BelowGrows
  <2>5. /\ ~Busy'
        /\ Had' = [got |-> before \cup m \cup (Remote \ out), all |-> TRUE, failed |-> FALSE]
    BY <1>1, <1>2, <1>4, <2>1, <2>3 DEF Busy, Had
  <2> HIDE DEF m
  <2>6. Had' \in Rung!Outcomes(Had, ToSet(need))
    BY <1>2, <2>2, <2>4, <2>5, HadBefore, CopiedOutcome
  <2> QED
    BY <1>2, <2>5, <2>6, HadBefore, Answers
<1> QED
  BY <1>3, <1>4 DEF FetchEveryRef, GotEverything, reopen

LEMMA RungSteps ==
  ASSUME IInv, [Next]_vars
  PROVE  [Rung!Next]_(Rung!rungVars)
<1>1. CASE Prime
  BY <1>1, PrimeAsks DEF Rung!Next
<1>2. CASE OpenRemote
  BY <1>2, OpenRemoteAnswers DEF Rung!Next
<1>3. CASE Want
  BY <1>3, WantAnswers DEF Rung!Next
<1>4. CASE BatchFails
  BY <1>4, BatchFailsAnswers DEF Rung!Next
<1>5. CASE EndByName
  BY <1>5, EndByNameAnswers DEF Rung!Next
<1>6. CASE FetchEveryRef
  BY <1>6, FetchEveryRefAnswers DEF Rung!Next
<1>7. CASE FetchBatch
  <2>1. Busy' = Busy /\ Had' = Had /\ need' = need
    BY <1>7 DEF FetchBatch, Busy, Had
  <2> QED
    BY <2>1, Stutters
<1>8. CASE Close
  <2>1. Busy' = Busy /\ Had' = Had /\ ~Busy
    BY <1>8 DEF Close, Busy, Had
  <2> QED
    BY <2>1, Stutters
<1>9. CASE Rest \/ UNCHANGED vars
  <2>1. UNCHANGED vars
    BY <1>9 DEF Rest
  <2>2. UNCHANGED <<pc, need, before, visible, everything, remoteErr>>
    BY <2>1 DEF vars
  <2>3. Busy' = Busy /\ Had' = Had /\ need' = need
    BY <2>2 DEF Busy, Had
  <2> QED
    BY <2>3, Stutters
<1> QED
  BY <1>1, <1>2, <1>3, <1>4, <1>5, <1>6, <1>7, <1>8, <1>9 DEF Next, want

\* Prime, step by step over opening the remote, batches by name, their failures
\* and the fetch of every ref, does no more than the one step RepairRun makes of
\* it (Prime, openRemote, want, fetchByName).
THEOREM PrimeIsOneStep == Spec => Rung!Spec
BY RungStarts, RungSteps, Invariance, PTL DEF Spec, Rung!Spec

=============================================================================
