---------------------------- MODULE PackReadProofs ----------------------------
(***************************************************************************)
(* Proofs about PackRead, for any database, any number of readers, any     *)
(* limit and any cache.                                                    *)
(***************************************************************************)
EXTENDS PackRead, SequenceTheorems, FiniteSetTheorems, WellFoundedInduction, TLAPS

\* A set of numbers has a smallest one.
LEMMA Smallest ==
  ASSUME NEW T, T \subseteq Nat, T # {}
  PROVE  \E x \in T : \A y \in T : x <= y
<1> DEFINE R == {ss \in Nat \X Nat : ss[1] < ss[2]}
<1>1. IsWellFoundedOn(R, Nat)
  BY NatLessThanWellFounded DEF OpToRel
<1>2. \A x, y \in Nat : y < x => <<y, x>> \in R
  OBVIOUS
<1> HIDE DEF R
<1>3. PICK x \in T : \A y \in T : ~ (<<y, x>> \in R)
  BY <1>1, WFMin
<1>4. ASSUME NEW y \in T PROVE x <= y
  <2>1. x \in Nat /\ y \in Nat /\ ~(y < x)
    BY <1>2, <1>3
  <2> QED
    BY <2>1
<1> QED
  BY <1>4

\* at is the places that follow one another from that of o, n deltas far: to
\* any base, or only to those in the same pack.
IsChain(at, s, o, n, how) ==
  at = [d \in 0..n |->
         IF d = 0 THEN Find(s, o)
         ELSE IF IsDelta(s, at[d - 1]) /\ (how = "pack" => BaseInPack(s, at[d - 1]))
              THEN BaseOf(s, at[d - 1]) ELSE Nowhere]

\* A chain can be followed as far as one likes.
LEMMA ChainExists ==
  ASSUME NEW s, NEW o, NEW n \in Nat, NEW how
  PROVE  \E at : IsChain(at, s, o, n, how)
<1> DEFINE A == Find(s, o)
           F(v) == IF IsDelta(s, v) /\ (how = "pack" => BaseInPack(s, v)) THEN BaseOf(s, v) ELSE Nowhere
           Is(at, k) == at = [d \in 0..k |-> IF d = 0 THEN A ELSE F(at[d - 1])]
           T == {k \in Nat : ~ \E at : Is(at, k)}
<1> SUFFICES T = {}
  BY DEF IsChain
<1> HIDE DEF A, F
<1>1. Is([d \in 0..0 |-> A], 0)
  OBVIOUS
<1>2. ASSUME NEW k \in Nat \ {0}, NEW g, Is(g, k - 1)
      PROVE  \E at : Is(at, k)
  <2> DEFINE f == [d \in 0..k |-> IF d = k THEN F(g[k - 1]) ELSE g[d]]
  <2>1. ASSUME NEW d \in 0..k PROVE f[d] = IF d = 0 THEN A ELSE F(f[d - 1])
    <3>1. CASE d = 0
      BY <1>2, <3>1
    <3>2. CASE d = k
      <4>1. f[d - 1] = g[k - 1] /\ f[d] = F(g[k - 1])
        BY <3>2
      <4> QED
        BY <3>2, <4>1
    <3>3. CASE d # 0 /\ d # k
      <4>1. f[d] = g[d] /\ f[d - 1] = g[d - 1] /\ d \in 0..(k - 1)
        BY <3>3
      <4>2. g[d] = F(g[d - 1])
        BY <1>2, <3>3, <4>1
      <4> QED
        BY <3>3, <4>1, <4>2
    <3> QED
      BY <3>1, <3>2, <3>3
  <2>2. f = [d \in 0..k |-> f[d]]
    OBVIOUS
  <2> HIDE DEF f
  <2>3. [d \in 0..k |-> f[d]] = [d \in 0..k |-> IF d = 0 THEN A ELSE F(f[d - 1])]
    BY <2>1
  <2> QED
    BY <2>2, <2>3
<1>3. ASSUME T # {} PROVE FALSE
  <2>1. PICK k \in T : \A l \in T : k <= l
    BY <1>3, Smallest
  <2>2. k # 0
    BY <1>1, <2>1
  <2>3. k \in Nat \ {0} /\ k - 1 \in Nat /\ k - 1 \notin T
    BY <2>1, <2>2, SMTT(20)
  <2> HIDE DEF Is
  <2>4. PICK g : Is(g, k - 1)
    BY <2>3
  <2>5. \E at : Is(at, k)
    BY <1>2, <2>3, <2>4
  <2> QED
    BY <2>1, <2>5
<1> QED
  BY <1>3

\* So each place is what the one before leads to.
LEMMA ChainUnfolds ==
  ASSUME NEW s, NEW o, NEW n \in Nat, NEW how, NEW at, IsChain(at, s, o, n, how)
  PROVE  /\ at[0] = Find(s, o)
         /\ \A d \in 1..n :
              at[d] = IF IsDelta(s, at[d - 1]) /\ (how = "pack" => BaseInPack(s, at[d - 1]))
                      THEN BaseOf(s, at[d - 1]) ELSE Nowhere
<1>1. at[0] = Find(s, o)
  BY DEF IsChain
<1>2. ASSUME NEW d \in 1..n
      PROVE  at[d] = IF IsDelta(s, at[d - 1]) /\ (how = "pack" => BaseInPack(s, at[d - 1]))
                     THEN BaseOf(s, at[d - 1]) ELSE Nowhere
  BY DEF IsChain
<1> QED
  BY <1>1, <1>2

\* The chain a read follows.
LEMMA ChainIsChain ==
  ASSUME NEW s, NEW o
  PROVE  IsChain(Chain(s, o), s, o, MaxDeltaChain, "any")
<1> DEFINE Is(at) == at = [d \in 0..MaxDeltaChain |->
                            IF d = 0 THEN Find(s, o)
                            ELSE IF IsDelta(s, at[d - 1]) THEN BaseOf(s, at[d - 1]) ELSE Nowhere]
<1>1. MaxDeltaChain \in Nat
  BY PackStoreAssumption
<1>2. Chain(s, o) = CHOOSE at : Is(at)
  BY DEF Chain
<1>3. \A at : IsChain(at, s, o, MaxDeltaChain, "any") <=> Is(at)
  BY DEF IsChain
<1>4. \E at : IsChain(at, s, o, MaxDeltaChain, "any")
  BY <1>1, ChainExists
<1> HIDE DEF Is, Chain
<1>5. Is(Chain(s, o))
  BY <1>2, <1>3, <1>4
<1> QED
  BY <1>3, <1>5

\* What an object is, by its headers, is where the chain inside its pack ends.
LEMMA TypeIsEnd ==
  ASSUME NEW s, NEW o, TypeInPack(s, o) # Nowhere
  PROVE  \E at : /\ IsChain(at, s, o, MaxDeltaChain, "pack")
                 /\ \E d \in 0..MaxDeltaChain : IsWhole(s, at[d]) /\ TypeInPack(s, o) = at[d]
<1> DEFINE Is(at) == at = [d \in 0..MaxDeltaChain |->
                            IF d = 0 THEN Find(s, o)
                            ELSE IF IsDelta(s, at[d - 1]) /\ BaseInPack(s, at[d - 1])
                                 THEN BaseOf(s, at[d - 1]) ELSE Nowhere]
           in == CHOOSE at : Is(at)
           Ends == {d \in 0..MaxDeltaChain : IsPacked(in[d]) /\ IsWhole(s, in[d])}
<1>1. MaxDeltaChain \in Nat
  BY PackStoreAssumption
<1>2. TypeInPack(s, o) = IF Ends = {} THEN Nowhere ELSE in[CHOOSE d \in Ends : TRUE]
  BY DEF TypeInPack
<1>3. \A at : IsChain(at, s, o, MaxDeltaChain, "pack") <=> Is(at)
  BY DEF IsChain
<1>4. \E at : IsChain(at, s, o, MaxDeltaChain, "pack")
  BY <1>1, ChainExists
<1> HIDE DEF Is
<1>5. Is(in)
  BY <1>3, <1>4
<1> HIDE DEF in
<1>6. PICK d \in Ends : TypeInPack(s, o) = in[d]
  BY <1>2
<1> QED
  BY <1>3, <1>5, <1>6

LEMMA SameFind == ASSUME NEW s, NEW o PROVE Reads!Find(s, o) = Find(s, o)
BY DEF Reads!Find, Find, Reads!Lists, Lists

LEMMA SameBase == ASSUME NEW s, NEW e PROVE Reads!BaseOf(s, e) = BaseOf(s, e)
BY SameFind DEF Reads!BaseOf, BaseOf, Reads!BaseInPack, BaseInPack, Reads!Header, Header

LEMMA SameChain == ASSUME NEW s, NEW o PROVE Reads!Chain(s, o) = Chain(s, o)
BY SameFind, SameBase, Zenon DEF Reads!Chain, Chain, Reads!IsDelta, IsDelta, Reads!IsPacked, IsPacked, Reads!Header, Header

(***************************************************************************)
(* Places and contents.                                                    *)
(***************************************************************************)

Found == Places \cup {Nowhere}

LEMMA FindFound ==
  ASSUME NEW s \in Database, NEW o \in Objects
  PROVE  Find(s, o) \in Found
<1> DEFINE In == {p \in Packs : Lists(s, p, o)}
           first == CHOOSE p \in In : \A q \in In : p <= q
<1>1. CASE In # {}
  <2>1. In \subseteq Nat
    BY PackStoreAssumption
  <2>2. \E p \in In : \A q \in In : p <= q
    BY <1>1, <2>1, Smallest
  <2> HIDE DEF In
  <2>3. first \in In
    BY <2>2
  <2>4. first \in Packs
    BY <2>3 DEF In
  <2>5. Find(s, o) = <<first, o>>
    BY <1>1 DEF Find, In
  <2> HIDE DEF first
  <2> QED
    BY <2>4, <2>5 DEF Found, Places
<1>2. CASE In = {}
  BY <1>2 DEF Find, Found, Places
<1> QED
  BY <1>1, <1>2

\* What a packed place has is an entry.
LEMMA HeaderIsEntry ==
  ASSUME NEW s \in Database, NEW e \in Found, IsPacked(e)
  PROVE  /\ e[1] \in Packs /\ e[2] \in Objects
         /\ Header(s, e) \in Entry
<1>1. e \in Places /\ e[1] # 0
  BY DEF Found, IsPacked
<1>2. PICK p \in Packs \cup {0}, o \in Objects : e = <<p, o>>
  BY <1>1 DEF Places
<1>3. p \in Packs /\ e[1] = p /\ e[2] = o
  BY <1>1, <1>2
<1>4. s.entry[p][o] \in Entry
  BY <1>3 DEF Database
<1> QED
  BY <1>3, <1>4 DEF Header

LEMMA BaseFound ==
  ASSUME NEW s \in Database, NEW e \in Found, IsDelta(s, e)
  PROVE  /\ Header(s, e).base \in Objects
         /\ BaseOf(s, e) \in Found
         /\ BaseInPack(s, e) => BaseOf(s, e) \in Places
<1>1. IsPacked(e) /\ Header(s, e).kind \in {"ofs", "ref"}
  BY DEF IsDelta
<1>2. e[1] \in Packs /\ Header(s, e) \in Entry
  BY <1>1, HeaderIsEntry
<1>3. Header(s, e).base \in Objects
  BY <1>1, <1>2 DEF Entry
<1>4. <<e[1], Header(s, e).base>> \in Places
  BY <1>2, <1>3 DEF Places
<1>5. Find(s, Header(s, e).base) \in Found
  BY <1>3, FindFound
<1> QED
  BY <1>3, <1>4, <1>5 DEF BaseOf, Found

\* Nothing is both a delta and whole, and nowhere is neither.
LEMMA DeltaOrWhole ==
  ASSUME NEW s, NEW e
  PROVE  /\ ~(IsDelta(s, e) /\ IsWhole(s, e))
         /\ ~IsDelta(s, Nowhere) /\ ~IsWhole(s, Nowhere)
BY DEF IsDelta, IsWhole, IsPacked

\* What is stored whole is its own content.
LEMMA WholeContent ==
  ASSUME NEW s, NEW e \in Places, IsWhole(s, e), Decodes(s, e)
  PROVE  IsContent(s, <<e>>, e)
BY DEF IsContent

\* A delta that decodes makes a content of the content of its base.
LEMMA DeltaContent ==
  ASSUME NEW s, NEW e \in Places, IsDelta(s, e), Decodes(s, e),
         NEW c, IsContent(s, c, BaseOf(s, e))
  PROVE  IsContent(s, <<e>> \o c, e)
<1> DEFINE cc == <<e>> \o c
<1>1. /\ c \in Seq(Places) /\ Len(c) \in Nat /\ Len(c) >= 1
      /\ c[1] = BaseOf(s, e)
      /\ \A i \in 1..Len(c) : Decodes(s, c[i])
      /\ \A i \in 1..(Len(c) - 1) : IsDelta(s, c[i]) /\ c[i + 1] = BaseOf(s, c[i])
      /\ IsWhole(s, c[Len(c)])
  BY DEF IsContent
<1>2. /\ cc \in Seq(Places) /\ Len(cc) = Len(c) + 1 /\ cc # << >>
      /\ cc[1] = e
      /\ \A i \in 2..Len(cc) : cc[i] = c[i - 1] /\ i - 1 \in 1..Len(c)
  BY <1>1
<1> HIDE DEF cc
<1>3. ASSUME NEW i \in 1..Len(cc) PROVE Decodes(s, cc[i])
  <2>1. CASE i = 1
    BY <1>2, <2>1
  <2>2. CASE i # 1
    BY <1>1, <1>2, <2>2
  <2> QED
    BY <2>1, <2>2
<1>4. ASSUME NEW i \in 1..(Len(cc) - 1)
      PROVE  IsDelta(s, cc[i]) /\ cc[i + 1] = BaseOf(s, cc[i])
  <2>1. CASE i = 1
    BY <1>1, <1>2, <2>1
  <2>2. CASE i # 1
    <3>1. i \in 2..Len(cc) /\ i + 1 \in 2..Len(cc) /\ i - 1 \in 1..(Len(c) - 1)
      BY <1>1, <1>2, <2>2
    <3>2. cc[i] = c[i - 1] /\ cc[i + 1] = c[i]
      BY <1>2, <3>1
    <3>3. IsDelta(s, c[i - 1]) /\ c[i] = BaseOf(s, c[i - 1])
      BY <1>1, <3>1
    <3> QED
      BY <3>2, <3>3
  <2> QED
    BY <2>1, <2>2
<1>5. IsWhole(s, cc[Len(cc)])
  BY <1>1, <1>2
<1> QED
  BY <1>2, <1>3, <1>4, <1>5 DEF IsContent, cc

\* And the content of a delta is made of one of its base.
LEMMA ContentOfBase ==
  ASSUME NEW s, NEW e, IsDelta(s, e), NEW c, IsContent(s, c, e)
  PROVE  /\ Len(c) \in Nat /\ Len(c) >= 2
         /\ IsContent(s, Tail(c), BaseOf(s, e)) /\ Len(Tail(c)) = Len(c) - 1
<1>1. /\ c \in Seq(Places) /\ c # << >>
      /\ c[1] = e
      /\ \A i \in 1..Len(c) : Decodes(s, c[i])
      /\ \A i \in 1..(Len(c) - 1) : IsDelta(s, c[i]) /\ c[i + 1] = BaseOf(s, c[i])
      /\ IsWhole(s, c[Len(c)])
  BY DEF IsContent
<1>2. Len(c) \in Nat /\ Len(c) >= 2
  BY <1>1, DeltaOrWhole
<1>3. /\ Tail(c) \in Seq(Places) /\ Len(Tail(c)) = Len(c) - 1 /\ Tail(c) # << >>
      /\ \A i \in 1..(Len(c) - 1) : Tail(c)[i] = c[i + 1]
  <2>1. Tail(c) \in Seq(Places) /\ Len(Tail(c)) = Len(c) - 1
    BY <1>1
  <2>2. \A i \in 1..(Len(c) - 1) : Tail(c)[i] = c[i + 1]
    BY <1>1
  <2>3. \A t \in Seq(Places) : Len(t) # 0 => t # << >>
    OBVIOUS
  <2>4. Len(Tail(c)) # 0
    BY <1>2, <2>1
  <2> HIDE DEF IsContent
  <2> QED
    BY <2>1, <2>2, <2>3, <2>4, Zenon
<1>4. Tail(c)[1] = BaseOf(s, e)
  BY <1>1, <1>2, <1>3
<1>5. \A i \in 1..Len(Tail(c)) : Decodes(s, Tail(c)[i])
  BY <1>1, <1>2, <1>3
<1>6. ASSUME NEW i \in 1..(Len(Tail(c)) - 1)
      PROVE  IsDelta(s, Tail(c)[i]) /\ Tail(c)[i + 1] = BaseOf(s, Tail(c)[i])
  <2>1. i + 1 \in 1..(Len(c) - 1) /\ Tail(c)[i] = c[i + 1] /\ Tail(c)[i + 1] = c[i + 2]
    BY <1>2, <1>3
  <2>2. IsDelta(s, c[i + 1]) /\ c[(i + 1) + 1] = BaseOf(s, c[i + 1])
    BY <1>1, <2>1
  <2> QED
    BY <2>1, <2>2
<1>7. IsWhole(s, Tail(c)[Len(Tail(c))])
  BY <1>1, <1>2, <1>3
<1> QED
  BY <1>2, <1>3, <1>4, <1>5, <1>6, <1>7 DEF IsContent

\* A content begins at its place, which decodes and is whole or a delta.
LEMMA ContentStarts ==
  ASSUME NEW s, NEW e, NEW c, IsContent(s, c, e)
  PROVE  /\ Len(c) \in Nat /\ Len(c) >= 1 /\ c \in Seq(Places)
         /\ Decodes(s, e) /\ e \in Places
         /\ IsWhole(s, e) \/ IsDelta(s, e)
<1>1. /\ c \in Seq(Places) /\ c # << >>
      /\ c[1] = e
      /\ \A i \in 1..Len(c) : Decodes(s, c[i])
      /\ \A i \in 1..(Len(c) - 1) : IsDelta(s, c[i])
      /\ IsWhole(s, c[Len(c)])
  BY DEF IsContent
<1>2. Len(c) \in Nat /\ Len(c) >= 1 /\ 1 \in 1..Len(c)
  BY <1>1
<1>3. ASSUME NEW n \in Nat \ {0} PROVE n = 1 \/ 1 \in 1..(n - 1)
  OBVIOUS
<1>4. c[1] \in Places
  BY <1>1, <1>2
<1>5. Len(c) = 1 \/ 1 \in 1..(Len(c) - 1)
  <2>1. Len(c) \in Nat \ {0}
    BY <1>2
  <2> QED
    BY <1>3, <2>1, Zenon
<1> QED
  BY <1>1, <1>2, <1>4, <1>5

\* A chain that ends in something whole, all of which decodes, is a content.
LEMMA ChainContent ==
  ASSUME NEW s \in Database, NEW o \in Objects, NEW n \in 0..MaxDeltaChain,
         IsWhole(s, Chain(s, o)[n]), \A d \in 0..n : Decodes(s, Chain(s, o)[d])
  PROVE  \E c : IsContent(s, c, Find(s, o)) /\ Len(c) <= MaxDeltaChain + 1
<1> DEFINE at == Chain(s, o)
           c == [i \in 1..(n + 1) |-> at[i - 1]]
<1>1. MaxDeltaChain \in Nat /\ n \in Nat /\ n <= MaxDeltaChain
  BY PackStoreAssumption
<1>2. /\ at[0] = Find(s, o)
      /\ \A d \in 1..MaxDeltaChain :
           at[d] = IF IsDelta(s, at[d - 1]) THEN BaseOf(s, at[d - 1]) ELSE Nowhere
  BY <1>1, ChainIsChain, ChainUnfolds
<1>3. IsWhole(s, at[n]) /\ \A d \in 0..n : Decodes(s, at[d])
  OBVIOUS
<1> HIDE DEF at
\* It is nowhere left before its end: what comes after nowhere is nowhere.
<1>4. ASSUME NEW d \in 0..n PROVE at[d] # Nowhere
  <2> DEFINE T == {x \in Nat : x <= n /\ at[n - x] = Nowhere}
  <2>1. ASSUME T # {} PROVE FALSE
    <3>1. PICK x \in T : \A y \in T : x <= y
      BY <2>1, Smallest
    <3>2. x # 0
      BY <1>1, <1>3, <3>1, DeltaOrWhole
    <3>3. x - 1 \in Nat /\ x - 1 <= n /\ x - 1 \notin T /\ n - (x - 1) \in 1..MaxDeltaChain
      BY <1>1, <3>1, <3>2
    <3>4. (n - (x - 1)) - 1 = n - x
      BY <1>1, <3>1
    <3>5. at[n - (x - 1)] = Nowhere
      BY <1>2, <3>1, <3>3, <3>4, DeltaOrWhole
    <3> QED
      BY <3>3, <3>5
  <2>2. n - d \in Nat /\ n - d <= n /\ n - (n - d) = d
    BY <1>1
  <2> QED
    BY <2>1, <2>2
<1>5. ASSUME NEW d \in 1..n
      PROVE  IsDelta(s, at[d - 1]) /\ at[d] = BaseOf(s, at[d - 1])
  <2>1. d \in 1..MaxDeltaChain /\ d \in 0..n
    BY <1>1
  <2> QED
    BY <1>2, <1>4, <2>1
<1>6. ASSUME NEW d \in 0..n PROVE at[d] \in Places
  <2> DEFINE T == {x \in Nat : x <= n /\ at[x] \notin Found}
  <2>1. ASSUME T # {} PROVE FALSE
    <3>1. PICK x \in T : \A y \in T : x <= y
      BY <2>1, Smallest
    <3>2. x # 0
      BY <1>2, <3>1, FindFound
    <3>3. x \in 1..n /\ x - 1 \in Nat /\ x - 1 <= n /\ x - 1 \notin T
      BY <1>1, <3>1, <3>2
    <3>4. at[x - 1] \in Found
      BY <3>3
    <3>5. at[x] \in Found
      BY <1>5, <3>3, <3>4, BaseFound
    <3> QED
      BY <3>1, <3>5
  <2>2. at[d] \in Found
    BY <1>1, <2>1
  <2> QED
    BY <1>4, <2>2 DEF Found
<1>7. /\ c \in Seq(Places) /\ Len(c) = n + 1
      /\ \A i \in 1..(n + 1) : c[i] = at[i - 1] /\ i - 1 \in 0..n
  <2>1. \A i \in 1..(n + 1) : i - 1 \in 0..n
    BY <1>1
  <2>2. c \in [1..(n + 1) -> Places]
    BY <1>6, <2>1
  <2>3. n + 1 \in Nat
    BY <1>1
  <2> QED
    BY <2>1, <2>2, <2>3
<1> HIDE DEF c
<1>8. c # << >> /\ c[1] = Find(s, o)
  BY <1>1, <1>2, <1>7
<1>9. \A i \in 1..Len(c) : Decodes(s, c[i])
  BY <1>3, <1>7
<1>10. ASSUME NEW i \in 1..(Len(c) - 1)
       PROVE  IsDelta(s, c[i]) /\ c[i + 1] = BaseOf(s, c[i])
  <2>1. i \in 1..n /\ i \in 1..(n + 1) /\ i + 1 \in 1..(n + 1) /\ (i + 1) - 1 = i
    BY <1>1, <1>7
  <2>2. IsDelta(s, at[i - 1]) /\ at[i] = BaseOf(s, at[i - 1])
    BY <1>5, <2>1
  <2>3. c[i] = at[i - 1] /\ c[i + 1] = at[i]
    BY <1>7, <2>1
  <2> QED
    BY <2>2, <2>3
<1>11. IsWhole(s, c[Len(c)])
  BY <1>1, <1>3, <1>7
<1>12. IsContent(s, c, Find(s, o))
  BY <1>7, <1>8, <1>9, <1>10, <1>11 DEF IsContent
<1> QED
  BY <1>1, <1>7, <1>12

(***************************************************************************)
(* The inductive invariant: every call has the right place and depth under *)
(* the one before it, every result is right for its call, and the cache    *)
(* holds what it says.                                                     *)
(***************************************************************************)

\* No content of what is at f is short enough for a call at its depth.
OutOfReach(s, f) ==
  \A c \in Seq(Places) : IsContent(s, c, f.at) => Len(c) + f.depth > MaxDeltaChain + 1

\* v is right for the call f.
Yields(s, v, f) == IF v = Failed THEN OutOfReach(s, f) ELSE IsContent(s, v, f.at)

\* A call reads a base of the call before it; one with a name is a Read.
Chained(s, st) ==
  /\ \A i \in 1..Len(st) :
       st[i].name # NoObject => st[i].depth = 0 /\ st[i].at = Find(s, st[i].name)
  /\ \A i \in 1..(Len(st) - 1) :
       /\ IsDelta(s, st[i].at) /\ st[i + 1].at = BaseOf(s, st[i].at)
       /\ st[i + 1].depth = 0 \/ st[i + 1].depth = st[i].depth + 1

\* The calls of a reader begin with what it was asked for.
Begins(st, o) == (st = << >>) = (o = NoObject) /\ (st # << >> => st[1].name = o)

Types ==
  /\ store \in Database
  /\ asked \in [Readers -> Objects \cup {NoObject}]
  /\ answer \in [Readers -> Seq(Places) \cup {Failed}]
  /\ stack \in [Readers -> Seq(Frame)]
  /\ ret \in [Readers -> Seq(Places) \cup {Failed, NoResult}]

CallsRight ==
  \A r \in Readers :
    /\ Begins(stack[r], asked[r]) /\ Chained(store, stack[r])
    /\ ret[r] # NoResult => stack[r] # << >> /\ Yields(store, ret[r], Last(stack[r]))

CacheTrue == DOMAIN m \subseteq Places /\ \A e \in DOMAIN m : IsContent(store, m[e], e)

IInv == Types /\ CallsRight /\ CacheTrue

\* A stack with one more call.
LEMMA Push ==
  ASSUME NEW s, NEW st \in Seq(Frame), st # << >>, Chained(s, st), NEW g \in Frame,
         IsDelta(s, Last(st).at), g.at = BaseOf(s, Last(st).at),
         g.depth = 0 \/ g.depth = Last(st).depth + 1,
         g.name # NoObject => g.depth = 0 /\ g.at = Find(s, g.name)
  PROVE  /\ Append(st, g) \in Seq(Frame) /\ Append(st, g) # << >>
         /\ Append(st, g)[1] = st[1] /\ Chained(s, Append(st, g))
<1> DEFINE ap == Append(st, g)
<1>1. Len(st) \in Nat /\ Len(st) >= 1 /\ Last(st) = st[Len(st)]
  BY DEF Last
<1>2. /\ ap \in Seq(Frame) /\ Len(ap) = Len(st) + 1 /\ ap # << >>
      /\ ap[Len(st) + 1] = g /\ \A i \in 1..Len(st) : ap[i] = st[i]
  BY <1>1
<1> HIDE DEF ap
<1>3. ASSUME NEW i \in 1..Len(ap), ap[i].name # NoObject
      PROVE  ap[i].depth = 0 /\ ap[i].at = Find(s, ap[i].name)
  <2>1. CASE i = Len(st) + 1
    BY <1>2, <1>3, <2>1
  <2>2. CASE i # Len(st) + 1
    <3>1. i \in 1..Len(st) /\ ap[i] = st[i]
      BY <1>1, <1>2, <2>2
    <3> QED
      BY <1>3, <3>1 DEF Chained
  <2> QED
    BY <2>1, <2>2
<1>4. ASSUME NEW i \in 1..(Len(ap) - 1)
      PROVE  /\ IsDelta(s, ap[i].at) /\ ap[i + 1].at = BaseOf(s, ap[i].at)
             /\ ap[i + 1].depth = 0 \/ ap[i + 1].depth = ap[i].depth + 1
  <2>1. CASE i = Len(st)
    <3>1. ap[i] = Last(st) /\ ap[i + 1] = g
      BY <1>1, <1>2, <2>1
    <3> QED
      BY <3>1
  <2>2. CASE i # Len(st)
    <3>1. i \in 1..(Len(st) - 1) /\ ap[i] = st[i] /\ ap[i + 1] = st[i + 1]
      BY <1>1, <1>2, <2>2
    <3> QED
      BY <3>1 DEF Chained
  <2> QED
    BY <2>1, <2>2
<1>5. ap[1] = st[1]
  BY <1>1, <1>2
<1> QED
  BY <1>2, <1>3, <1>4, <1>5 DEF Chained, ap

\* A stack with one call less.
LEMMA Pop ==
  ASSUME NEW s, NEW st \in Seq(Frame), st # << >>, Chained(s, st)
  PROVE  /\ Front(st) \in Seq(Frame) /\ Chained(s, Front(st))
         /\ Last(st) \in Frame
         /\ Front(st) = << >> => Last(st) = st[1]
         /\ Last(st).name # NoObject => Last(st).depth = 0 /\ Last(st).at = Find(s, Last(st).name)
         /\ Front(st) # << >> =>
              LET f == Last(Front(st))
                  g == Last(st)
              IN  /\ Front(st)[1] = st[1] /\ f \in Frame
                  /\ IsDelta(s, f.at) /\ g.at = BaseOf(s, f.at)
                  /\ g.depth = 0 \/ g.depth = f.depth + 1
<1> DEFINE fr == Front(st)
           n == Len(st)
<1>1. n \in Nat /\ n >= 1 /\ Last(st) = st[n]
  BY DEF Last
<1>2. /\ fr \in Seq(Frame) /\ Len(fr) = n - 1
      /\ \A i \in 1..(n - 1) : fr[i] = st[i]
  <2> HIDE DEF n
  <2>1. 1 \in Int /\ n - 1 \in Int /\ \A i \in 1..(n - 1) : st[i] \in Frame
    BY <1>1 DEF n
  <2>2. fr = SubSeq(st, 1, n - 1)
    BY DEF Front, n
  <2>3. /\ fr \in Seq(Frame) /\ Len(fr) = IF 1 <= n - 1 THEN (n - 1) - 1 + 1 ELSE 0
        /\ \A i \in 1..((n - 1) - 1 + 1) : fr[i] = st[1 + i - 1]
    BY <2>1, <2>2, SubSeqProperties
  <2> HIDE DEF fr
  <2> QED
    BY <1>1, <2>3
<1>3. Last(st) \in Frame
  BY <1>1
<1>4. \A i \in 1..n :
        st[i].name # NoObject => st[i].depth = 0 /\ st[i].at = Find(s, st[i].name)
  BY DEF Chained
<1>5. \A i \in 1..(n - 1) :
        /\ IsDelta(s, st[i].at) /\ st[i + 1].at = BaseOf(s, st[i].at)
        /\ st[i + 1].depth = 0 \/ st[i + 1].depth = st[i].depth + 1
  BY DEF Chained
<1>6. fr # << >> => Last(fr) = fr[n - 1] /\ n >= 2
  BY <1>1, <1>2 DEF Last
<1>7. fr = << >> => n = 1
  BY <1>1, <1>2
<1> HIDE DEF fr, n
<1>8. \A i \in 1..Len(fr) :
        fr[i].name # NoObject => fr[i].depth = 0 /\ fr[i].at = Find(s, fr[i].name)
  BY <1>1, <1>2, <1>4
<1>9. ASSUME NEW i \in 1..(Len(fr) - 1)
      PROVE  /\ IsDelta(s, fr[i].at) /\ fr[i + 1].at = BaseOf(s, fr[i].at)
             /\ fr[i + 1].depth = 0 \/ fr[i + 1].depth = fr[i].depth + 1
  <2>1. i \in 1..(n - 1) /\ fr[i] = st[i] /\ fr[i + 1] = st[i + 1]
    BY <1>1, <1>2
  <2> QED
    BY <1>5, <2>1
<1>10. Chained(s, fr)
  BY <1>8, <1>9 DEF Chained
<1>11. fr = << >> => Last(st) = st[1]
  BY <1>1, <1>7
<1>12. Last(st).name # NoObject => Last(st).depth = 0 /\ Last(st).at = Find(s, Last(st).name)
  BY <1>1, <1>4
<1>13. ASSUME fr # << >>
       PROVE  /\ fr[1] = st[1] /\ Last(fr) \in Frame
              /\ IsDelta(s, Last(fr).at) /\ Last(st).at = BaseOf(s, Last(fr).at)
              /\ Last(st).depth = 0 \/ Last(st).depth = Last(fr).depth + 1
  <2>1. n - 1 \in 1..(n - 1) /\ 1 \in 1..(n - 1) /\ (n - 1) + 1 = n
    BY <1>1, <1>6, <1>13
  <2>2. Last(fr) = st[n - 1] /\ fr[1] = st[1]
    BY <1>2, <1>6, <1>13, <2>1
  <2>3. fr[n - 1] \in Frame
    BY <1>2, <2>1
  <2> QED
    BY <1>1, <1>5, <1>6, <1>13, <2>1, <2>2, <2>3
<1> QED
  BY <1>2, <1>3, <1>10, <1>11, <1>12, <1>13 DEF fr

\* What a call yields that does not get to a base (ReadWhole).
LEMMA WholeYields ==
  ASSUME NEW f \in Frame, ~IsDelta(store, f.at) \/ f.depth > MaxDeltaChain,
         NEW v, v = IF IsWhole(store, f.at) /\ (IsPacked(f.at) => f.depth <= MaxDeltaChain)
                    THEN Decode(f.at, << >>) ELSE Failed
  PROVE  v \in Seq(Places) \cup {Failed} /\ Yields(store, v, f)
<1>1. MaxDeltaChain \in Nat /\ f.depth \in Nat /\ f.at \in Places \cup {Nowhere}
  BY PackStoreAssumption DEF Frame
<1>2. CASE v = Failed
  <2>1. ASSUME NEW c \in Seq(Places), IsContent(store, c, f.at)
        PROVE  Len(c) + f.depth > MaxDeltaChain + 1
    <3>1. /\ Len(c) \in Nat /\ Len(c) >= 1
          /\ Decodes(store, f.at)
          /\ IsWhole(store, f.at) \/ IsDelta(store, f.at)
      BY <2>1, ContentStarts
    <3>2. <<f.at>> \o << >> # Failed
      <4>1. f.at \in Places
        BY <2>1, ContentStarts
      <4>2. <<f.at>> \o << >> \in Seq(Places)
        BY <4>1
      <4> QED
        BY <4>2, PackReadAssumption
    <3>3. f.depth > MaxDeltaChain
      BY <1>1, <1>2, <3>1, <3>2 DEF Decode
    <3> QED
      BY <1>1, <3>1, <3>3
  <2> QED
    BY <1>2, <2>1 DEF Yields, OutOfReach
<1>3. CASE v # Failed
  <2>1. IsWhole(store, f.at) /\ Decodes(store, f.at) /\ v = <<f.at>> \o << >>
    BY <1>3 DEF Decode
  <2>2. f.at \in Places
    BY <1>1, <2>1 DEF IsWhole
  <2>3. v = <<f.at>>
    BY <2>1, <2>2
  <2>4. IsContent(store, v, f.at)
    BY <2>1, <2>2, <2>3, WholeContent
  <2> QED
    BY <1>3, <2>4 DEF Yields, IsContent
<1> QED
  BY <1>2, <1>3

\* What a call yields that has the content of its base.
LEMMA DecodeYields ==
  ASSUME NEW f \in Frame, IsDelta(store, f.at),
         NEW c, IsContent(store, c, BaseOf(store, f.at))
  PROVE  Decode(f.at, c) \in Seq(Places) \cup {Failed} /\ Yields(store, Decode(f.at, c), f)
<1>1. f.at \in Places
  BY DeltaOrWhole DEF Frame, IsDelta, IsPacked
<1>2. CASE Decodes(store, f.at)
  <2>1. Decode(f.at, c) = <<f.at>> \o c
    BY <1>2 DEF Decode
  <2>2. IsContent(store, <<f.at>> \o c, f.at)
    BY <1>1, <1>2, DeltaContent
  <2>3. <<f.at>> \o c \in Seq(Places)
    BY <2>2 DEF IsContent
  <2>4. <<f.at>> \o c # Failed
    BY <2>3, PackReadAssumption
  <2> QED
    BY <2>1, <2>2, <2>3, <2>4 DEF Yields
<1>3. CASE ~Decodes(store, f.at)
  <2>1. Decode(f.at, c) = Failed
    BY <1>3 DEF Decode
  <2>2. OutOfReach(store, f)
    BY <1>3, ContentStarts DEF OutOfReach
  <2> QED
    BY <2>1, <2>2 DEF Yields
<1> QED
  BY <1>2, <1>3

\* What becomes of a call when its base was read or was not.
LEMMA WithBaseYields ==
  ASSUME NEW f \in Frame, NEW g \in Frame, IsDelta(store, f.at),
         g.at = BaseOf(store, f.at), g.depth = 0 \/ g.depth = f.depth + 1,
         NEW v, Yields(store, v, g)
  PROVE  WithBase(f.at, v) \in Seq(Places) \cup {Failed} /\ Yields(store, WithBase(f.at, v), f)
<1>1. CASE v # Failed
  <2>1. IsContent(store, v, BaseOf(store, f.at))
    BY <1>1 DEF Yields
  <2> QED
    BY <1>1, <2>1, DecodeYields DEF WithBase
<1>2. CASE v = Failed
  <2>1. ASSUME NEW c \in Seq(Places), IsContent(store, c, f.at)
        PROVE  Len(c) + f.depth > MaxDeltaChain + 1
    <3>1. /\ Len(c) \in Nat /\ Len(c) >= 2
          /\ IsContent(store, Tail(c), g.at) /\ Len(Tail(c)) = Len(c) - 1
      BY <2>1, ContentOfBase
    <3>2. Tail(c) \in Seq(Places)
      BY <3>1 DEF IsContent
    <3>3. Len(Tail(c)) + g.depth > MaxDeltaChain + 1
      BY <1>2, <3>1, <3>2 DEF Yields, OutOfReach
    <3>4. MaxDeltaChain \in Nat /\ f.depth \in Nat /\ g.depth \in Nat
      BY PackStoreAssumption DEF Frame
    <3> QED
      BY <3>1, <3>3, <3>4
  <2> QED
    BY <1>2, <2>1 DEF Yields, OutOfReach, WithBase
<1> QED
  BY <1>1, <1>2

\* Putting a content in the cache leaves it true.
LEMMA PutTrue ==
  ASSUME CacheTrue, UNCHANGED store, NEW e, NEW c, IsContent(store, c, e), Put(e, c)
  PROVE  CacheTrue'
<1>1. e \in Places
  BY ContentStarts
<1>2. \/ m' = m
      \/ \E known : /\ known \subseteq DOMAIN m \cup {e}
                    /\ m' = [x \in known |-> IF x = e THEN c ELSE m[x]]
  <2> DEFINE dropped == SubSeq(<<e>> \o lru[Shard[e]], Keep(<<e>> \o lru[Shard[e]], size[Shard[e]] + Length[e]) + 1, Len(<<e>> \o lru[Shard[e]]))
  <2>1. CASE Length[e] > ShardLimit
    BY <2>1 DEF Put, cache
  <2>2. CASE ~(Length[e] > ShardLimit) /\ e \in DOMAIN m
    BY <2>2 DEF Put, Touch
  <2>3. CASE ~(Length[e] > ShardLimit) /\ e \notin DOMAIN m
    <3>1. m' = [x \in (DOMAIN m \cup {e}) \ ToSet(dropped) |-> IF x = e THEN c ELSE m[x]]
      BY <2>3 DEF Put
    <3> HIDE DEF dropped
    <3> QED
      BY <3>1
  <2> QED
    BY <2>1, <2>2, <2>3
<1>3. CASE m' = m
  BY <1>3 DEF CacheTrue
<1>4. ASSUME NEW known, known \subseteq DOMAIN m \cup {e},
             m' = [x \in known |-> IF x = e THEN c ELSE m[x]]
      PROVE  CacheTrue'
  <2>1. DOMAIN m' = known /\ known \subseteq Places
    BY <1>1, <1>4 DEF CacheTrue
  <2>2. ASSUME NEW x \in known PROVE IsContent(store', m'[x], x)
    BY <1>4, <2>2 DEF CacheTrue
  <2> QED
    BY <2>1, <2>2 DEF CacheTrue
<1> QED
  BY <1>2, <1>3, <1>4

\* A step of one reader leaves the others as they are.
LEMMA OneReader ==
  ASSUME CallsRight, UNCHANGED store, NEW r \in Readers,
         \A q \in Readers \ {r} :
           stack'[q] = stack[q] /\ ret'[q] = ret[q] /\ asked'[q] = asked[q],
         Begins(stack'[r], asked'[r]), Chained(store, stack'[r]),
         ret'[r] # NoResult => stack'[r] # << >> /\ Yields(store, ret'[r], Last(stack'[r]))
  PROVE  CallsRight'
<1> SUFFICES ASSUME NEW q \in Readers
             PROVE  /\ Begins(stack'[q], asked'[q]) /\ Chained(store, stack'[q])
                    /\ ret'[q] # NoResult =>
                         stack'[q] # << >> /\ Yields(store, ret'[q], Last(stack'[q]))
  BY Zenon DEF CallsRight
<1>1. CASE q = r
  BY <1>1
<1>2. CASE q # r
  BY <1>2 DEF CallsRight
<1> QED
  BY <1>1, <1>2

LEMMA Initially == Init => IInv
<1> SUFFICES ASSUME Init PROVE IInv
  OBVIOUS
<1>1. Types
  BY PackStoreAssumption DEF Init, Types
<1>2. CallsRight
  <2> SUFFICES ASSUME NEW r \in Readers
               PROVE  Begins(stack[r], asked[r]) /\ Chained(store, stack[r]) /\ ret[r] = NoResult
    BY DEF CallsRight
  <2>1. stack[r] = << >> /\ asked[r] = NoObject /\ ret[r] = NoResult
    BY DEF Init
  <2>2. Len(<< >>) = 0
    OBVIOUS
  <2>3. Chained(store, << >>)
    BY <2>2 DEF Chained
  <2> QED
    BY <2>1, <2>3 DEF Begins
<1>3. CacheTrue
  BY DEF Init, CacheTrue
<1> QED
  BY <1>1, <1>2, <1>3 DEF IInv

\* A read begins.
LEMMA ReadKeeps ==
  ASSUME IInv, NEW r \in Readers, NEW o \in Objects, Read(r, o)
  PROVE  IInv'
<1>1. /\ asked[r] = NoObject /\ asked' = [asked EXCEPT ![r] = o]
      /\ stack' = [stack EXCEPT ![r] = <<ReadCall(o)>>]
      /\ UNCHANGED <<store, answer, ret, m, lru, size>>
  BY DEF Read
<1>2. ReadCall(o) \in Frame /\ ReadCall(o).name = o /\ ReadCall(o).depth = 0
      /\ ReadCall(o).at = Find(store, o)
  BY FindFound DEF IInv, Types, ReadCall, Frame, Found
<1> HIDE DEF ReadCall
<1>3. Types'
  <2>1. stack' \in [Readers -> Seq(Frame)]
    BY <1>1, <1>2 DEF IInv, Types
  <2> QED
    BY <1>1, <2>1 DEF IInv, Types
<1>4. CallsRight'
  <2>1. /\ asked'[r] = o /\ stack'[r] = <<ReadCall(o)>> /\ ret'[r] = ret[r]
        /\ \A q \in Readers \ {r} :
             stack'[q] = stack[q] /\ ret'[q] = ret[q] /\ asked'[q] = asked[q]
    BY <1>1 DEF IInv, Types
  <2>2. o # NoObject
    BY PackStoreAssumption
  <2>3. Begins(stack'[r], asked'[r])
    BY <1>2, <2>1, <2>2 DEF Begins
  <2>4. Chained(store, stack'[r])
    BY <1>2, <2>1 DEF Chained
  <2>5. ret[r] = NoResult
    BY <1>1 DEF IInv, CallsRight, Begins
  <2> QED
    BY <1>1, <2>1, <2>3, <2>4, <2>5, OneReader DEF IInv
<1>5. CacheTrue'
  BY <1>1 DEF IInv, CacheTrue
<1> QED
  BY <1>3, <1>4, <1>5 DEF IInv

\* The call of a reader that runs.
LEMMA TopIsCall ==
  ASSUME IInv, NEW r \in Readers, stack[r] # << >>
  PROVE  /\ Top(r) \in Frame /\ Top(r).at \in Found
         /\ stack[r] \in Seq(Frame) /\ Chained(store, stack[r])
         /\ Begins(stack[r], asked[r])
<1>1. stack[r] \in Seq(Frame) /\ Chained(store, stack[r]) /\ Begins(stack[r], asked[r])
  BY DEF IInv, Types, CallsRight
<1>2. Top(r) \in Frame
  BY <1>1, Pop DEF Top
<1>3. Top(r).at \in Found
  BY <1>2 DEF Frame, Found
<1> QED
  BY <1>1, <1>2, <1>3

\* A call leaves its result.
LEMMA ResultKeeps ==
  ASSUME IInv, NEW r \in Readers, stack[r] # << >>, NEW v, v \in Seq(Places) \cup {Failed},
         Yields(store, v, Top(r)), ret' = [ret EXCEPT ![r] = v],
         UNCHANGED <<store, asked, answer, stack, m>>
  PROVE  IInv'
<1>1. Types'
  BY DEF IInv, Types
<1>2. /\ ret'[r] = v
      /\ \A q \in Readers \ {r} :
           stack'[q] = stack[q] /\ ret'[q] = ret[q] /\ asked'[q] = asked[q]
  BY DEF IInv, Types
<1>3. Begins(stack'[r], asked'[r]) /\ Chained(store, stack'[r])
  BY TopIsCall
<1>4. stack'[r] # << >> /\ Yields(store, ret'[r], Last(stack'[r]))
  BY <1>2 DEF Top
<1>5. CallsRight'
  BY <1>2, <1>3, <1>4, OneReader DEF IInv
<1>6. CacheTrue'
  BY DEF IInv, CacheTrue
<1> QED
  BY <1>1, <1>5, <1>6 DEF IInv

\* A call makes another one.
LEMMA CallKeeps ==
  ASSUME IInv, NEW r \in Readers, stack[r] # << >>, ret[r] = NoResult, NEW g \in Frame,
         IsDelta(store, Top(r).at), g.at = BaseOf(store, Top(r).at),
         g.depth = 0 \/ g.depth = Top(r).depth + 1,
         g.name # NoObject => g.depth = 0 /\ g.at = Find(store, g.name),
         stack' = [stack EXCEPT ![r] = Append(@, g)],
         UNCHANGED <<store, asked, answer, ret, m>>
  PROVE  IInv'
<1>1. /\ Append(stack[r], g) \in Seq(Frame) /\ Append(stack[r], g) # << >>
      /\ Append(stack[r], g)[1] = stack[r][1] /\ Chained(store, Append(stack[r], g))
  BY TopIsCall, Push DEF Top
<1>2. stack'[r] = Append(stack[r], g)
  BY DEF IInv, Types
<1>3. Types'
  BY <1>1 DEF IInv, Types
<1>4. \A q \in Readers \ {r} :
        stack'[q] = stack[q] /\ ret'[q] = ret[q] /\ asked'[q] = asked[q]
  BY DEF IInv, Types
<1>5. Begins(stack'[r], asked'[r])
  BY <1>1, <1>2, TopIsCall DEF Begins
<1>6. CallsRight'
  BY <1>1, <1>2, <1>4, <1>5, OneReader DEF IInv
<1>7. CacheTrue'
  BY DEF IInv, CacheTrue
<1> QED
  BY <1>3, <1>6, <1>7 DEF IInv

LEMMA ReadWholeKeeps ==
  ASSUME IInv, NEW r \in Readers, ReadWhole(r)
  PROVE  IInv'
<1> DEFINE e == Top(r).at
           v == IF IsWhole(store, e) /\ (IsPacked(e) => Top(r).depth <= MaxDeltaChain)
                THEN Decode(e, << >>) ELSE Failed
<1>1. /\ stack[r] # << >>
      /\ ~IsDelta(store, e) \/ Top(r).depth > MaxDeltaChain
      /\ ret' = [ret EXCEPT ![r] = v]
      /\ UNCHANGED <<store, asked, answer, stack, m>>
  BY DEF ReadWhole, Running
<1>2. v \in Seq(Places) \cup {Failed} /\ Yields(store, v, Top(r))
  BY <1>1, TopIsCall, WholeYields
<1> HIDE DEF v
<1> QED
  BY <1>1, <1>2, ResultKeeps

LEMMA BaseCachedKeeps ==
  ASSUME IInv, NEW r \in Readers, BaseCached(r)
  PROVE  IInv'
<1> DEFINE e == Top(r).at
           b == BaseOf(store, e)
           v == Decode(e, m[b])
<1>1. /\ stack[r] # << >> /\ IsDelta(store, e) /\ b \in DOMAIN m
      /\ ret' = [ret EXCEPT ![r] = v]
      /\ UNCHANGED <<store, asked, answer, stack, m>>
  BY DEF BaseCached, Running, Touch
<1>2. IsContent(store, m[b], b)
  BY <1>1 DEF IInv, CacheTrue
<1>3. v \in Seq(Places) \cup {Failed} /\ Yields(store, v, Top(r))
  BY <1>1, <1>2, TopIsCall, DecodeYields
<1> HIDE DEF v
<1> QED
  BY <1>1, <1>3, ResultKeeps

LEMMA BaseMissedKeeps ==
  ASSUME IInv, NEW r \in Readers, BaseMissed(r)
  PROVE  IInv'
<1> DEFINE e == Top(r).at
           g == BaseCall(BaseOf(store, e), Top(r).depth + 1)
<1>1. /\ stack[r] # << >> /\ ret[r] = NoResult /\ IsDelta(store, e)
      /\ stack' = [stack EXCEPT ![r] = Append(@, g)]
      /\ UNCHANGED <<store, asked, answer, ret, m>>
  BY DEF BaseMissed, Running
<1>2. Top(r) \in Frame /\ e \in Found /\ store \in Database
  BY <1>1, TopIsCall DEF IInv, Types
<1>3. BaseOf(store, e) \in Found
  BY <1>1, <1>2, BaseFound
<1>4. Top(r).depth \in Nat
  BY <1>2 DEF Frame
<1>5. /\ g \in Frame /\ g.at = BaseOf(store, e) /\ g.depth = Top(r).depth + 1
      /\ g.name = NoObject
  BY <1>3, <1>4 DEF BaseCall, Frame, Found
<1> HIDE DEF g
<1> QED
  BY <1>1, <1>5, CallKeeps

LEMMA BaseElsewhereKeeps ==
  ASSUME IInv, NEW r \in Readers, BaseElsewhere(r)
  PROVE  IInv'
<1> DEFINE e == Top(r).at
           g == ReadCall(Header(store, e).base)
<1>1. /\ stack[r] # << >> /\ ret[r] = NoResult /\ IsDelta(store, e)
      /\ ~BaseInPack(store, e)
      /\ stack' = [stack EXCEPT ![r] = Append(@, g)]
      /\ UNCHANGED <<store, asked, answer, ret, m>>
  BY DEF BaseElsewhere, Running
<1>2. e \in Found /\ store \in Database
  BY <1>1, TopIsCall DEF IInv, Types
<1>3. BaseOf(store, e) \in Found /\ Header(store, e).base \in Objects
  BY <1>1, <1>2, BaseFound
<1>4. BaseOf(store, e) = Find(store, Header(store, e).base)
  BY <1>1 DEF BaseOf
<1>5. /\ g \in Frame /\ g.at = BaseOf(store, e) /\ g.depth = 0
      /\ g.at = Find(store, g.name)
  BY <1>3, <1>4 DEF ReadCall, Frame, Found
<1> HIDE DEF g
<1> QED
  BY <1>1, <1>5, CallKeeps

\* The call that is over, and its caller.
LEMMA ReturnKeeps ==
  ASSUME IInv, NEW r \in Readers, Return(r)
  PROVE  IInv'
<1> DEFINE f == Top(r)
           rest == Front(stack[r])
           v == ret[r]
<1>1. /\ stack[r] # << >> /\ v # NoResult
      /\ IF v # Failed /\ f.name = NoObject THEN Put(f.at, v) ELSE UNCHANGED cache
      /\ stack' = [stack EXCEPT ![r] = rest]
      /\ IF rest = << >>
         THEN /\ answer' = [answer EXCEPT ![r] = v]
              /\ asked' = [asked EXCEPT ![r] = NoObject]
              /\ ret' = [ret EXCEPT ![r] = NoResult]
         ELSE /\ ret' = [ret EXCEPT ![r] = WithBase(Last(rest).at, v)]
              /\ UNCHANGED <<asked, answer>>
      /\ UNCHANGED store
  BY DEF Return
<1>2. /\ f \in Frame /\ stack[r] \in Seq(Frame) /\ Chained(store, stack[r])
      /\ Begins(stack[r], asked[r])
  BY <1>1, TopIsCall
<1>3. v \in Seq(Places) \cup {Failed} /\ Yields(store, v, f)
  BY <1>1 DEF IInv, Types, CallsRight, Top
<1>4. /\ rest \in Seq(Frame) /\ Chained(store, rest)
      /\ f.name # NoObject => f.depth = 0 /\ f.at = Find(store, f.name)
      /\ rest # << >> => /\ rest[1] = stack[r][1] /\ Last(rest) \in Frame
                         /\ IsDelta(store, Last(rest).at) /\ f.at = BaseOf(store, Last(rest).at)
                         /\ f.depth = 0 \/ f.depth = Last(rest).depth + 1
  BY <1>1, <1>2, Pop DEF Top
<1> HIDE DEF f, rest, v
<1>5. rest # << >> => /\ WithBase(Last(rest).at, v) \in Seq(Places) \cup {Failed}
                      /\ Yields(store, WithBase(Last(rest).at, v), Last(rest))
  BY <1>2, <1>3, <1>4, WithBaseYields
<1>6. Types'
  <2>1. stack' \in [Readers -> Seq(Frame)]
    BY <1>1, <1>4 DEF IInv, Types
  <2>2. CASE rest = << >>
    BY <1>1, <1>3, <2>1, <2>2 DEF IInv, Types
  <2>3. CASE rest # << >>
    BY <1>1, <1>5, <2>1, <2>3 DEF IInv, Types
  <2> QED
    BY <2>2, <2>3
<1>7. CallsRight'
  <2>1. stack'[r] = rest
    BY <1>1 DEF IInv, Types
  <2>2. \A q \in Readers \ {r} :
          stack'[q] = stack[q] /\ ret'[q] = ret[q] /\ asked'[q] = asked[q]
    BY <1>1 DEF IInv, Types
  <2>3. CASE rest = << >>
    <3>1. asked'[r] = NoObject /\ ret'[r] = NoResult
      BY <1>1, <2>3 DEF IInv, Types
    <3>2. Begins(stack'[r], asked'[r])
      BY <2>1, <2>3, <3>1 DEF Begins
    <3> QED
      BY <1>1, <1>4, <2>1, <2>2, <3>1, <3>2, OneReader DEF IInv
  <2>4. CASE rest # << >>
    <3>1. asked'[r] = asked[r] /\ ret'[r] = WithBase(Last(rest).at, v)
      BY <1>1, <2>4 DEF IInv, Types
    <3>2. Begins(stack'[r], asked'[r])
      BY <1>1, <1>2, <1>4, <2>1, <2>4, <3>1 DEF Begins
    <3> QED
      BY <1>1, <1>4, <1>5, <2>1, <2>2, <2>4, <3>1, <3>2, OneReader DEF IInv
  <2> QED
    BY <2>3, <2>4
<1>8. CacheTrue'
  <2>1. CASE v # Failed /\ f.name = NoObject
    BY <1>1, <1>3, <2>1, PutTrue DEF IInv, Yields
  <2>2. CASE ~(v # Failed /\ f.name = NoObject)
    BY <1>1, <2>2 DEF IInv, CacheTrue, cache
  <2> QED
    BY <2>1, <2>2
<1> QED
  BY <1>6, <1>7, <1>8 DEF IInv

LEMMA StepKeeps == IInv /\ [Next]_vars => IInv'
<1> SUFFICES ASSUME IInv, [Next]_vars PROVE IInv'
  OBVIOUS
<1>1. CASE UNCHANGED vars
  BY <1>1 DEF vars, IInv, Types, CallsRight, CacheTrue, OutOfReach, Yields, ReadCall
<1>2. ASSUME NEW r \in Readers, NEW o \in Objects, Read(r, o) PROVE IInv'
  BY <1>2, ReadKeeps
<1>3. ASSUME NEW r \in Readers, ReadWhole(r) PROVE IInv'
  BY <1>3, ReadWholeKeeps
<1>4. ASSUME NEW r \in Readers, BaseCached(r) PROVE IInv'
  BY <1>4, BaseCachedKeeps
<1>5. ASSUME NEW r \in Readers, BaseMissed(r) PROVE IInv'
  BY <1>5, BaseMissedKeeps
<1>6. ASSUME NEW r \in Readers, BaseElsewhere(r) PROVE IInv'
  BY <1>6, BaseElsewhereKeeps
<1>7. ASSUME NEW r \in Readers, Return(r) PROVE IInv'
  BY <1>7, ReturnKeeps
<1> QED
  BY <1>1, <1>2, <1>3, <1>4, <1>5, <1>6, <1>7 DEF Next, Step

\* The invariant holds throughout: every call, every result and every cached
\* content is what the database says it is (Read, readPacked, readBase,
\* deltaCache).
THEOREM Invariance == Spec => []IInv
<1>1. Init => IInv
  BY Initially
<1>2. IInv /\ [Next]_vars => IInv'
  BY StepKeeps
<1> QED
  BY <1>1, <1>2, PTL DEF Spec

(***************************************************************************)
(* What the invariant gives.                                               *)
(***************************************************************************)

LEMMA SameContent ==
  ASSUME NEW s, NEW c, NEW e PROVE Reads!IsContent(s, c, e) = IsContent(s, c, e)
BY SameBase DEF Reads!IsContent, IsContent, Reads!Places, Places, Reads!Decodes, Decodes, Reads!Header, Header,
   Reads!IsDelta, IsDelta, Reads!IsPacked, IsPacked, Reads!IsWhole, IsWhole

\* What a Read finds no content for is out of reach.
LEMMA OutMeansOut ==
  ASSUME store \in Database, NEW o \in Objects, OutOfReach(store, ReadCall(o))
  PROVE  ~Reads!InReach(o)
<1> SUFFICES ASSUME Reads!InReach(o) PROVE FALSE
  OBVIOUS
<1> DEFINE at == Chain(store, o)
<1>1. PICK n \in 0..MaxDeltaChain :
        Reads!IsWhole(store, at[n]) /\ \A d \in 0..n : Reads!Decodes(store, at[d])
  BY SameChain DEF Reads!InReach
<1>2. IsWhole(store, at[n]) /\ \A d \in 0..n : Decodes(store, at[d])
  BY <1>1 DEF Reads!IsWhole, IsWhole, Reads!Decodes, Decodes, Reads!Header, Header
<1> HIDE DEF at
<1>3. PICK c : IsContent(store, c, Find(store, o)) /\ Len(c) <= MaxDeltaChain + 1
  BY <1>2, ChainContent DEF at
<1>4. c \in Seq(Places) /\ Len(c) \in Nat
  BY <1>3, ContentStarts
<1>5. Len(c) + 0 > MaxDeltaChain + 1
  BY <1>3, <1>4 DEF OutOfReach, ReadCall
<1> QED
  BY <1>3, <1>4, <1>5, PackStoreAssumption

LEMMA StepIsStep ==
  ASSUME IInv, [Next]_vars
  PROVE  [Reads!Next]_(Reads!vars)
<1>1. CASE UNCHANGED vars
  BY <1>1 DEF vars, Reads!vars
<1>2. ASSUME NEW r \in Readers, NEW o \in Objects, Read(r, o)
      PROVE  Reads!Ask(r)
  BY <1>2 DEF Read, Reads!Ask
<1>3. ASSUME NEW r \in Readers, ReadWhole(r) \/ BaseCached(r) \/ BaseMissed(r) \/ BaseElsewhere(r)
      PROVE  UNCHANGED Reads!vars
  BY <1>3 DEF ReadWhole, BaseCached, BaseMissed, BaseElsewhere, Reads!vars
<1>4. ASSUME NEW r \in Readers, Return(r)
      PROVE  Reads!Respond(r) \/ UNCHANGED Reads!vars
  <2> DEFINE f == Top(r)
             v == ret[r]
  <2>1. stack[r] # << >> /\ v # NoResult
    BY <1>4 DEF Return
  <2>2. CASE Front(stack[r]) # << >>
    BY <1>4, <2>2 DEF Return, Reads!vars
  <2>3. CASE Front(stack[r]) = << >>
    <3>1. /\ answer' = [answer EXCEPT ![r] = v]
          /\ asked' = [asked EXCEPT ![r] = NoObject]
          /\ UNCHANGED store
      BY <1>4, <2>3 DEF Return
    <3>2. /\ f \in Frame /\ stack[r] \in Seq(Frame) /\ Chained(store, stack[r])
          /\ Begins(stack[r], asked[r])
      BY <2>1, TopIsCall
    <3>3. f = stack[r][1] /\ (f.name # NoObject => f.depth = 0 /\ f.at = Find(store, f.name))
      BY <2>1, <2>3, <3>2, Pop DEF Top
    <3>4. asked[r] # NoObject /\ asked[r] = f.name /\ f.name \in Objects
      BY <2>1, <3>2, <3>3 DEF Begins, Frame
    <3>5. Yields(store, v, f) /\ store \in Database
      BY <2>1 DEF IInv, Types, CallsRight, Top
    <3>6. f.at = Find(store, asked[r]) /\ f.depth = 0
      BY <3>3, <3>4
    <3> HIDE DEF f, v
    <3>7. Reads!Right(asked[r], v)
      <4>1. CASE v = Failed
        <5>1. OutOfReach(store, ReadCall(asked[r]))
          BY <3>5, <3>6, <4>1 DEF Yields, OutOfReach, ReadCall
        <5>2. ~Reads!InReach(asked[r])
          BY <3>4, <3>5, <5>1, OutMeansOut
        <5> QED
          BY <4>1, <5>2 DEF Reads!Right
      <4>2. CASE v # Failed
        <5>1. Reads!IsContent(store, v, Reads!Find(store, asked[r]))
          BY <3>5, <3>6, <4>2, SameContent, SameFind DEF Yields
        <5> QED
          BY <4>2, <5>1 DEF Reads!Right
      <4> QED
        BY <4>1, <4>2
    <3>8. answer'[r] = v
      BY <3>1 DEF IInv, Types
    <3> QED
      BY <3>1, <3>4, <3>7, <3>8 DEF Reads!Respond
  <2> QED
    BY <2>2, <2>3
<1> QED
  BY <1>1, <1>2, <1>3, <1>4 DEF Next, Step, Reads!Next

\* Every behaviour of the readers is one of ObjectReads: whatever is cached and
\* whoever else reads, an answer is the content of the object, and a refusal
\* means that no chain within the limit yields it (Read, readPacked, readBase).
THEOREM AnswersAsAlone == Spec => Reads!Spec
<1>1. Init => Reads!Init
  BY DEF Init, Reads!Init
<1>2. IInv /\ [Next]_vars => [Reads!Next]_(Reads!vars)
  BY StepIsStep
<1> QED
  BY <1>1, <1>2, Invariance, PTL DEF Spec, Reads!Spec

(***************************************************************************)
(* What the headers say an object is.                                      *)
(***************************************************************************)

\* The headers lead along the content of an object, as far as they lead.
LEMMA HeadersFollow ==
  ASSUME NEW s, NEW o, NEW c, IsContent(s, c, Find(s, o)),
         NEW at, IsChain(at, s, o, MaxDeltaChain, "pack"),
         NEW d \in 0..MaxDeltaChain, at[d] # Nowhere
  PROVE  d + 1 <= Len(c) /\ at[d] = c[d + 1]
<1>1. /\ c # << >> /\ c[1] = Find(s, o)
      /\ \A i \in 1..(Len(c) - 1) : IsDelta(s, c[i]) /\ c[i + 1] = BaseOf(s, c[i])
      /\ IsWhole(s, c[Len(c)]) /\ Len(c) \in Nat /\ Len(c) >= 1
  BY ContentStarts DEF IsContent
<1>2. MaxDeltaChain \in Nat
  BY PackStoreAssumption
<1>3. /\ at[0] = Find(s, o)
      /\ \A k \in 1..MaxDeltaChain :
           at[k] = IF IsDelta(s, at[k - 1]) /\ BaseInPack(s, at[k - 1])
                   THEN BaseOf(s, at[k - 1]) ELSE Nowhere
  BY <1>2, ChainUnfolds
<1> DEFINE Follows(k) == k + 1 <= Len(c) /\ at[k] = c[k + 1]
           T == {k \in Nat : k <= MaxDeltaChain /\ at[k] # Nowhere /\ ~Follows(k)}
<1>4. ASSUME T # {} PROVE FALSE
  <2>1. PICK k \in T : \A x \in T : k <= x
    BY <1>4, Smallest
  <2>2. k # 0
    BY <1>1, <1>3, <2>1
  <2>3. k \in 1..MaxDeltaChain /\ k - 1 \in Nat /\ k - 1 <= MaxDeltaChain /\ k - 1 \notin T
    BY <1>2, <2>1, <2>2
  <2>4. IsDelta(s, at[k - 1]) /\ at[k] = BaseOf(s, at[k - 1])
    BY <1>3, <2>1, <2>3
  <2>5. at[k - 1] # Nowhere
    BY <2>4, DeltaOrWhole
  <2>6. k <= Len(c) /\ at[k - 1] = c[k]
    BY <2>3, <2>5
  <2>7. k # Len(c)
    BY <1>1, <2>4, <2>6, DeltaOrWhole
  <2>8. k \in 1..(Len(c) - 1)
    BY <1>1, <2>1, <2>2, <2>6, <2>7
  <2>9. Follows(k)
    BY <1>1, <2>4, <2>6, <2>8
  <2> QED
    BY <2>1, <2>9
<1> QED
  BY <1>4

\* So where they end is the bottom of it.
LEMMA TypeIsBottom ==
  ASSUME NEW s, NEW o, NEW c, IsContent(s, c, Find(s, o)), TypeInPack(s, o) # Nowhere
  PROVE  c[Len(c)] = TypeInPack(s, o)
<1>1. PICK at : /\ IsChain(at, s, o, MaxDeltaChain, "pack")
                /\ \E d \in 0..MaxDeltaChain : IsWhole(s, at[d]) /\ TypeInPack(s, o) = at[d]
  BY TypeIsEnd
<1>2. PICK d \in 0..MaxDeltaChain : IsWhole(s, at[d]) /\ TypeInPack(s, o) = at[d]
  BY <1>1
<1>3. d + 1 <= Len(c) /\ at[d] = c[d + 1]
  BY <1>1, <1>2, HeadersFollow
<1>4. Len(c) \in Nat /\ \A i \in 1..(Len(c) - 1) : IsDelta(s, c[i])
  BY ContentStarts DEF IsContent
<1>5. d + 1 = Len(c)
  <2>1. d \in Nat
    BY PackStoreAssumption
  <2>2. d + 1 \notin 1..(Len(c) - 1)
    BY <1>2, <1>3, <1>4, DeltaOrWhole
  <2> QED
    BY <1>3, <1>4, <2>1, <2>2
<1> QED
  BY <1>2, <1>3, <1>5

\* Every answer is the content of an object.
AnswersRight ==
  \A r \in Readers :
    answer[r] # Failed => \E o \in Objects : IsContent(store, answer[r], Find(store, o))

LEMMA StepAnswersRight ==
  ASSUME IInv, AnswersRight, [Next]_vars
  PROVE  AnswersRight'
<1>1. [Reads!Next]_(Reads!vars)
  BY StepIsStep
<1>2. CASE UNCHANGED Reads!vars
  BY <1>2 DEF Reads!vars, AnswersRight
<1>3. ASSUME NEW r \in Readers, Reads!Ask(r) PROVE AnswersRight'
  BY <1>3 DEF Reads!Ask, AnswersRight
<1>4. ASSUME NEW r \in Readers, Reads!Respond(r) PROVE AnswersRight'
  <2>1. /\ asked[r] \in Objects /\ UNCHANGED store
        /\ answer' = [answer EXCEPT ![r] = answer'[r]]
        /\ Reads!Right(asked[r], answer'[r])
    BY <1>4 DEF Reads!Respond, IInv, Types
  <2>2. answer'[r] # Failed => IsContent(store, answer'[r], Find(store, asked[r]))
    BY <2>1, SameContent, SameFind DEF Reads!Right
  <2>3. \A q \in Readers \ {r} : answer'[q] = answer[q]
    BY <2>1 DEF IInv, Types
  <2> SUFFICES ASSUME NEW q \in Readers, answer'[q] # Failed
               PROVE  \E o \in Objects : IsContent(store', answer'[q], Find(store', o))
    BY Zenon DEF AnswersRight
  <2> QED
    BY <2>1, <2>2, <2>3 DEF AnswersRight
<1> QED
  BY <1>1, <1>2, <1>3, <1>4 DEF Reads!Next

\* The kind an object is given from headers alone, without its content, is the
\* one its content has whenever a read yields it, whatever was cached (TypeInPack).
THEOREM TypesAlwaysAgree == Spec => []TypesAgree
<1>1. Init => AnswersRight
  BY DEF Init, AnswersRight
<1>2. IInv /\ AnswersRight /\ [Next]_vars => AnswersRight'
  BY StepAnswersRight
<1>3. IInv /\ AnswersRight => TypesAgree
  <2> SUFFICES ASSUME IInv, AnswersRight, NEW r \in Readers, answer[r] # Failed,
                      TypeInPack(store, answer[r][1][2]) # Nowhere
               PROVE  answer[r][Len(answer[r])] = TypeInPack(store, answer[r][1][2])
    BY DEF TypesAgree
  <2>1. PICK o \in Objects : IsContent(store, answer[r], Find(store, o))
    BY DEF AnswersRight
  <2>2. answer[r][1] = Find(store, o) /\ Find(store, o) \in Places
    BY <2>1, ContentStarts DEF IsContent
  <2>3. Find(store, o)[2] = o
    BY <2>2, PackStoreAssumption DEF Find
  <2> QED
    BY <2>1, <2>2, <2>3, TypeIsBottom
<1> QED
  BY <1>1, <1>2, <1>3, Invariance, PTL DEF Spec

(***************************************************************************)
(* How many bytes a list of places holds.                                  *)
(***************************************************************************)

\* sum[k] is what the first k places of l hold, up to n of them.
IsSum(sum, l, n) ==
  sum = [k \in 0..n |-> IF k = 0 THEN 0 ELSE sum[k - 1] + Length[l[k]]]

LEMMA SumExists ==
  ASSUME NEW l, NEW n \in Nat
  PROVE  \E sum : IsSum(sum, l, n)
<1> DEFINE G(v, k) == v + Length[l[k]]
           Is(sum, k) == sum = [d \in 0..k |-> IF d = 0 THEN 0 ELSE G(sum[d - 1], d)]
           T == {k \in Nat : ~ \E sum : Is(sum, k)}
<1> SUFFICES T = {}
  BY DEF IsSum
<1> HIDE DEF G
<1>1. Is([d \in 0..0 |-> 0], 0)
  OBVIOUS
<1>2. ASSUME NEW k \in Nat \ {0}, NEW g, Is(g, k - 1)
      PROVE  \E sum : Is(sum, k)
  <2> DEFINE f == [d \in 0..k |-> IF d = k THEN G(g[k - 1], k) ELSE g[d]]
  <2>1. ASSUME NEW d \in 0..k PROVE f[d] = IF d = 0 THEN 0 ELSE G(f[d - 1], d)
    <3>1. CASE d = 0
      BY <1>2, <3>1
    <3>2. CASE d = k
      <4>1. f[d - 1] = g[k - 1] /\ f[d] = G(g[k - 1], k)
        BY <3>2
      <4> QED
        BY <3>2, <4>1
    <3>3. CASE d # 0 /\ d # k
      <4>1. f[d] = g[d] /\ f[d - 1] = g[d - 1] /\ d \in 0..(k - 1)
        BY <3>3
      <4>2. g[d] = G(g[d - 1], d)
        BY <1>2, <3>3, <4>1
      <4> QED
        BY <3>3, <4>1, <4>2
    <3> QED
      BY <3>1, <3>2, <3>3
  <2>2. f = [d \in 0..k |-> f[d]]
    OBVIOUS
  <2> HIDE DEF f
  <2>3. [d \in 0..k |-> f[d]] = [d \in 0..k |-> IF d = 0 THEN 0 ELSE G(f[d - 1], d)]
    BY <2>1
  <2> QED
    BY <2>2, <2>3
<1> HIDE DEF Is
<1>3. ASSUME T # {} PROVE FALSE
  <2>1. PICK k \in T : \A x \in T : k <= x
    BY <1>3, Smallest
  <2>2. k # 0
    BY <1>1, <2>1
  <2>3. k \in Nat \ {0} /\ k - 1 \in Nat /\ k - 1 \notin T
    BY <2>1, <2>2
  <2>4. PICK g : Is(g, k - 1)
    BY <2>3
  <2>5. \E sum : Is(sum, k)
    BY <1>2, <2>3, <2>4
  <2> QED
    BY <2>1, <2>5
<1> QED
  BY <1>3

\* Bytes adds up the lengths one after the other.
LEMMA BytesAddsUp ==
  ASSUME NEW l \in Seq(Places)
  PROVE  \E sum : /\ sum[0] = 0 /\ Bytes(l) = sum[Len(l)]
                  /\ \A k \in 1..Len(l) : sum[k] = sum[k - 1] + Length[l[k]]
                  /\ \A k \in 0..Len(l) : sum[k] \in Nat
<1> DEFINE sum == CHOOSE x : IsSum(x, l, Len(l))
<1>1. Len(l) \in Nat /\ \A k \in 1..Len(l) : Length[l[k]] \in Nat
  BY PackReadAssumption
<1>2. Bytes(l) = sum[Len(l)]
  BY DEF Bytes, IsSum
<1>3. IsSum(sum, l, Len(l))
  BY <1>1, SumExists
<1> HIDE DEF sum
<1>4. sum[0] = 0 /\ \A k \in 1..Len(l) : sum[k] = sum[k - 1] + Length[l[k]]
  BY <1>1, <1>3 DEF IsSum
<1> DEFINE T == {k \in Nat : k <= Len(l) /\ sum[k] \notin Nat}
<1>5. ASSUME T # {} PROVE FALSE
  <2>1. PICK k \in T : \A x \in T : k <= x
    BY <1>5, Smallest
  <2>2. k \in 1..Len(l)
    BY <1>1, <1>4, <2>1
  <2>3. k - 1 \in Nat /\ k - 1 \notin T /\ k - 1 <= Len(l)
    BY <1>1, <2>1, <2>2
  <2>4. sum[k - 1] \in Nat
    BY <2>3
  <2>5. sum[k] \in Nat
    BY <1>1, <1>4, <2>2, <2>4
  <2> QED
    BY <2>1, <2>5
<1> QED
  BY <1>1, <1>2, <1>4, <1>5

LEMMA BytesNat ==
  ASSUME NEW l \in Seq(Places)
  PROVE  Bytes(l) \in Nat
<1>1. Len(l) \in 0..Len(l)
  OBVIOUS
<1> QED
  BY <1>1, BytesAddsUp

LEMMA BytesOfNone == Bytes(<< >>) = 0
<1>1. << >> \in Seq(Places) /\ Len(<< >>) = 0
  OBVIOUS
<1> QED
  BY <1>1, BytesAddsUp

LEMMA BytesOfOne ==
  ASSUME NEW e \in Places
  PROVE  Bytes(<<e>>) = Length[e]
<1>1. <<e>> \in Seq(Places) /\ Len(<<e>>) = 1 /\ <<e>>[1] = e
  OBVIOUS
<1> HIDE DEF Places
<1> DEFINE one == <<e>>
<1> HIDE DEF one
<1>2. one \in Seq(Places) /\ Len(one) = 1 /\ one[1] = e
  BY <1>1 DEF one
<1>3. PICK sum : /\ sum[0] = 0 /\ Bytes(one) = sum[Len(one)]
                 /\ \A k \in 1..Len(one) : sum[k] = sum[k - 1] + Length[one[k]]
  BY <1>2, BytesAddsUp
<1>4. sum[1] = sum[0] + Length[e]
  BY <1>2, <1>3
<1>5. Length[e] \in Nat
  BY PackReadAssumption
<1> QED
  BY <1>2, <1>3, <1>4, <1>5 DEF one

\* Two lists hold together what each of them holds.
LEMMA BytesOfBoth ==
  ASSUME NEW a \in Seq(Places), NEW b \in Seq(Places)
  PROVE  Bytes(a \o b) = Bytes(a) + Bytes(b)
<1> DEFINE c == a \o b
<1>1. Len(a) \in Nat /\ Len(b) \in Nat
  OBVIOUS
<1>2. /\ c \in Seq(Places) /\ Len(c) = Len(a) + Len(b)
      /\ \A k \in 1..Len(a) : c[k] = a[k]
      /\ \A k \in 1..Len(b) : c[Len(a) + k] = b[k]
  OBVIOUS
<1> HIDE DEF c
<1>3. PICK sa : /\ sa[0] = 0 /\ Bytes(a) = sa[Len(a)]
                /\ \A k \in 1..Len(a) : sa[k] = sa[k - 1] + Length[a[k]]
                /\ \A k \in 0..Len(a) : sa[k] \in Nat
  BY BytesAddsUp
<1>4. PICK sb : /\ sb[0] = 0 /\ Bytes(b) = sb[Len(b)]
                /\ \A k \in 1..Len(b) : sb[k] = sb[k - 1] + Length[b[k]]
                /\ \A k \in 0..Len(b) : sb[k] \in Nat
  BY BytesAddsUp
<1>5. PICK sc : /\ sc[0] = 0 /\ Bytes(c) = sc[Len(c)]
                /\ \A k \in 1..Len(c) : sc[k] = sc[k - 1] + Length[c[k]]
  <2>1. c \in Seq(Places)
    BY <1>2
  <2> QED
    BY <2>1, BytesAddsUp
<1> DEFINE S == {k \in Nat : k <= Len(a) /\ sc[k] # sa[k]}
           T == {k \in Nat : k <= Len(b) /\ sc[Len(a) + k] # sa[Len(a)] + sb[k]}
<1>6. ASSUME S # {} PROVE FALSE
  <2>1. PICK k \in S : \A x \in S : k <= x
    BY <1>6, Smallest
  <2>2. k \in 1..Len(a) /\ k \in 1..Len(c)
    BY <1>1, <1>2, <1>3, <1>5, <2>1
  <2>3. k - 1 \in Nat /\ k - 1 <= Len(a) /\ k - 1 \notin S
    BY <1>1, <2>1, <2>2
  <2>4. sc[k - 1] = sa[k - 1] /\ c[k] = a[k]
    BY <1>2, <2>2, <2>3
  <2>5. sc[k] = sa[k]
    BY <1>3, <1>5, <2>2, <2>4
  <2> QED
    BY <2>1, <2>5
<1>7. sc[Len(a)] = sa[Len(a)] /\ sa[Len(a)] \in Nat
  BY <1>1, <1>3, <1>6
<1>8. ASSUME T # {} PROVE FALSE
  <2>1. PICK k \in T : \A x \in T : k <= x
    BY <1>8, Smallest
  <2>2. k # 0
    BY <1>1, <1>4, <1>7, <2>1
  <2>3. k \in 1..Len(b) /\ Len(a) + k \in 1..Len(c) /\ (Len(a) + k) - 1 = Len(a) + (k - 1)
    BY <1>1, <1>2, <2>1, <2>2
  <2>4. k - 1 \in Nat /\ k - 1 <= Len(b) /\ k - 1 \notin T /\ k - 1 \in 0..Len(b)
    BY <1>1, <2>1, <2>3
  <2>5. sc[Len(a) + (k - 1)] = sa[Len(a)] + sb[k - 1]
    BY <2>4
  <2>6. /\ sc[Len(a) + k] = sc[Len(a) + (k - 1)] + Length[b[k]]
        /\ sb[k] = sb[k - 1] + Length[b[k]]
    BY <1>2, <1>4, <1>5, <2>3
  <2>7. sb[k - 1] \in Nat /\ Length[b[k]] \in Nat
    BY <1>4, <2>3, <2>4, PackReadAssumption
  <2>8. sc[Len(a) + k] = sa[Len(a)] + sb[k]
    BY <1>7, <2>5, <2>6, <2>7
  <2> QED
    BY <2>1, <2>8
<1>9. sc[Len(a) + Len(b)] = sa[Len(a)] + sb[Len(b)]
  BY <1>1, <1>8
<1> QED
  BY <1>2, <1>3, <1>4, <1>5, <1>9 DEF c

(***************************************************************************)
(* Lists cut and joined.                                                   *)
(***************************************************************************)

LEMMA Joined ==
  ASSUME NEW S, NEW a \in Seq(S), NEW b \in Seq(S)
  PROVE  /\ a \o b \in Seq(S) /\ Len(a \o b) = Len(a) + Len(b)
         /\ \A j \in 1..(Len(a) + Len(b)) : (a \o b)[j] = IF j <= Len(a) THEN a[j] ELSE b[j - Len(a)]
OBVIOUS

LEMMA CutOff ==
  ASSUME NEW S, NEW l \in Seq(S), NEW i \in Nat, NEW k \in Nat, i + k <= Len(l)
  PROVE  /\ SubSeq(l, i + 1, i + k) \in Seq(S) /\ Len(SubSeq(l, i + 1, i + k)) = k
         /\ \A j \in 1..k : SubSeq(l, i + 1, i + k)[j] = l[i + j]
OBVIOUS

\* A list is its first k places and the others.
LEMMA CutInTwo ==
  ASSUME NEW S, NEW l \in Seq(S), NEW k \in 0..Len(l)
  PROVE  /\ SubSeq(l, 1, k) \in Seq(S) /\ Len(SubSeq(l, 1, k)) = k
         /\ \A j \in 1..k : SubSeq(l, 1, k)[j] = l[j]
         /\ SubSeq(l, k + 1, Len(l)) \in Seq(S) /\ Len(SubSeq(l, k + 1, Len(l))) = Len(l) - k
         /\ \A j \in 1..(Len(l) - k) : SubSeq(l, k + 1, Len(l))[j] = l[k + j]
         /\ l = SubSeq(l, 1, k) \o SubSeq(l, k + 1, Len(l))
<1> DEFINE a == SubSeq(l, 1, k)
           b == SubSeq(l, k + 1, Len(l))
<1>1. Len(l) \in Nat /\ k \in Nat /\ k <= Len(l) /\ Len(l) - k \in Nat
  <2>1. Len(l) \in Nat
    OBVIOUS
  <2> QED
    BY <2>1
<1>2. a \in Seq(S) /\ Len(a) = k /\ \A j \in 1..k : a[j] = l[j]
  <2>1. 0 + 1 = 1 /\ 0 + k = k /\ \A j \in 1..k : 0 + j = j
    BY <1>1
  <2>2. /\ SubSeq(l, 0 + 1, 0 + k) \in Seq(S) /\ Len(SubSeq(l, 0 + 1, 0 + k)) = k
        /\ \A j \in 1..k : SubSeq(l, 0 + 1, 0 + k)[j] = l[0 + j]
    <3>1. 0 \in Nat /\ 0 + k <= Len(l)
      BY <1>1
    <3> QED
      BY <1>1, <3>1, CutOff
  <2> QED
    BY <2>1, <2>2
<1>3. b \in Seq(S) /\ Len(b) = Len(l) - k /\ \A j \in 1..(Len(l) - k) : b[j] = l[k + j]
  <2> DEFINE d == Len(l) - k
  <2>1. d \in Nat /\ k + d = Len(l)
    BY <1>1
  <2> HIDE DEF d
  <2>2. /\ SubSeq(l, k + 1, k + d) \in Seq(S) /\ Len(SubSeq(l, k + 1, k + d)) = d
        /\ \A j \in 1..d : SubSeq(l, k + 1, k + d)[j] = l[k + j]
    BY <1>1, <2>1, CutOff
  <2> QED
    BY <2>1, <2>2 DEF d
<1> HIDE DEF a, b
<1>4. l = a \o b
  <2> DEFINE c == a \o b
             n == Len(l)
  <2>1. /\ c \in Seq(S) /\ Len(c) = k + (Len(l) - k)
        /\ \A j \in 1..(k + (Len(l) - k)) : c[j] = IF j <= k THEN a[j] ELSE b[j - k]
    BY <1>2, <1>3, Joined
  <2>2. n \in Nat /\ k \in Nat /\ k <= n /\ k + (n - k) = n
    BY <1>1
  <2>3. /\ c \in Seq(S) /\ Len(c) = n /\ \A j \in 1..n : c[j] = IF j <= k THEN a[j] ELSE b[j - k]
    BY <2>1, <2>2
  <2>4. (\A j \in 1..k : a[j] = l[j]) /\ \A j \in 1..(n - k) : b[j] = l[k + j]
    BY <1>2, <1>3
  <2> HIDE DEF c, n
  <2>5. ASSUME NEW j \in 1..n PROVE c[j] = l[j]
    <3>1. CASE j <= k
      BY <2>2, <2>3, <2>4, <3>1
    <3>2. CASE ~(j <= k)
      <4>1. j - k \in 1..(n - k) /\ k + (j - k) = j
        BY <2>2, <3>2
      <4> QED
        BY <2>3, <2>4, <3>2, <4>1
    <3> QED
      BY <3>1, <3>2
  <2>6. Len(l) = n
    BY DEF n
  <2>7. l = c
    BY <2>3, <2>5, <2>6, SeqEqual
  <2> QED
    BY <2>7 DEF c
<1> QED
  BY <1>2, <1>3, <1>4 DEF a, b

\* A place in front of a list.
LEMMA InFront ==
  ASSUME NEW S, NEW l \in Seq(S), NEW e \in S
  PROVE  /\ <<e>> \o l \in Seq(S) /\ Len(<<e>> \o l) = Len(l) + 1
         /\ \A j \in 1..(Len(l) + 1) : (<<e>> \o l)[j] = IF j = 1 THEN e ELSE l[j - 1]
<1> DEFINE one == <<e>>
           c == one \o l
           n == Len(l)
<1>1. one \in Seq(S) /\ Len(one) = 1 /\ one[1] = e /\ n \in Nat
  OBVIOUS
<1> HIDE DEF one
<1>2. /\ c \in Seq(S) /\ Len(c) = 1 + n
      /\ \A j \in 1..(1 + n) : c[j] = IF j <= 1 THEN one[j] ELSE l[j - 1]
  <2>1. /\ c \in Seq(S) /\ Len(c) = Len(one) + n
        /\ \A j \in 1..(Len(one) + n) : c[j] = IF j <= Len(one) THEN one[j] ELSE l[j - Len(one)]
    BY <1>1, Joined
  <2> HIDE DEF c, n
  <2> QED
    BY <1>1, <2>1
<1> HIDE DEF c, n
<1>3. Len(c) = n + 1 /\ \A j \in 1..(n + 1) : c[j] = IF j = 1 THEN e ELSE l[j - 1]
  BY <1>1, <1>2
<1> QED
  BY <1>2, <1>3 DEF c, n, one

(***************************************************************************)
(* The cache: the map, the lists and the sizes.                            *)
(***************************************************************************)

Has(l, e) == \E i \in 1..Len(l) : l[i] = e

Distinct(l) == \A i, j \in 1..Len(l) : l[i] = l[j] => i = j

\* l lists the places of known in shard h, each once, and n is what they hold.
Shelf(l, n, known, h) ==
  /\ l \in Seq(Places) /\ Distinct(l)
  /\ \A e \in Places : Has(l, e) <=> e \in known /\ Shard[e] = h
  /\ n = Bytes(l) /\ n <= ShardLimit

\* A place that is used moves to the front of its list, which holds the same.
LEMMA MovedShelf ==
  ASSUME NEW l, NEW n, NEW known, NEW h, Shelf(l, n, known, h), NEW e \in Places, Has(l, e)
  PROVE  Shelf(MoveToFront(l, e), n, known, h)
<1> DEFINE i == CHOOSE i \in 1..Len(l) : l[i] = e
           a == SubSeq(l, 1, i - 1)
           b == SubSeq(l, i + 1, Len(l))
           ab == a \o b
           x == <<e>> \o ab
           n1 == Len(l)
           old(j) == IF j = 1 THEN i ELSE IF j <= i THEN j - 1 ELSE j
           new(j) == IF j = i THEN 1 ELSE IF j < i THEN j + 1 ELSE j
<1>1. /\ l \in Seq(Places) /\ Distinct(l)
      /\ \A y \in Places : Has(l, y) <=> y \in known /\ Shard[y] = h
      /\ n = Bytes(l) /\ n <= ShardLimit
  BY DEF Shelf
<1>2. i \in 1..n1 /\ l[i] = e
  BY DEF Has
<1>3. MoveToFront(l, e) = x
  BY DEF MoveToFront, RemoveAt
<1> HIDE DEF i, Places, a, b
<1>4. n1 \in Nat /\ i \in Nat /\ 1 <= i /\ i <= n1
  <2>1. n1 \in Nat
    BY <1>1
  <2> QED
    BY <1>2, <2>1
<1>5. /\ a \in Seq(Places) /\ Len(a) = i - 1 /\ \A j \in 1..(i - 1) : a[j] = l[j]
  BY <1>1, <1>4, CutInTwo DEF a
<1>6. /\ b \in Seq(Places) /\ Len(b) = n1 - i /\ \A j \in 1..(n1 - i) : b[j] = l[i + j]
  BY <1>1, <1>2, CutInTwo DEF b
<1>7. /\ ab \in Seq(Places) /\ Len(ab) = n1 - 1
      /\ \A j \in 1..(n1 - 1) : ab[j] = IF j <= i - 1 THEN l[j] ELSE l[j + 1]
  <2>1. /\ ab \in Seq(Places) /\ Len(ab) = Len(a) + Len(b)
        /\ \A j \in 1..(Len(a) + Len(b)) : ab[j] = IF j <= Len(a) THEN a[j] ELSE b[j - Len(a)]
    BY <1>5, <1>6, Joined
  <2>2. Len(a) = i - 1 /\ Len(a) + Len(b) = n1 - 1
    BY <1>4, <1>5, <1>6
  <2> HIDE DEF ab, n1
  <2>3. ASSUME NEW j \in 1..(n1 - 1)
        PROVE  ab[j] = IF j <= i - 1 THEN l[j] ELSE l[j + 1]
    <3>1. CASE j <= i - 1
      <4>1. j \in 1..(i - 1)
        BY <1>4, <2>3, <3>1
      <4> QED
        BY <1>5, <2>1, <2>2, <3>1, <4>1
    <3>2. CASE ~(j <= i - 1)
      <4>1. j - (i - 1) \in 1..(n1 - i) /\ i + (j - (i - 1)) = j + 1
        BY <1>4, <2>3, <3>2
      <4>2. ab[j] = b[j - (i - 1)]
        BY <2>1, <2>2, <3>2
      <4> QED
        BY <1>6, <3>2, <4>1, <4>2
    <3> QED
      BY <3>1, <3>2
  <2> QED
    BY <2>1, <2>2, <2>3
<1> HIDE DEF ab
<1>8. /\ x \in Seq(Places) /\ Len(x) = n1
      /\ \A j \in 1..n1 : x[j] = IF j = 1 THEN e ELSE ab[j - 1]
  <2>1. /\ x \in Seq(Places) /\ Len(x) = Len(ab) + 1
        /\ \A j \in 1..(Len(ab) + 1) : x[j] = IF j = 1 THEN e ELSE ab[j - 1]
    BY <1>7, InFront
  <2>2. Len(ab) + 1 = n1
    BY <1>4, <1>7
  <2> HIDE DEF x, n1
  <2> QED
    BY <2>1, <2>2
<1> HIDE DEF x, n1
<1>9. \A j \in 1..n1 : x[j] = l[old(j)] /\ old(j) \in 1..n1
  <2> SUFFICES ASSUME NEW j \in 1..n1 PROVE x[j] = l[old(j)] /\ old(j) \in 1..n1
    OBVIOUS
  <2>1. CASE j = 1
    BY <1>2, <1>8, <2>1
  <2>2. CASE j # 1 /\ j <= i
    <3>1. j - 1 \in 1..(n1 - 1) /\ j - 1 <= i - 1 /\ j - 1 \in 1..n1
      BY <1>4, <2>2
    <3> QED
      BY <1>7, <1>8, <2>2, <3>1
  <2>3. CASE j # 1 /\ ~(j <= i)
    <3>1. j - 1 \in 1..(n1 - 1) /\ ~(j - 1 <= i - 1) /\ (j - 1) + 1 = j
      BY <1>4, <2>3
    <3> QED
      BY <1>7, <1>8, <2>3, <3>1
  <2> QED
    BY <2>1, <2>2, <2>3
<1>10. \A j \in 1..n1 : new(j) \in 1..n1 /\ old(new(j)) = j
  BY <1>4
<1>11. \A j, k \in 1..n1 : old(j) = old(k) => j = k
  BY <1>4
<1> HIDE DEF old, new
<1>12. n1 = Len(l)
  BY DEF n1
<1>13. Distinct(x)
  <2> SUFFICES ASSUME NEW j \in 1..n1, NEW k \in 1..n1, x[j] = x[k] PROVE j = k
    BY <1>8 DEF Distinct
  <2>1. l[old(j)] = l[old(k)] /\ old(j) \in 1..n1 /\ old(k) \in 1..n1
    BY <1>9
  <2>2. old(j) = old(k)
    BY <1>1, <1>12, <2>1 DEF Distinct
  <2> QED
    BY <1>11, <2>2
<1>14. ASSUME NEW y PROVE Has(x, y) <=> Has(l, y)
  <2>1. ASSUME NEW j \in 1..n1, x[j] = y PROVE Has(l, y)
    BY <1>9, <1>12, <2>1 DEF Has
  <2>2. ASSUME NEW j \in 1..n1, l[j] = y PROVE Has(x, y)
    <3>1. new(j) \in 1..n1 /\ x[new(j)] = y
      BY <1>9, <1>10, <2>2
    <3> QED
      BY <1>8, <3>1 DEF Has
  <2> QED
    BY <1>8, <1>12, <2>1, <2>2 DEF Has
<1>15. Bytes(x) = Bytes(l)
  <2> DEFINE one == <<e>>
             tail == SubSeq(l, i, n1)
  <2>1. one \in Seq(Places) /\ Bytes(one) = Length[e]
    BY BytesOfOne
  <2>2. tail \in Seq(Places) /\ Len(tail) = n1 - (i - 1) /\ l = a \o tail
        /\ \A j \in 1..(n1 - (i - 1)) : tail[j] = l[(i - 1) + j]
    <3> DEFINE i1 == i - 1
    <3>1. i1 \in 0..Len(l) /\ i1 + 1 = i
      BY <1>4, <1>12
    <3> HIDE DEF i1
    <3>2. /\ SubSeq(l, i1 + 1, Len(l)) \in Seq(Places) /\ Len(SubSeq(l, i1 + 1, Len(l))) = Len(l) - i1
          /\ \A j \in 1..(Len(l) - i1) : SubSeq(l, i1 + 1, Len(l))[j] = l[i1 + j]
          /\ l = SubSeq(l, 1, i1) \o SubSeq(l, i1 + 1, Len(l))
      BY <1>1, <3>1, CutInTwo
    <3> QED
      BY <1>12, <3>1, <3>2 DEF a, i1
  <2> HIDE DEF one, tail
  <2>3. tail = one \o b
    <3> DEFINE c == one \o b
    <3>1. /\ c \in Seq(Places) /\ Len(c) = Len(b) + 1
          /\ \A j \in 1..(Len(b) + 1) : c[j] = IF j = 1 THEN e ELSE b[j - 1]
      BY <1>6, InFront DEF one
    <3>2. Len(b) + 1 = n1 - (i - 1)
      BY <1>4, <1>6
    <3> HIDE DEF c
    <3>3. ASSUME NEW j \in 1..Len(tail) PROVE tail[j] = c[j]
      <4>1. j \in 1..(n1 - (i - 1)) /\ j \in 1..(Len(b) + 1)
        BY <2>2, <3>2
      <4>2. CASE j = 1
        <5>1. (i - 1) + j = i
          BY <1>4, <4>2
        <5> QED
          BY <1>2, <2>2, <3>1, <4>1, <4>2, <5>1
      <4>3. CASE j # 1
        <5>1. j - 1 \in 1..(n1 - i) /\ i + (j - 1) = (i - 1) + j
          BY <1>4, <4>1, <4>3
        <5> QED
          <6>1. tail[j] = l[(i - 1) + j]
            BY <2>2, <4>1
          <6>2. c[j] = b[j - 1]
            BY <3>1, <4>1, <4>3
          <6>3. b[j - 1] = l[i + (j - 1)]
            BY <1>6, <5>1
          <6> QED
            BY <5>1, <6>1, <6>2, <6>3
      <4> QED
        BY <4>2, <4>3
    <3>4. Len(tail) = Len(c)
      BY <2>2, <3>1, <3>2
    <3>5. tail = c
      BY <2>2, <3>1, <3>3, <3>4, SeqEqual
    <3> QED
      BY <3>5 DEF c
  <2>4. Bytes(l) = Bytes(a) + Bytes(tail)
    BY <1>5, <2>2, BytesOfBoth
  <2>5. Bytes(tail) = Bytes(one) + Bytes(b)
    BY <1>6, <2>1, <2>3, BytesOfBoth
  <2>6. Bytes(x) = Bytes(one) + Bytes(ab)
    BY <1>7, <2>1, BytesOfBoth DEF x, one
  <2>7. Bytes(ab) = Bytes(a) + Bytes(b)
    BY <1>5, <1>6, BytesOfBoth DEF ab
  <2>8. Bytes(a) \in Nat /\ Bytes(b) \in Nat /\ Bytes(one) \in Nat
    BY <1>5, <1>6, <2>1, BytesNat
  <2> QED
    BY <2>4, <2>5, <2>6, <2>7, <2>8
<1>16. Has(x, e) /\ \A y \in Places : Has(x, y) <=> y \in known /\ Shard[y] = h
  BY <1>1, <1>14
<1> QED
  BY <1>1, <1>3, <1>8, <1>13, <1>15, <1>16 DEF Shelf

\* What is kept of a list is inside the limit.
LEMMA KeepInside ==
  ASSUME NEW l \in Seq(Places), NEW n, n = Bytes(l)
  PROVE  /\ Keep(l, n) \in 0..Len(l)
         /\ n - Bytes(SubSeq(l, Keep(l, n) + 1, Len(l))) <= ShardLimit
<1> DEFINE Held(j) == n - Bytes(SubSeq(l, j + 1, Len(l)))
           Is(k) == /\ k = 0 \/ Held(k) <= ShardLimit
                    /\ \A j \in (k + 1)..Len(l) : Held(j) > ShardLimit
<1>1. Keep(l, n) = CHOOSE k \in 0..Len(l) : Is(k)
  BY DEF Keep
<1>2. Len(l) \in Nat /\ ShardLimit \in Nat
  BY PackReadAssumption
<1>3. Held(0) <= ShardLimit
  <2>1. l = SubSeq(l, 1, Len(l)) /\ 0 + 1 = 1
    BY <1>2, SeqEqual
  <2>2. Held(0) = n - Bytes(l)
    BY <2>1
  <2>3. n \in Nat /\ n - Bytes(l) = 0
    BY BytesNat
  <2> QED
    BY <1>2, <2>2, <2>3
<1>4. \A j \in 0..Len(l) : Held(j) \in Int
  <2> SUFFICES ASSUME NEW j \in 0..Len(l) PROVE Held(j) \in Int
    OBVIOUS
  <2>1. SubSeq(l, j + 1, Len(l)) \in Seq(Places)
    BY CutInTwo
  <2>2. Bytes(SubSeq(l, j + 1, Len(l))) \in Nat /\ Bytes(l) \in Nat
    BY <2>1, BytesNat
  <2> QED
    BY <2>2
<1> HIDE DEF Held
<1>5. \E k \in 0..Len(l) : Is(k)
  <2> DEFINE T == {d \in Nat : d <= Len(l) /\ Held(Len(l) - d) <= ShardLimit}
  <2>1. Len(l) \in T
    BY <1>2, <1>3
  <2>2. PICK d \in T : \A x \in T : d <= x
    BY <2>1, Smallest
  <2>3. d \in Nat /\ d <= Len(l) /\ Held(Len(l) - d) <= ShardLimit /\ Len(l) - d \in 0..Len(l)
    BY <1>2, <2>2
  <2>4. ASSUME NEW j \in ((Len(l) - d) + 1)..Len(l) PROVE Held(j) > ShardLimit
    <3>1. Len(l) - j \in Nat /\ Len(l) - j < d /\ Len(l) - (Len(l) - j) = j /\ j \in 0..Len(l)
      BY <1>2, <2>3
    <3>2. Len(l) - j \notin T
      BY <2>2, <2>3, <3>1
    <3>3. ~(Held(j) <= ShardLimit)
      BY <1>2, <2>3, <3>1, <3>2
    <3> QED
      BY <1>2, <1>4, <3>1, <3>3
  <2>5. Is(Len(l) - d)
    BY <2>3, <2>4
  <2> QED
    BY <2>3, <2>5
<1> HIDE DEF Keep
<1>6. Keep(l, n) \in 0..Len(l) /\ Is(Keep(l, n))
  <2> HIDE DEF Is
  <2> QED
    BY <1>1, <1>5
<1>7. Held(Keep(l, n)) <= ShardLimit
  BY <1>3, <1>6
<1> QED
  BY <1>6, <1>7 DEF Held

OfShard(h) == {y \in Places : Shard[y] = h}

\* A place that is put in front of its list, which is cut after its first k.
LEMMA CutShelf ==
  ASSUME NEW l, NEW n, NEW known, NEW h, Shelf(l, n, known, h),
         NEW e \in Places, e \notin known, Shard[e] = h,
         NEW k \in 0..Len(<<e>> \o l),
         (n + Length[e]) - Bytes(SubSeq(<<e>> \o l, k + 1, Len(<<e>> \o l))) <= ShardLimit
  PROVE  LET pushed == <<e>> \o l
             dropped == SubSeq(pushed, k + 1, Len(pushed))
         IN  /\ Shelf(SubSeq(pushed, 1, k), n + Length[e] - Bytes(dropped),
                      (known \cup {e}) \ ToSet(dropped), h)
             /\ ToSet(dropped) \subseteq OfShard(h)
<1> DEFINE pushed == <<e>> \o l
           dropped == SubSeq(pushed, k + 1, Len(pushed))
           one == <<e>>
           kept == SubSeq(pushed, 1, k)
           np == Len(l) + 1
<1>1. /\ l \in Seq(Places) /\ Len(l) \in Nat /\ Distinct(l)
      /\ \A y \in Places : Has(l, y) <=> y \in known /\ Shard[y] = h
      /\ n = Bytes(l) /\ n <= ShardLimit
  BY DEF Shelf
<1>2. one \in Seq(Places) /\ Bytes(one) = Length[e]
  BY BytesOfOne
<1> HIDE DEF Places
<1>3. /\ pushed \in Seq(Places) /\ Len(pushed) = np
      /\ \A j \in 1..np : pushed[j] = IF j = 1 THEN e ELSE l[j - 1]
  BY <1>1, InFront
<1>4. pushed = one \o l
  OBVIOUS
<1> HIDE DEF one
<1>5. Bytes(pushed) = n + Length[e] /\ n \in Nat /\ Length[e] \in Nat
  <2>1. Bytes(pushed) = Bytes(one) + Bytes(l)
    BY <1>1, <1>2, <1>4, BytesOfBoth
  <2>2. Bytes(l) \in Nat /\ Bytes(one) \in Nat
    BY <1>1, <1>2, BytesNat
  <2> QED
    BY <1>1, <1>2, <2>1, <2>2
<1>6. k \in 0..np /\ (n + Length[e]) - Bytes(dropped) <= ShardLimit
  <2>1. (n + Length[e]) - Bytes(dropped) <= ShardLimit
    OBVIOUS
  <2>2. k \in 0..Len(pushed)
    OBVIOUS
  <2> HIDE DEF pushed, dropped, np
  <2> QED
    BY <1>3, <2>1, <2>2
<1> HIDE DEF pushed
<1>7. np \in Nat /\ k \in Nat /\ k <= np /\ np - 1 = Len(l) /\ Len(l) \in Nat
  <2>1. Len(l) \in Nat
    BY <1>1
  <2> QED
    BY <1>6, <2>1
<1>8. /\ kept \in Seq(Places) /\ Len(kept) = k /\ \A j \in 1..k : kept[j] = pushed[j]
      /\ dropped \in Seq(Places) /\ Len(dropped) = np - k
      /\ \A j \in 1..(np - k) : dropped[j] = pushed[k + j]
      /\ pushed = kept \o dropped
  <2>1. /\ kept \in Seq(Places) /\ Len(kept) = k /\ \A j \in 1..k : kept[j] = pushed[j]
        /\ dropped \in Seq(Places) /\ Len(dropped) = Len(pushed) - k
        /\ \A j \in 1..(Len(pushed) - k) : dropped[j] = pushed[k + j]
        /\ pushed = kept \o dropped
    <3>1. k \in 0..Len(pushed)
      BY <1>3, <1>6
    <3> HIDE DEF np
    <3>2. kept \in Seq(Places) /\ Len(kept) = k /\ \A j \in 1..k : kept[j] = pushed[j]
      BY <1>3, <3>1, CutInTwo
    <3>3. /\ dropped \in Seq(Places) /\ Len(dropped) = Len(pushed) - k
          /\ \A j \in 1..(Len(pushed) - k) : dropped[j] = pushed[k + j]
      BY <1>3, <3>1, CutInTwo
    <3>4. pushed = kept \o dropped
      BY <1>3, <3>1, CutInTwo, ZenonT(60)
    <3> QED
      BY <3>2, <3>3, <3>4
  <2> HIDE DEF kept, dropped, np
  <2> QED
    BY <1>3, <2>1
<1> HIDE DEF kept, dropped, np
<1>9. Bytes(kept) = n + Length[e] - Bytes(dropped)
  <2>1. Bytes(pushed) = Bytes(kept) + Bytes(dropped)
    BY <1>8, BytesOfBoth
  <2>2. Bytes(kept) \in Nat /\ Bytes(dropped) \in Nat
    BY <1>8, BytesNat
  <2> QED
    BY <1>5, <2>1, <2>2, SMTT(20)
<1>10. (n + Length[e]) - Bytes(dropped) = n + Length[e] - Bytes(dropped)
  BY <1>5, <1>8, BytesNat
<1>11. \A j \in 1..np : j # 1 => j - 1 \in 1..Len(l)
  BY <1>7
<1>12. ASSUME NEW i \in 1..np, NEW j \in 1..np, pushed[i] = pushed[j]
       PROVE  i = j
  <2>1. ~Has(l, e)
    BY <1>1
  <2>2. CASE i = 1 \/ j = 1
    BY <1>3, <1>11, <1>12, <2>1, <2>2 DEF Has
  <2>3. CASE i # 1 /\ j # 1
    <3>1. i - 1 \in 1..Len(l) /\ j - 1 \in 1..Len(l)
      BY <1>11, <2>3
    <3>2. l[i - 1] = l[j - 1]
      BY <1>3, <1>12, <2>3
    <3>3. i - 1 = j - 1
      BY <1>1, <3>1, <3>2 DEF Distinct
    <3> QED
      BY <1>7, <3>3
  <2> QED
    BY <2>2, <2>3
<1>13. Distinct(kept)
  <2>1. \A i \in 1..k : i \in 1..np /\ kept[i] = pushed[i]
    BY <1>7, <1>8
  <2> QED
    BY <1>8, <1>12, <2>1 DEF Distinct
<1>14. ASSUME NEW y \in Places
       PROVE  Has(pushed, y) <=> y \in known \cup {e} /\ Shard[y] = h
  <2>1. \A j \in 1..Len(l) : j + 1 \in 1..np /\ j + 1 # 1 /\ (j + 1) - 1 = j
    BY <1>7
  <2>2. 1 \in 1..np
    BY <1>7
  <2>3. Has(pushed, y) <=> y = e \/ Has(l, y)
    <3>1. ASSUME NEW j \in 1..np, pushed[j] = y PROVE y = e \/ Has(l, y)
      BY <1>3, <1>11, <3>1 DEF Has
    <3>2. ASSUME NEW j \in 1..Len(l), l[j] = y PROVE Has(pushed, y)
      BY <1>3, <2>1, <3>2 DEF Has
    <3>3. y = e => Has(pushed, y)
      BY <1>3, <2>2 DEF Has
    <3> QED
      BY <1>3, <3>1, <3>2, <3>3 DEF Has
  <2> QED
    BY <1>1, <2>3
<1>15. DOMAIN dropped = 1..(np - k)
  BY <1>8
<1>16. ASSUME NEW y
       PROVE  /\ y \in ToSet(dropped) => Has(pushed, y) /\ y \in Places
              /\ Has(kept, y) <=> Has(pushed, y) /\ y \notin ToSet(dropped)
  <2>1. \A j \in 1..(np - k) : k + j \in 1..np /\ k + j > k
    BY <1>7
  <2>2. \A j \in 1..k : j \in 1..np /\ \A i \in 1..(np - k) : j # k + i
    BY <1>7
  <2>3. \A j \in 1..np : j \in 1..k \/ (j - k \in 1..(np - k) /\ k + (j - k) = j)
    BY <1>7
  <2>4. y \in ToSet(dropped) <=> \E j \in 1..(np - k) : dropped[j] = y
    BY <1>15 DEF ToSet
  <2>5. y \in ToSet(dropped) => Has(pushed, y) /\ y \in Places
    <3> SUFFICES ASSUME NEW j \in 1..(np - k), dropped[j] = y
                 PROVE  Has(pushed, y) /\ y \in Places
      BY <2>4
    <3>1. k + j \in 1..np /\ pushed[k + j] = y
      BY <1>8, <2>1
    <3>2. \A x \in 1..np : pushed[x] \in Places
      BY <1>3
    <3> QED
      BY <1>3, <3>1, <3>2 DEF Has
  <2>6. ASSUME Has(kept, y) PROVE Has(pushed, y) /\ y \notin ToSet(dropped)
    <3>1. PICK j \in 1..k : kept[j] = y
      BY <1>8, <2>6 DEF Has
    <3>2. j \in 1..np /\ pushed[j] = y
      BY <1>8, <2>2, <3>1
    <3>3. ASSUME NEW i \in 1..(np - k), dropped[i] = y PROVE FALSE
      <4>1. k + i \in 1..np /\ pushed[k + i] = y
        BY <1>8, <2>1, <3>3
      <4>2. j = k + i
        BY <1>12, <3>2, <4>1
      <4> QED
        BY <2>2, <4>2
    <3> QED
      BY <1>3, <2>4, <3>2, <3>3 DEF Has
  <2>7. ASSUME Has(pushed, y), y \notin ToSet(dropped) PROVE Has(kept, y)
    <3>1. PICK j \in 1..np : pushed[j] = y
      BY <1>3, <2>7 DEF Has
    <3>2. CASE j \in 1..k
      BY <1>8, <3>1, <3>2 DEF Has
    <3>3. CASE j - k \in 1..(np - k) /\ k + (j - k) = j
      BY <1>8, <2>4, <2>7, <3>1, <3>3
    <3> QED
      BY <2>3, <3>2, <3>3
  <2> QED
    BY <2>5, <2>6, <2>7
<1>17. \A y \in Places : Has(kept, y) <=> y \in (known \cup {e}) \ ToSet(dropped) /\ Shard[y] = h
  BY <1>14, <1>16
<1>18. Bytes(kept) <= ShardLimit
  BY <1>6, <1>9, <1>10
<1>19. Shelf(kept, n + Length[e] - Bytes(dropped), (known \cup {e}) \ ToSet(dropped), h)
  BY <1>8, <1>9, <1>13, <1>17, <1>18 DEF Shelf
<1>20. ToSet(dropped) \subseteq OfShard(h)
  BY <1>14, <1>16 DEF OfShard
<1> QED
  BY <1>19, <1>20 DEF kept, dropped, pushed

CacheRight ==
  /\ lru \in [Shards -> Seq(Places)] /\ size \in [Shards -> Int]
  /\ \A h \in Shards : Shelf(lru[h], size[h], DOMAIN m, h)

\* A hit leaves every shard as it should be.
LEMMA TouchKeeps ==
  ASSUME CacheRight, NEW e \in Places, e \in DOMAIN m, Touch(e)
  PROVE  CacheRight'
<1> DEFINE g == Shard[e]
           l == MoveToFront(lru[g], e)
<1>1. g \in Shards
  BY PackReadAssumption
<1>2. Shelf(lru[g], size[g], DOMAIN m, g) /\ Has(lru[g], e)
  BY <1>1 DEF CacheRight, Shelf
<1>3. Shelf(l, size[g], DOMAIN m, g)
  BY <1>2, MovedShelf
<1>4. lru' = [lru EXCEPT ![g] = l] /\ size' = size /\ m' = m
  BY DEF Touch
<1> HIDE DEF g, l
<1>5. l \in Seq(Places)
  BY <1>3 DEF Shelf
<1>6. lru' \in [Shards -> Seq(Places)] /\ lru'[g] = l /\ \A h \in Shards \ {g} : lru'[h] = lru[h]
  BY <1>1, <1>4, <1>5 DEF CacheRight
<1>7. ASSUME NEW h \in Shards PROVE Shelf(lru'[h], size'[h], DOMAIN m', h)
  BY <1>3, <1>4, <1>6 DEF CacheRight
<1> QED
  BY <1>4, <1>6, <1>7 DEF CacheRight

\* So does a content that is put.
LEMMA PutKeeps ==
  ASSUME CacheRight, NEW e \in Places, NEW c, Put(e, c)
  PROVE  CacheRight'
<1> DEFINE g == Shard[e]
           pushed == <<e>> \o lru[g]
           k == Keep(pushed, size[g] + Length[e])
           dropped == SubSeq(pushed, k + 1, Len(pushed))
           known == (DOMAIN m \cup {e}) \ ToSet(dropped)
           n == size[g] + Length[e] - Bytes(dropped)
           l == SubSeq(pushed, 1, k)
<1>1. CASE Length[e] > ShardLimit
  BY <1>1 DEF Put, cache, CacheRight
<1>2. CASE ~(Length[e] > ShardLimit) /\ e \in DOMAIN m
  BY <1>2, TouchKeeps DEF Put
<1>3. CASE ~(Length[e] > ShardLimit) /\ e \notin DOMAIN m
  <2>1. g \in Shards
    BY PackReadAssumption
  <2>2. Shelf(lru[g], size[g], DOMAIN m, g)
    BY <2>1 DEF CacheRight
  <2>3. lru[g] \in Seq(Places) /\ size[g] = Bytes(lru[g])
    BY <2>2 DEF Shelf
  <2>4. pushed \in Seq(Places)
    BY <2>3, InFront
  <2>5. size[g] + Length[e] = Bytes(pushed)
    <3>1. <<e>> \in Seq(Places) /\ Bytes(<<e>>) = Length[e]
      BY BytesOfOne
    <3>2. Bytes(pushed) = Bytes(<<e>>) + Bytes(lru[g])
      BY <2>3, <3>1, BytesOfBoth
    <3>3. Bytes(<<e>>) \in Nat /\ Bytes(lru[g]) \in Nat
      BY <2>3, <3>1, BytesNat
    <3> QED
      BY <2>3, <3>1, <3>2, <3>3
  <2>6. k \in 0..Len(pushed) /\ (size[g] + Length[e]) - Bytes(dropped) <= ShardLimit
    <3> DEFINE total == size[g] + Length[e]
    <3>1. total = Bytes(pushed)
      BY <2>5
    <3> HIDE DEF pushed, total, Keep
    <3>2. /\ Keep(pushed, total) \in 0..Len(pushed)
          /\ total - Bytes(SubSeq(pushed, Keep(pushed, total) + 1, Len(pushed))) <= ShardLimit
      BY <2>4, <3>1, KeepInside
    <3> QED
      BY <3>2 DEF total
  <2>7. /\ m' = [x \in known |-> IF x = e THEN c ELSE m[x]]
        /\ lru' = [lru EXCEPT ![g] = l]
        /\ size' = [size EXCEPT ![g] = n]
    BY <1>3 DEF Put
  <2> HIDE DEF k
  <2>8. Shelf(l, n, known, g) /\ \A y \in ToSet(dropped) : y \in Places /\ Shard[y] = g
    <3>1. Shard[e] = g /\ e \notin DOMAIN m
      BY <1>3
    <3> HIDE DEF g
    <3>2. Shelf(l, n, known, g)
      BY <2>2, <2>6, <3>1, CutShelf
    <3>3. ToSet(dropped) \subseteq OfShard(g)
      BY <2>2, <2>6, <3>1, CutShelf
    <3> QED
      BY <3>2, <3>3 DEF OfShard
  <2>9. e \in Places /\ Shard[e] = g
    OBVIOUS
  <2> HIDE DEF g, pushed, dropped, n, l
  <2>10. \A y \in Places : Shard[y] # g => (y \in known <=> y \in DOMAIN m)
    BY <2>8, <2>9
  <2> HIDE DEF known
  <2>11. DOMAIN m' = known
    BY <2>7
  <2>12. l \in Seq(Places) /\ n \in Int
    <3>1. l \in Seq(Places) /\ n = Bytes(l)
      BY <2>8 DEF Shelf
    <3> QED
      BY <3>1, BytesNat
  <2>13. /\ lru' \in [Shards -> Seq(Places)] /\ size' \in [Shards -> Int]
         /\ lru'[g] = l /\ size'[g] = n
         /\ \A h \in Shards \ {g} : lru'[h] = lru[h] /\ size'[h] = size[h]
    BY <2>1, <2>7, <2>12 DEF CacheRight
  <2>14. ASSUME NEW h \in Shards PROVE Shelf(lru'[h], size'[h], DOMAIN m', h)
    <3>1. CASE h = g
      BY <2>8, <2>11, <2>13, <3>1
    <3>2. CASE h # g
      <4>1. Shelf(lru[h], size[h], DOMAIN m, h)
        BY DEF CacheRight
      <4>2. Shelf(lru[h], size[h], known, h)
        BY <2>10, <3>2, <4>1 DEF Shelf
      <4> QED
        BY <2>11, <2>13, <3>2, <4>2
    <3> QED
      BY <3>1, <3>2
  <2> QED
    BY <2>13, <2>14 DEF CacheRight
<1> QED
  BY <1>1, <1>2, <1>3

LEMMA CacheSame ==
  ASSUME CacheRight, UNCHANGED cache
  PROVE  CacheRight'
BY DEF CacheRight, cache

LEMMA StepCacheRight ==
  ASSUME IInv, CacheRight, [Next]_vars
  PROVE  CacheRight'
<1>1. CASE UNCHANGED vars
  BY <1>1, CacheSame DEF vars, cache
<1>2. ASSUME NEW r \in Readers, NEW o \in Objects, Read(r, o) PROVE CacheRight'
  BY <1>2, CacheSame DEF Read, cache
<1>3. ASSUME NEW r \in Readers, ReadWhole(r) \/ BaseMissed(r) \/ BaseElsewhere(r) PROVE CacheRight'
  BY <1>3, CacheSame DEF ReadWhole, BaseMissed, BaseElsewhere, cache
<1>4. ASSUME NEW r \in Readers, BaseCached(r) PROVE CacheRight'
  <2>1. PICK b \in DOMAIN m : Touch(b)
    BY <1>4 DEF BaseCached
  <2>2. b \in Places
    BY DEF IInv, CacheTrue
  <2> QED
    BY <2>1, <2>2, TouchKeeps
<1>5. ASSUME NEW r \in Readers, Return(r) PROVE CacheRight'
  <2> DEFINE f == Top(r)
             v == ret[r]
  <2>1. /\ stack[r] # << >> /\ v # NoResult
        /\ IF v # Failed /\ f.name = NoObject THEN Put(f.at, v) ELSE UNCHANGED cache
    BY <1>5 DEF Return
  <2>2. Yields(store, v, f)
    BY <2>1 DEF IInv, CallsRight, Top
  <2> HIDE DEF f, v
  <2>3. CASE v # Failed /\ f.name = NoObject
    <3>1. f.at \in Places
      BY <2>2, <2>3, ContentStarts DEF Yields
    <3> QED
      BY <2>1, <2>3, <3>1, PutKeeps
  <2>4. CASE ~(v # Failed /\ f.name = NoObject)
    BY <2>1, <2>4, CacheSame
  <2> QED
    BY <2>3, <2>4
<1> QED
  BY <1>1, <1>2, <1>3, <1>4, <1>5 DEF Next, Step

LEMMA CacheRightInitially == Init => CacheRight
<1> SUFFICES ASSUME Init PROVE CacheRight
  OBVIOUS
<1>1. m = << >> /\ lru = [h \in Shards |-> << >>] /\ size = [h \in Shards |-> 0]
  BY DEF Init
<1>2. << >> \in Seq(Places) /\ Len(<< >>) = 0 /\ DOMAIN << >> = {}
  OBVIOUS
<1>3. ASSUME NEW h \in Shards PROVE Shelf(<< >>, 0, {}, h)
  BY <1>2, BytesOfNone, PackReadAssumption DEF Shelf, Distinct, Has
<1>4. DOMAIN m = {}
  BY <1>1, <1>2
<1>5. lru \in [Shards -> Seq(Places)] /\ size \in [Shards -> Int]
  BY <1>1, <1>2
<1> QED
  BY <1>1, <1>3, <1>4, <1>5 DEF CacheRight

\* What a shelf lists is what is known of its shard, each once.
LEMMA ShelfLists ==
  ASSUME NEW l, NEW n, NEW known, known \subseteq Places, NEW h, Shelf(l, n, known, h)
  PROVE  /\ ToSet(l) = {e \in known : Shard[e] = h}
         /\ Len(l) = Cardinality(ToSet(l))
         /\ n = Bytes(l) /\ n <= ShardLimit
<1>1. /\ l \in Seq(Places) /\ Distinct(l)
      /\ \A e \in Places : Has(l, e) <=> e \in known /\ Shard[e] = h
      /\ n = Bytes(l) /\ n <= ShardLimit
  BY DEF Shelf
<1>2. DOMAIN l = 1..Len(l) /\ Len(l) \in Nat /\ l \in [1..Len(l) -> Places]
  BY <1>1, LenProperties
<1>3. \A e : e \in ToSet(l) <=> Has(l, e)
  BY <1>2 DEF ToSet, Has
<1>4. \A e : Has(l, e) => e \in Places
  BY <1>2 DEF Has
<1>5. ToSet(l) = {e \in known : Shard[e] = h}
  BY <1>1, <1>3, <1>4
<1>6. l \in [1..Len(l) -> ToSet(l)]
  BY <1>2, <1>3 DEF Has
<1>7. l \in Surjection(1..Len(l), ToSet(l))
  BY <1>3, <1>6 DEF Surjection, Has
<1>8. l \in Injection(1..Len(l), ToSet(l))
  BY <1>1, <1>2, <1>6 DEF Injection, IsInjective, Distinct
<1>9. IsFiniteSet(1..Len(l)) /\ Cardinality(1..Len(l)) = Len(l)
  <2>1. 1 \in Int /\ Len(l) \in Int /\ (IF 1 > Len(l) THEN 0 ELSE (Len(l) - 1) + 1) = Len(l)
    BY <1>2
  <2> QED
    BY <2>1, FS_Interval
<1>10. Cardinality(ToSet(l)) = Len(l)
  BY <1>7, <1>8, <1>9, FS_Surjection
<1> QED
  BY <1>1, <1>5, <1>10

\* The map, the list and the size of every shard of the cache agree and are
\* inside the limit and every type is kept, however the workers interleave
\* (deltaShard, get, put).
THEOREM CacheKept == Spec => []Bookkeeping
<1>1. IInv /\ CacheRight /\ [Next]_vars => CacheRight'
  BY StepCacheRight
<1>2. IInv /\ CacheRight => TypeOK /\ CacheAgrees
  <2> SUFFICES ASSUME IInv, CacheRight PROVE TypeOK /\ CacheAgrees
    OBVIOUS
  <2>1. TypeOK
    BY DEF IInv, Types, CacheTrue, CacheRight, TypeOK, IsContent
  <2>2. CacheAgrees
    <3>1. DOMAIN m \subseteq Places
      BY DEF IInv, CacheTrue
    <3> QED
      BY <3>1, ShelfLists DEF CacheRight, CacheAgrees
  <2> QED
    BY <2>1, <2>2
<1> QED
  BY <1>1, <1>2, CacheRightInitially, Invariance, PTL DEF Spec, Bookkeeping
==============================================================================
