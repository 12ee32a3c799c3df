--------------------------- MODULE DeltaWalkProofs ---------------------------
(***************************************************************************)
(* Proofs about DeltaWalk, for any pack, any number of workers, any budget *)
(* and any size of a batch.                                                *)
(***************************************************************************)
EXTENDS DeltaWalk, SequenceTheorems, FiniteSetTheorems, WellFoundedInduction, TLAPS

\* A set of numbers has a smallest one.
LEMMA Smallest ==
  ASSUME NEW T, T \subseteq Nat, T # {}
  PROVE  \E x \in T : \A y \in T : x <= y
<1> DEFINE R == {ss \in Nat \X Nat : ss[1] < ss[2]}
<1>1. IsWellFoundedOn(R, Nat)
  BY NatLessThanWellFounded DEF OpToRel
<1>2. \A x, y \in Nat : y < x => <<y, x>> \in R
  OBVIOUS
<1> HIDE DEF R
<1>3. PICK x \in T : \A y \in T : ~ (<<y, x>> \in R)
  BY <1>1, WFMin
<1>4. ASSUME NEW y \in T PROVE x <= y
  <2>1. x \in Nat /\ y \in Nat /\ ~(y < x)
    BY <1>2, <1>3
  <2> QED
    BY <2>1
<1> QED
  BY <1>4

Steps(n, V, G) == \A k \in 1..n : \A x \in V : G[<<k, x>>] \in V
Stepped(n, V, v, G) == \E f \in [0..n -> V] : f[0] = v /\ \A k \in 1..n : f[k] = G[<<k, f[k - 1]>>]

\* What is computed step by step, each step from the one before, exists.
LEMMA StepByStep ==
  ASSUME NEW n \in Nat, NEW V, NEW v \in V, NEW G, Steps(n, V, G)
  PROVE  Stepped(n, V, v, G)
<1> USE DEF Steps, Stepped
<1> DEFINE Is(f, k) == /\ f \in [0..k -> V] /\ f[0] = v
                       /\ \A j \in 1..k : f[j] = G[<<j, f[j - 1]>>]
           T == {k \in Nat : k <= n /\ ~ \E f : Is(f, k)}
<1>1. Is([k \in 0..0 |-> v], 0)
  OBVIOUS
<1>2. ASSUME NEW k \in Nat \ {0}, k <= n, NEW g, Is(g, k - 1)
      PROVE  \E f : Is(f, k)
  <2> DEFINE f == [d \in 0..k |-> IF d = k THEN G[<<k, g[k - 1]>>] ELSE g[d]]
  <2>1. k \in 1..n /\ k - 1 \in 0..(k - 1) /\ g[k - 1] \in V
    BY <1>2
  <2>2. G[<<k, g[k - 1]>>] \in V
    BY <2>1
  <2>3. f \in [0..k -> V] /\ f[0] = v
    BY <1>2, <2>2
  <2>4. ASSUME NEW j \in 1..k PROVE f[j] = G[<<j, f[j - 1]>>]
    <3>1. f[j - 1] = g[j - 1]
      BY <1>2
    <3>2. CASE j = k
      BY <3>1, <3>2
    <3>3. CASE j # k
      <4>1. j \in 1..(k - 1) /\ f[j] = g[j]
        BY <1>2, <3>3
      <4> QED
        BY <1>2, <3>1, <4>1
    <3> QED
      BY <3>2, <3>3
  <2> QED
    BY <2>3, <2>4
<1> HIDE DEF Is
<1>3. ASSUME T # {} PROVE FALSE
  <2>1. PICK k \in T : \A l \in T : k <= l
    BY <1>3, Smallest
  <2>2. k # 0
    BY <1>1, <2>1
  <2>3. k \in Nat \ {0} /\ k <= n /\ k - 1 \in Nat /\ k - 1 <= n /\ k - 1 \notin T
    BY <2>1, <2>2
  <2>4. PICK g : Is(g, k - 1)
    BY <2>3
  <2>5. \E f : Is(f, k)
    BY <1>2, <2>3, <2>4
  <2> QED
    BY <2>1, <2>5
<1>4. \E f : Is(f, n)
  BY <1>3
<1> QED
  BY <1>4 DEF Is

(***************************************************************************)
(* Sums.                                                                   *)
(***************************************************************************)

\* Total adds up the numbers one after the other.
LEMMA TotalAddsUp ==
  ASSUME NEW n \in Nat, NEW s \in [1..n -> Int]
  PROVE  \E sum \in [0..n -> Int] :
           /\ sum[0] = 0 /\ Total(s) = sum[n]
           /\ \A k \in 1..n : sum[k] = sum[k - 1] + s[k]
<1> DEFINE Is(sum) == sum = [k \in 0..n |-> IF k = 0 THEN 0 ELSE sum[k - 1] + s[k]]
           sum == CHOOSE x : Is(x)
           G == [t \in (1..n) \X Int |-> t[2] + s[t[1]]]
<1>1. Len(s) = n
  BY LenProperties
<1>2. Total(s) = sum[n]
  BY <1>1 DEF Total
<1>3. \E x : Is(x)
  <2>1. \A k \in 1..n : \A x \in Int : G[<<k, x>>] = x + s[k] /\ x + s[k] \in Int
    OBVIOUS
  <2> HIDE DEF G
  <2>2. \A k \in 1..n : \A x \in Int : G[<<k, x>>] \in Int
    BY <2>1
  <2> DEFINE V == Int
             zero == 0
  <2>3. zero \in V /\ Steps(n, V, G)
    BY <2>2 DEF Steps
  <2> HIDE DEF V, zero
  <2>4. Stepped(n, V, zero, G)
    BY <2>3, StepByStep
  <2>5. PICK f \in [0..n -> Int] : f[0] = 0 /\ \A k \in 1..n : f[k] = G[<<k, f[k - 1]>>]
    BY <2>4 DEF V, zero, Stepped
  <2>6. ASSUME NEW k \in 1..n PROVE f[k] = f[k - 1] + s[k]
    <3>1. k - 1 \in 0..n
      OBVIOUS
    <3> QED
      BY <2>1, <2>5, <3>1
  <2>7. ASSUME NEW k \in 0..n PROVE f[k] = IF k = 0 THEN 0 ELSE f[k - 1] + s[k]
    BY <2>5, <2>6
  <2>8. f = [k \in 0..n |-> f[k]]
    OBVIOUS
  <2>9. [k \in 0..n |-> f[k]] = [k \in 0..n |-> IF k = 0 THEN 0 ELSE f[k - 1] + s[k]]
    BY <2>7
  <2>10. Is(f)
    BY <2>8, <2>9
  <2> HIDE DEF Is
  <2> QED
    BY <2>10
<1>4. Is(sum)
  <2> HIDE DEF Is
  <2> QED
    BY <1>3
<1> HIDE DEF sum
<1>5. sum[0] = 0 /\ (\A k \in 1..n : sum[k] = sum[k - 1] + s[k]) /\ DOMAIN sum = 0..n
  BY <1>4
<1>6. sum = [k \in 0..n |-> sum[k]]
  BY <1>4
<1> DEFINE T == {k \in Nat : k <= n /\ sum[k] \notin Int}
<1>7. ASSUME T # {} PROVE FALSE
  <2>1. PICK k \in T : \A x \in T : k <= x
    BY <1>7, Smallest
  <2>2. k \in 1..n
    BY <1>5, <2>1
  <2>3. k - 1 \in Nat /\ k - 1 <= n /\ k - 1 \notin T
    BY <2>1, <2>2
  <2>4. sum[k - 1] \in Int /\ s[k] \in Int
    BY <2>2, <2>3
  <2>5. sum[k] \in Int
    BY <1>5, <2>2, <2>4
  <2> QED
    BY <2>1, <2>5
<1>8. \A k \in 0..n : sum[k] \in Int
  BY <1>7
<1>9. sum \in [0..n -> Int]
  BY <1>6, <1>8
<1> QED
  BY <1>2, <1>5, <1>9

LEMMA TotalInt ==
  ASSUME NEW n \in Nat, NEW s \in [1..n -> Int]
  PROVE  Total(s) \in Int
BY TotalAddsUp

LEMMA TotalOfNone ==
  ASSUME NEW s \in [1..0 -> Int]
  PROVE  Total(s) = 0
BY TotalAddsUp

LEMMA SameDifference ==
  ASSUME NEW a \in Int, NEW b \in Int, NEW c \in Int, NEW d \in Int, NEW x \in Int,
         a = b + x, c = d + x
  PROVE  a - c = b - d
OBVIOUS

LEMMA SameSum ==
  ASSUME NEW a \in Int, NEW b \in Int, NEW x \in Int, NEW y \in Int, NEW s \in Int, NEW t \in Int,
         NEW c \in Int, a + x = b + y, b + s = c, t - s = x - y
  PROVE  a + t = c
OBVIOUS

\* Two sequences that agree but for one number differ by that.
LEMMA TotalChange ==
  ASSUME NEW n \in Nat, NEW s \in [1..n -> Int], NEW t \in [1..n -> Int], NEW i \in 1..n,
         \A k \in (1..n) \ {i} : t[k] = s[k]
  PROVE  Total(t) - Total(s) = t[i] - s[i]
<1>1. PICK a \in [0..n -> Int] : /\ a[0] = 0 /\ Total(s) = a[n]
                                 /\ \A k \in 1..n : a[k] = a[k - 1] + s[k]
  BY TotalAddsUp
<1>2. PICK b \in [0..n -> Int] : /\ b[0] = 0 /\ Total(t) = b[n]
                                 /\ \A k \in 1..n : b[k] = b[k - 1] + t[k]
  BY TotalAddsUp
<1> DEFINE D(k) == b[k] - a[k] = IF k < i THEN 0 ELSE t[i] - s[i]
           T == {k \in Nat : k <= n /\ ~D(k)}
<1>3. ASSUME T # {} PROVE FALSE
  <2>1. PICK k \in T : \A x \in T : k <= x
    BY <1>3, Smallest
  <2>2. k # 0
    BY <1>1, <1>2, <2>1
  <2>3. k \in 1..n /\ k - 1 \in Nat /\ k - 1 <= n /\ k - 1 \notin T /\ k - 1 \in 0..n /\ k \in 0..n
    BY <2>1, <2>2
  <2>4. D(k - 1)
    BY <2>3
  <2>5. b[k] = b[k - 1] + t[k] /\ a[k] = a[k - 1] + s[k]
    BY <1>1, <1>2, <2>3
  <2>6. /\ b[k] \in Int /\ b[k - 1] \in Int /\ a[k] \in Int /\ a[k - 1] \in Int
        /\ t[k] \in Int /\ s[k] \in Int /\ t[i] \in Int /\ s[i] \in Int
    BY <2>3
  <2>7. D(k)
    <3>1. CASE k = i
      <4>1. b[k - 1] = a[k - 1]
        BY <2>3, <2>4, <2>6, <3>1, SMTT(20)
      <4> QED
        BY <2>5, <2>6, <3>1, <4>1, SMTT(20)
    <3>2. CASE k # i
      <4>1. t[k] = s[k]
        BY <2>3, <3>2
      <4>2. b[k] - a[k] = b[k - 1] - a[k - 1]
        <5> DEFINE b0 == b[k - 1]
                   b1 == b[k]
                   a0 == a[k - 1]
                   a1 == a[k]
                   x == t[k]
        <5>1. /\ b0 \in Int /\ b1 \in Int /\ a0 \in Int /\ a1 \in Int /\ x \in Int
              /\ b1 = b0 + x /\ a1 = a0 + x
          BY <2>5, <2>6, <4>1
        <5> HIDE DEF b0, b1, a0, a1, x
        <5>2. b1 - a1 = b0 - a0
          BY <5>1, SameDifference
        <5> QED
          BY <5>2 DEF b0, b1, a0, a1
      <4>3. (k < i) <=> (k - 1 < i)
        BY <2>3, <3>2, SMTT(20)
      <4> QED
        BY <2>4, <4>2, <4>3
    <3> QED
      BY <3>1, <3>2
  <2> QED
    BY <2>1, <2>7
<1>4. D(n)
  <2> HIDE DEF D, T
  <2>1. n \in Nat /\ n <= n /\ n \notin T
    BY <1>3
  <2> QED
    BY <2>1 DEF T
<1>5. ~(n < i) /\ n \in 0..n
  OBVIOUS
<1> QED
  BY <1>1, <1>2, <1>4, <1>5

\* One number more.
LEMMA TotalMore ==
  ASSUME NEW n \in Nat, NEW s \in [1..(n + 1) -> Int], NEW t \in [1..n -> Int],
         \A k \in 1..n : t[k] = s[k]
  PROVE  Total(s) = Total(t) + s[n + 1]
<1>0. n + 1 \in Nat
  OBVIOUS
<1>1. PICK a \in [0..(n + 1) -> Int] : /\ a[0] = 0 /\ Total(s) = a[n + 1]
                                       /\ \A k \in 1..(n + 1) : a[k] = a[k - 1] + s[k]
  BY <1>0, TotalAddsUp
<1>2. PICK b \in [0..n -> Int] : /\ b[0] = 0 /\ Total(t) = b[n]
                                 /\ \A k \in 1..n : b[k] = b[k - 1] + t[k]
  BY TotalAddsUp
<1> DEFINE T == {k \in Nat : k <= n /\ b[k] # a[k]}
<1>3. ASSUME T # {} PROVE FALSE
  <2>1. PICK k \in T : \A x \in T : k <= x
    BY <1>3, Smallest
  <2>2. k # 0
    BY <1>1, <1>2, <2>1
  <2>3. k \in 1..n /\ k \in 1..(n + 1) /\ k - 1 \in Nat /\ k - 1 <= n /\ k - 1 \notin T
    BY <2>1, <2>2
  <2>4. b[k - 1] = a[k - 1] /\ t[k] = s[k]
    BY <2>3
  <2>5. b[k] = a[k]
    BY <1>1, <1>2, <2>3, <2>4
  <2> QED
    BY <2>1, <2>5
<1>4. b[n] = a[n]
  <2> HIDE DEF T
  <2>1. n \in Nat /\ n <= n /\ n \notin T
    BY <1>3
  <2> QED
    BY <2>1 DEF T
<1>5. a[n + 1] = a[n] + s[n + 1]
  <2>1. n + 1 \in 1..(n + 1) /\ (n + 1) - 1 = n
    OBVIOUS
  <2> QED
    BY <1>1, <2>1
<1> QED
  BY <1>1, <1>2, <1>4, <1>5

(***************************************************************************)
(* The layout: what is said of Parent, Children and Chain is said of a     *)
(* pack p.                                                                 *)
(***************************************************************************)

ParentOf(p, i) == IF p.header[i].kind = "delta" THEN p.header[i].base ELSE 0

ChildrenOf(p, i) ==
  LET upto[n \in 0..N] == IF n = 0 THEN << >>
                          ELSE IF ParentOf(p, n) = i THEN Append(upto[n - 1], n) ELSE upto[n - 1]
  IN  upto[N]

ChainOf(p, i) ==
  LET up[k \in 0..N] == IF k = 0 THEN i
                        ELSE IF up[k - 1] = 0 THEN 0 ELSE ParentOf(p, up[k - 1])
  IN  {up[k] : k \in 0..N}

Up(p, x) == IF x = 0 THEN 0 ELSE ParentOf(p, x)

LEMMA OfPack ==
  /\ \A i : Parent(i) = ParentOf(pack, i)
  /\ \A i : Children(i) = ChildrenOf(pack, i)
  /\ \A i : Chain(i) = ChainOf(pack, i)
BY DEF Parent, ParentOf, Children, ChildrenOf, Chain, ChainOf

LEMMA ParentType ==
  ASSUME NEW p \in Layout, NEW i \in Entries
  PROVE  ParentOf(p, i) \in 0..N
BY DeltaWalkAssumption DEF ParentOf, Layout, Header, Entries

\* s lists the first n entries that stand on i, each once.
Lists(p, i, n, s) ==
  /\ s \in Seq(Entries)
  /\ \A k \in 1..Len(s) : s[k] <= n /\ ParentOf(p, s[k]) = i
  /\ \A j \in Entries : j <= n /\ ParentOf(p, j) = i => \E k \in 1..Len(s) : s[k] = j
  /\ \A k, l \in 1..Len(s) : s[k] = s[l] => k = l

LEMMA ListsMore ==
  ASSUME NEW p \in Layout, NEW i, NEW n \in 1..N, NEW s, Lists(p, i, n - 1, s)
  PROVE  Lists(p, i, n, IF ParentOf(p, n) = i THEN Append(s, n) ELSE s)
<1>1. n \in Entries /\ N \in Nat /\ n \in Nat /\ Entries \subseteq Nat
  BY DeltaWalkAssumption DEF Entries
<1>2. \A j \in Entries : j <= n /\ j # n => j <= n - 1
  BY <1>1
<1>3. \A j \in Entries : j <= n - 1 => j <= n /\ j # n
  BY <1>1
<1>4. CASE ParentOf(p, n) # i
  <2>1. s \in Seq(Entries) /\ Len(s) \in Nat /\ \A k \in 1..Len(s) : s[k] \in Entries
    BY ElementOfSeq DEF Lists
  <2>2. \A k \in 1..Len(s) : s[k] <= n /\ ParentOf(p, s[k]) = i
    BY <1>3, <2>1 DEF Lists
  <2>3. \A j \in Entries : j <= n /\ ParentOf(p, j) = i => j <= n - 1
    BY <1>2, <1>4
  <2>4. \A j \in Entries : j <= n /\ ParentOf(p, j) = i => \E k \in 1..Len(s) : s[k] = j
    BY <2>3 DEF Lists
  <2>5. Lists(p, i, n, s)
    BY <2>1, <2>2, <2>4 DEF Lists
  <2> QED
    BY <1>4, <2>5
<1>5. CASE ParentOf(p, n) = i
  <2> DEFINE t == Append(s, n)
  <2>1. s \in Seq(Entries) /\ Len(s) \in Nat
    BY DEF Lists
  <2>2. /\ t \in Seq(Entries) /\ Len(t) = Len(s) + 1
        /\ \A k \in 1..Len(s) : t[k] = s[k]
        /\ t[Len(s) + 1] = n
    BY <1>1, <2>1, AppendProperties
  <2> HIDE DEF t
  <2>3. \A k \in 1..Len(t) : k \in 1..Len(s) \/ k = Len(s) + 1
    BY <2>1, <2>2
  <2>4. \A k \in 1..Len(s) : k \in 1..Len(t) /\ s[k] \in Entries
    BY <2>1, <2>2, ElementOfSeq
  <2>5. ASSUME NEW k \in 1..Len(t) PROVE t[k] <= n /\ ParentOf(p, t[k]) = i
    <3>1. CASE k = Len(s) + 1
      BY <1>1, <1>5, <2>2, <3>1
    <3>2. CASE k \in 1..Len(s)
      <4>1. t[k] = s[k] /\ s[k] \in Entries /\ s[k] <= n - 1 /\ ParentOf(p, s[k]) = i
        BY <2>2, <2>4, <3>2 DEF Lists
      <4> QED
        BY <1>3, <4>1
    <3> QED
      BY <2>3, <3>1, <3>2
  <2>6. ASSUME NEW j \in Entries, j <= n, ParentOf(p, j) = i PROVE \E k \in 1..Len(t) : t[k] = j
    <3>1. CASE j = n
      <4>1. Len(s) + 1 \in 1..Len(t)
        BY <2>1, <2>2
      <4> QED
        BY <2>2, <3>1, <4>1
    <3>2. CASE j # n
      <4>1. PICK k \in 1..Len(s) : s[k] = j
        BY <1>2, <2>6, <3>2 DEF Lists
      <4> QED
        BY <2>2, <2>4, <4>1
    <3> QED
      BY <3>1, <3>2
  <2>7. ASSUME NEW k \in 1..Len(t), NEW l \in 1..Len(t), t[k] = t[l] PROVE k = l
    <3>1. \A m \in 1..Len(s) : t[m] # n
      BY <1>3, <2>2, <2>4 DEF Lists
    <3>2. CASE k \in 1..Len(s) /\ l \in 1..Len(s)
      BY <2>2, <2>7, <3>2 DEF Lists
    <3> QED
      BY <2>2, <2>3, <2>7, <3>1, <3>2
  <2>8. Lists(p, i, n, t)
    BY <2>2, <2>5, <2>6, <2>7 DEF Lists
  <2> QED
    BY <1>5, <2>8 DEF t
<1> QED
  BY <1>4, <1>5

\* Children lists all that stands on an entry.
LEMMA ChildrenList ==
  ASSUME NEW p \in Layout, NEW i
  PROVE  Lists(p, i, N, ChildrenOf(p, i))
<1> DEFINE Is(f) == f = [n \in 0..N |-> IF n = 0 THEN << >>
                          ELSE IF ParentOf(p, n) = i THEN Append(f[n - 1], n) ELSE f[n - 1]]
           upto == CHOOSE f : Is(f)
           V == Seq(Entries)
           G == [t \in (1..N) \X V |-> IF ParentOf(p, t[1]) = i THEN Append(t[2], t[1]) ELSE t[2]]
           none == << >>
<1>0. N \in Nat
  BY DeltaWalkAssumption
<1>1. ChildrenOf(p, i) = upto[N]
  BY DEF ChildrenOf
<1>2. \E f : Is(f)
  <2>1. ASSUME NEW k \in 1..N, NEW x \in V
        PROVE  /\ G[<<k, x>>] = IF ParentOf(p, k) = i THEN Append(x, k) ELSE x
               /\ (IF ParentOf(p, k) = i THEN Append(x, k) ELSE x) \in V
    <3>1. k \in Entries /\ Append(x, k) \in V
      BY DEF Entries
    <3>2. <<k, x>> \in (1..N) \X V /\ <<k, x>>[1] = k /\ <<k, x>>[2] = x
      OBVIOUS
    <3> HIDE DEF V
    <3> QED
      BY <3>1, <3>2
  <2>2. none \in V
    OBVIOUS
  <2> HIDE DEF G, V, none
  <2>3. Steps(N, V, G)
    BY <2>1 DEF Steps
  <2>4. Stepped(N, V, none, G)
    BY <1>0, <2>2, <2>3, StepByStep
  <2>5. PICK f \in [0..N -> V] : f[0] = none /\ \A k \in 1..N : f[k] = G[<<k, f[k - 1]>>]
    BY <2>4 DEF Stepped
  <2>6. ASSUME NEW k \in 1..N
        PROVE f[k] = IF ParentOf(p, k) = i THEN Append(f[k - 1], k) ELSE f[k - 1]
    <3>1. k - 1 \in 0..N
      BY <1>0
    <3> QED
      BY <2>1, <2>5, <3>1
  <2>7. ASSUME NEW k \in 0..N
        PROVE f[k] = IF k = 0 THEN << >>
                     ELSE IF ParentOf(p, k) = i THEN Append(f[k - 1], k) ELSE f[k - 1]
    <3>1. CASE k = 0
      BY <2>5, <3>1 DEF none
    <3>2. CASE k # 0
      <4>1. k \in 1..N
        BY <1>0, <3>2
      <4> QED
        BY <2>6, <3>2, <4>1
    <3> QED
      BY <3>1, <3>2
  <2>8. f = [k \in 0..N |-> f[k]]
    OBVIOUS
  <2>9. [k \in 0..N |-> f[k]] = [k \in 0..N |-> IF k = 0 THEN << >>
                     ELSE IF ParentOf(p, k) = i THEN Append(f[k - 1], k) ELSE f[k - 1]]
    BY <2>7
  <2>10. Is(f)
    BY <2>8, <2>9
  <2> HIDE DEF Is
  <2> QED
    BY <2>10
<1>3. Is(upto)
  <2> HIDE DEF Is
  <2> QED
    BY <1>2
<1> HIDE DEF upto
<1>4. /\ upto[0] = << >>
      /\ \A k \in 1..N : upto[k] = IF ParentOf(p, k) = i THEN Append(upto[k - 1], k) ELSE upto[k - 1]
  <2>1. 0 \in 0..N /\ \A k \in 1..N : k \in 0..N /\ k # 0
    BY <1>0
  <2>2. \A n \in 0..N : upto[n] = IF n = 0 THEN << >>
                     ELSE IF ParentOf(p, n) = i THEN Append(upto[n - 1], n) ELSE upto[n - 1]
    BY <1>3
  <2>3. upto[0] = << >>
    BY <2>1, <2>2
  <2>4. ASSUME NEW k \in 1..N
        PROVE upto[k] = IF ParentOf(p, k) = i THEN Append(upto[k - 1], k) ELSE upto[k - 1]
    BY <2>1, <2>2
  <2> QED
    BY <2>3, <2>4
<1> DEFINE T == {k \in Nat : k <= N /\ ~ Lists(p, i, k, upto[k])}
<1>5. Lists(p, i, 0, upto[0])
  <2>1. << >> \in Seq(Entries) /\ Len(<< >>) = 0
    OBVIOUS
  <2>2. \A j \in Entries : ~(j <= 0)
    BY <1>0 DEF Entries
  <2> DEFINE e == << >>
  <2> HIDE DEF e
  <2>3. 1..Len(e) = {}
    BY DEF e
  <2>4. Lists(p, i, 0, e)
    BY <2>1, <2>2, <2>3 DEF Lists, e
  <2> QED
    BY <1>4, <2>4 DEF e
<1>6. ASSUME T # {} PROVE FALSE
  <2>1. PICK k \in T : \A l \in T : k <= l
    BY <1>6, Smallest
  <2>2. k # 0
    BY <1>5, <2>1
  <2>3. k \in 1..N /\ k - 1 \in Nat /\ k - 1 <= N /\ k - 1 \notin T
    BY <1>0, <2>1, <2>2
  <2>4. Lists(p, i, k - 1, upto[k - 1])
    BY <2>3
  <2>5. Lists(p, i, k, upto[k])
    BY <1>4, <2>3, <2>4, ListsMore
  <2> QED
    BY <2>1, <2>5
<1>7. Lists(p, i, N, upto[N])
  <2> HIDE DEF T
  <2>1. N \in Nat /\ N <= N /\ N \notin T
    BY <1>0, <1>6
  <2> QED
    BY <2>1 DEF T
<1> QED
  BY <1>1, <1>7

\* What Children is, for the proofs that follow.
LEMMA ChildrenAre ==
  ASSUME NEW p \in Layout, NEW i
  PROVE  /\ ChildrenOf(p, i) \in Seq(Entries) /\ Len(ChildrenOf(p, i)) \in Nat
         /\ \A k \in 1..Len(ChildrenOf(p, i)) :
              ChildrenOf(p, i)[k] \in Entries /\ ParentOf(p, ChildrenOf(p, i)[k]) = i
         /\ \A j \in Entries :
              ParentOf(p, j) = i => \E k \in 1..Len(ChildrenOf(p, i)) : ChildrenOf(p, i)[k] = j
         /\ \A k, l \in 1..Len(ChildrenOf(p, i)) : ChildrenOf(p, i)[k] = ChildrenOf(p, i)[l] => k = l
<1> DEFINE s == ChildrenOf(p, i)
<1>1. Lists(p, i, N, s)
  BY ChildrenList
<1> HIDE DEF s
<1>2. s \in Seq(Entries)
  BY <1>1 DEF Lists
<1>3. Len(s) \in Nat /\ \A k \in 1..Len(s) : s[k] \in Entries
  BY <1>2, LenProperties, ElementOfSeq
<1>4. \A j \in Entries : j <= N
  BY DeltaWalkAssumption DEF Entries
<1> QED
  BY <1>1, <1>2, <1>3, <1>4 DEF Lists, s

(***************************************************************************)
(* Chains.                                                                 *)
(***************************************************************************)

LEMMA UpType ==
  ASSUME NEW p \in Layout, NEW x \in 0..N
  PROVE  Up(p, x) \in 0..N
<1>1. CASE x = 0
  BY <1>1, DeltaWalkAssumption DEF Up
<1>2. CASE x # 0
  <2>1. x \in Entries
    BY <1>2, DeltaWalkAssumption DEF Entries
  <2> QED
    BY <1>2, <2>1, ParentType DEF Up
<1> QED
  BY <1>1, <1>2

\* A chain is walked up one base after the other.
LEMMA ChainWalk ==
  ASSUME NEW p \in Layout, NEW i \in 0..N
  PROVE  \E f \in [0..N -> 0..N] : /\ f[0] = i
                                   /\ \A k \in 1..N : f[k] = Up(p, f[k - 1])
                                   /\ ChainOf(p, i) = {f[k] : k \in 0..N}
<1> DEFINE Is(f) == f = [k \in 0..N |-> IF k = 0 THEN i
                                        ELSE IF f[k - 1] = 0 THEN 0 ELSE ParentOf(p, f[k - 1])]
           up == CHOOSE f : Is(f)
           V == 0..N
           G == [t \in (1..N) \X V |-> IF t[2] = 0 THEN 0 ELSE ParentOf(p, t[2])]
<1>0. N \in Nat
  BY DeltaWalkAssumption
<1>1. ChainOf(p, i) = {up[k] : k \in 0..N}
  BY DEF ChainOf
<1>2. \E f : Is(f) /\ f \in [0..N -> V] /\ f[0] = i /\ \A k \in 1..N : f[k] = Up(p, f[k - 1])
  <2>1. ASSUME NEW k \in 1..N, NEW x \in V
        PROVE  G[<<k, x>>] = Up(p, x) /\ Up(p, x) \in V
    <3>1. Up(p, x) \in V
      BY UpType
    <3>2. <<k, x>> \in (1..N) \X V /\ <<k, x>>[2] = x
      OBVIOUS
    <3> HIDE DEF V
    <3> QED
      BY <3>1, <3>2 DEF Up
  <2>2. i \in V
    OBVIOUS
  <2> HIDE DEF G, V
  <2>3. Steps(N, V, G)
    BY <2>1 DEF Steps
  <2>4. Stepped(N, V, i, G)
    BY <1>0, <2>2, <2>3, StepByStep
  <2>5. PICK f \in [0..N -> V] : f[0] = i /\ \A k \in 1..N : f[k] = G[<<k, f[k - 1]>>]
    BY <2>4 DEF Stepped
  <2>6. ASSUME NEW k \in 1..N PROVE f[k] = Up(p, f[k - 1])
    <3>1. k - 1 \in 0..N
      BY <1>0
    <3> QED
      BY <2>1, <2>5, <3>1
  <2>7. ASSUME NEW k \in 0..N
        PROVE f[k] = IF k = 0 THEN i
                     ELSE IF f[k - 1] = 0 THEN 0 ELSE ParentOf(p, f[k - 1])
    <3>1. CASE k = 0
      BY <2>5, <3>1
    <3>2. CASE k # 0
      <4>1. k \in 1..N
        BY <1>0, <3>2
      <4> QED
        BY <2>6, <3>2, <4>1 DEF Up
    <3> QED
      BY <3>1, <3>2
  <2>8. f = [k \in 0..N |-> f[k]]
    OBVIOUS
  <2>9. [k \in 0..N |-> f[k]] = [k \in 0..N |-> IF k = 0 THEN i
                     ELSE IF f[k - 1] = 0 THEN 0 ELSE ParentOf(p, f[k - 1])]
    BY <2>7
  <2>10. Is(f)
    BY <2>8, <2>9
  <2> HIDE DEF Is
  <2> QED
    BY <2>5, <2>6, <2>10
<1>3. Is(up)
  <2> HIDE DEF Is
  <2> QED
    BY <1>2
<1> HIDE DEF up
<1>4. up[0] = i /\ \A k \in 1..N : up[k] = Up(p, up[k - 1])
  <2>1. 0 \in 0..N /\ \A k \in 1..N : k \in 0..N /\ k # 0
    BY <1>0
  <2>2. \A k \in 0..N : up[k] = IF k = 0 THEN i
                                ELSE IF up[k - 1] = 0 THEN 0 ELSE ParentOf(p, up[k - 1])
    BY <1>3
  <2>3. up[0] = i
    BY <2>1, <2>2
  <2>4. ASSUME NEW k \in 1..N PROVE up[k] = Up(p, up[k - 1])
    BY <2>1, <2>2 DEF Up
  <2> QED
    BY <2>3, <2>4
<1>5. up = [k \in 0..N |-> up[k]]
  BY <1>3
<1> DEFINE T == {k \in Nat : k <= N /\ up[k] \notin 0..N}
<1>6. ASSUME T # {} PROVE FALSE
  <2>1. PICK k \in T : \A x \in T : k <= x
    BY <1>6, Smallest
  <2>2. k # 0
    BY <1>4, <2>1
  <2>3. k \in 1..N /\ k - 1 \in Nat /\ k - 1 <= N /\ k - 1 \notin T
    BY <1>0, <2>1, <2>2
  <2>4. up[k - 1] \in 0..N
    BY <2>3
  <2>5. up[k] \in 0..N
    BY <1>4, <2>3, <2>4, UpType
  <2> QED
    BY <2>1, <2>5
<1>7. \A k \in 0..N : up[k] \in 0..N
  <2> SUFFICES ASSUME NEW k \in 0..N PROVE up[k] \in 0..N
    OBVIOUS
  <2>1. k \in Nat /\ k <= N
    BY <1>0
  <2> HIDE DEF T
  <2>2. k \notin T
    BY <1>6
  <2> QED
    BY <2>1, <2>2 DEF T
<1>8. up \in [0..N -> 0..N]
  BY <1>5, <1>7
<1> QED
  BY <1>1, <1>4, <1>8

\* A chain leads nowhere but to itself: after as many steps as there are
\* entries it has come to 0 or round to where it was.
LEMMA ChainClosed ==
  ASSUME NEW p \in Layout, NEW i \in 0..N
  PROVE  /\ i \in ChainOf(p, i) /\ ChainOf(p, i) \subseteq 0..N
         /\ \A x \in ChainOf(p, i) : Up(p, x) \in ChainOf(p, i)
<1>0. N \in Nat
  BY DeltaWalkAssumption
<1>1. PICK f \in [0..N -> 0..N] : /\ f[0] = i
                                  /\ \A k \in 1..N : f[k] = Up(p, f[k - 1])
                                  /\ ChainOf(p, i) = {f[k] : k \in 0..N}
  BY ChainWalk
<1>2. i \in ChainOf(p, i) /\ ChainOf(p, i) \subseteq 0..N
  BY <1>0, <1>1
<1>3. ASSUME NEW x \in ChainOf(p, i) PROVE Up(p, x) \in ChainOf(p, i)
  <2>1. PICK k \in 0..N : x = f[k]
    BY <1>1
  <2>2. CASE k # N
    <3>1. k + 1 \in 1..N /\ k + 1 \in 0..N /\ (k + 1) - 1 = k
      BY <1>0, <2>2
    <3>2. f[k + 1] = Up(p, x)
      BY <1>1, <2>1, <3>1
    <3> QED
      BY <1>1, <3>1, <3>2
  <2>3. CASE k = N
    <3>0. Up(p, x) \in 0..N
      BY <1>2, UpType
    <3>1. CASE \E a, b \in 0..N : a # b /\ f[a] = f[b]
      <4>1. PICK a \in 0..N, b \in 0..N : a < b /\ f[a] = f[b]
        <5>1. PICK a \in 0..N, b \in 0..N : a # b /\ f[a] = f[b]
          BY <3>1
        <5>2. a < b \/ b < a
          BY <1>0, <5>1
        <5> QED
          BY <5>1, <5>2
      <4> DEFINE Q == {f[l] : l \in 0..(b - 1)}
                 T == {l \in Nat : l <= N /\ f[l] \notin Q}
      <4>2. \A l \in 0..(b - 1) : l \in 0..N
        BY <1>0
      <4>3. f[0] \in Q /\ f[b] \in Q
        <5>1. 0 \in 0..(b - 1) /\ a \in 0..(b - 1)
          BY <1>0, <4>1
        <5> QED
          BY <4>1, <5>1
      <4>4. \A y \in Q : Up(p, y) \in Q
        <5> SUFFICES ASSUME NEW l \in 0..(b - 1) PROVE Up(p, f[l]) \in Q
          OBVIOUS
        <5>1. l + 1 \in 1..N /\ (l + 1) - 1 = l
          BY <1>0, <4>1
        <5>2. f[l + 1] = Up(p, f[l])
          BY <1>1, <5>1
        <5>3. CASE l + 1 = b
          BY <4>3, <5>2, <5>3
        <5>4. CASE l + 1 # b
          <6>1. l + 1 \in 0..(b - 1)
            BY <1>0, <4>1, <5>4
          <6> QED
            BY <5>2, <6>1
        <5> QED
          BY <5>3, <5>4
      <4>5. Q \subseteq ChainOf(p, i)
        BY <1>1, <4>2
      <4> HIDE DEF Q
      <4>6. ASSUME T # {} PROVE FALSE
        <5>1. PICK l \in T : \A y \in T : l <= y
          BY <4>6, Smallest
        <5>2. l # 0
          BY <4>3, <5>1
        <5>3. l \in 1..N /\ l - 1 \in Nat /\ l - 1 <= N /\ l - 1 \notin T
          BY <1>0, <5>1, <5>2
        <5>4. f[l - 1] \in Q
          BY <5>3
        <5>5. f[l] \in Q
          BY <1>1, <4>4, <5>3, <5>4
        <5> QED
          BY <5>1, <5>5
      <4>7. f[k] \in Q
        <5>1. k \in Nat /\ k <= N
          BY <1>0
        <5> HIDE DEF T
        <5>2. k \notin T
          BY <4>6
        <5> QED
          BY <5>1, <5>2 DEF T
      <4> QED
        BY <2>1, <4>4, <4>5, <4>7
    <3>2. CASE ~ \E a, b \in 0..N : a # b /\ f[a] = f[b]
      <4>1. f \in Injection(0..N, 0..N)
        BY <3>2 DEF Injection, IsInjective
      <4>2. IsFiniteSet(0..N)
        BY <1>0, FS_Interval
      <4>3. f \in Surjection(0..N, 0..N)
        BY <4>1, <4>2, FS_Injection
      <4>4. \A y \in 0..N : \E l \in 0..N : f[l] = y
        BY <4>3 DEF Surjection
      <4> QED
        BY <1>1, <3>0, <4>4
    <3> QED
      BY <3>1, <3>2
  <2> QED
    BY <2>2, <2>3
<1> QED
  BY <1>2, <1>3

\* And it is the least set that does so.
LEMMA ChainLeast ==
  ASSUME NEW p \in Layout, NEW i \in 0..N, NEW Q, i \in Q,
         \A x \in Q : x \in 0..N => Up(p, x) \in Q
  PROVE  ChainOf(p, i) \subseteq Q
<1>0. N \in Nat
  BY DeltaWalkAssumption
<1>1. PICK f \in [0..N -> 0..N] : /\ f[0] = i
                                  /\ \A k \in 1..N : f[k] = Up(p, f[k - 1])
                                  /\ ChainOf(p, i) = {f[k] : k \in 0..N}
  BY ChainWalk
<1> DEFINE T == {l \in Nat : l <= N /\ f[l] \notin Q}
<1>2. ASSUME T # {} PROVE FALSE
  <2>1. PICK l \in T : \A y \in T : l <= y
    BY <1>2, Smallest
  <2>2. l # 0
    BY <1>1, <2>1
  <2>3. l \in 1..N /\ l - 1 \in Nat /\ l - 1 <= N /\ l - 1 \notin T /\ l - 1 \in 0..N
    BY <1>0, <2>1, <2>2
  <2>4. f[l - 1] \in Q /\ f[l - 1] \in 0..N
    BY <2>3
  <2>5. f[l] \in Q
    BY <1>1, <2>3, <2>4
  <2> QED
    BY <2>1, <2>5
<1>3. \A k \in 0..N : f[k] \in Q
  <2> SUFFICES ASSUME NEW k \in 0..N PROVE f[k] \in Q
    OBVIOUS
  <2>1. k \in Nat /\ k <= N
    BY <1>0
  <2> HIDE DEF T
  <2>2. k \notin T
    BY <1>2
  <2> QED
    BY <2>1, <2>2 DEF T
<1> QED
  BY <1>1, <1>3

\* The chain of what is on a chain is part of it.
LEMMA ChainWithin ==
  ASSUME NEW p \in Layout, NEW i \in 0..N, NEW j \in ChainOf(p, i)
  PROVE  ChainOf(p, j) \subseteq ChainOf(p, i)
<1>1. j \in 0..N /\ \A x \in ChainOf(p, i) : Up(p, x) \in ChainOf(p, i)
  BY ChainClosed
<1> QED
  BY <1>1, ChainLeast

\* A chain is the entry and the chain of what it stands on.
LEMMA ChainGrows ==
  ASSUME NEW p \in Layout, NEW i \in 0..N
  PROVE  ChainOf(p, i) = {i} \cup ChainOf(p, Up(p, i))
<1> DEFINE u == Up(p, i)
           Q == {i} \cup ChainOf(p, u)
<1>1. u \in 0..N
  BY UpType
<1> HIDE DEF u
<1>2. u \in ChainOf(p, u) /\ \A x \in ChainOf(p, u) : Up(p, x) \in ChainOf(p, u)
  BY <1>1, ChainClosed
<1>3. \A x \in Q : x \in 0..N => Up(p, x) \in Q
  BY <1>2 DEF u
<1>4. ChainOf(p, i) \subseteq Q
  <2> HIDE DEF Q
  <2>1. i \in Q
    BY DEF Q
  <2> QED
    BY <1>3, <2>1, ChainLeast
<1>5. i \in ChainOf(p, i) /\ u \in ChainOf(p, i)
  BY ChainClosed DEF u
<1>6. ChainOf(p, u) \subseteq ChainOf(p, i)
  BY <1>5, ChainWithin
<1> QED
  BY <1>4, <1>5, <1>6 DEF u

LEMMA ChainOfNone ==
  ASSUME NEW p \in Layout
  PROVE  ChainOf(p, 0) = {0}
<1>0. 0 \in 0..N
  BY DeltaWalkAssumption
<1>1. \A x \in {0} : x \in 0..N => Up(p, x) \in {0}
  BY DEF Up
<1>2. ChainOf(p, 0) \subseteq {0}
  <2> DEFINE Q == {0}
  <2>1. 0 \in Q /\ \A x \in Q : x \in 0..N => Up(p, x) \in Q
    BY <1>1
  <2> HIDE DEF Q
  <2>2. ChainOf(p, 0) \subseteq Q
    BY <1>0, <2>1, ChainLeast
  <2> QED
    BY <2>2 DEF Q
<1>3. 0 \in ChainOf(p, 0)
  BY <1>0, ChainClosed
<1> QED
  BY <1>2, <1>3

SubtreeOf(p, i) == {j \in Entries : i \in ChainOf(p, j)}

\* What stands on an entry is the entry and what has its base there.
LEMMA SubtreeStep ==
  ASSUME NEW p \in Layout, NEW i \in Entries, NEW x \in Entries
  PROVE  x \in SubtreeOf(p, i) <=> x = i \/ (ParentOf(p, x) # 0 /\ ParentOf(p, x) \in SubtreeOf(p, i))
<1>1. Entries \subseteq 0..N /\ 0 \notin Entries /\ \A y \in 0..N : y # 0 => y \in Entries
  BY DeltaWalkAssumption DEF Entries
<1>2. Up(p, x) = ParentOf(p, x) /\ ParentOf(p, x) \in 0..N
  BY <1>1, ParentType DEF Up
<1>3. ChainOf(p, x) = {x} \cup ChainOf(p, ParentOf(p, x))
  BY <1>1, <1>2, ChainGrows
<1>4. CASE ParentOf(p, x) = 0
  <2>1. ChainOf(p, ParentOf(p, x)) = {0}
    BY <1>4, ChainOfNone
  <2> QED
    BY <1>1, <1>3, <1>4, <2>1 DEF SubtreeOf
<1>5. CASE ParentOf(p, x) # 0
  BY <1>1, <1>2, <1>3, <1>5 DEF SubtreeOf
<1> QED
  BY <1>4, <1>5

\* Where a set holds the base of all it holds, what stands on an entry
\* outside of it is outside as well.
LEMMA NothingBelow ==
  ASSUME NEW p \in Layout, NEW S, S \subseteq Entries,
         \A x \in S : ParentOf(p, x) # 0 => ParentOf(p, x) \in S,
         NEW i \in Entries \ S
  PROVE  SubtreeOf(p, i) \cap S = {}
<1>1. Entries \subseteq 0..N /\ 0 \notin Entries /\ 0 \in 0..N
  BY DeltaWalkAssumption DEF Entries
<1> DEFINE Q == S \cup {0}
<1>2. \A x \in Q : x \in 0..N => Up(p, x) \in Q
  BY <1>1 DEF Up
<1>3. ASSUME NEW x \in S PROVE x \notin SubtreeOf(p, i)
  <2>1. x \in Q /\ x \in 0..N /\ i \notin Q
    BY <1>1
  <2> HIDE DEF Q
  <2>2. ChainOf(p, x) \subseteq Q
    BY <1>2, <2>1, ChainLeast
  <2> QED
    BY <2>1, <2>2 DEF SubtreeOf
<1> QED
  BY <1>3

\* The entries that lead down to one that is no delta are in any set that
\* holds those and all that stands on what it holds.
LEMMA ForestReached ==
  ASSUME NEW p \in Layout, NEW S,
         \A x \in Entries : (ParentOf(p, x) = 0 \/ ParentOf(p, x) \in S) => x \in S,
         NEW x \in Entries, 0 \in ChainOf(p, x)
  PROVE  x \in S
<1>1. Entries \subseteq 0..N /\ 0 \notin Entries /\ \A y \in 0..N : y # 0 => y \in Entries
  BY DeltaWalkAssumption DEF Entries
<1> DEFINE Q == Entries \ S
<1>2. ASSUME x \notin S PROVE FALSE
  <2>1. x \in Q /\ x \in 0..N /\ 0 \notin Q
    BY <1>1, <1>2
  <2>2. ASSUME NEW y \in Q PROVE Up(p, y) \in Q
    <3>1. y \in Entries /\ y # 0 /\ ParentOf(p, y) \in 0..N
      BY <1>1, ParentType
    <3>2. ParentOf(p, y) # 0 /\ ParentOf(p, y) \notin S
      BY <3>1
    <3> QED
      BY <1>1, <3>1, <3>2 DEF Up
  <2> HIDE DEF Q
  <2>3. ChainOf(p, x) \subseteq Q
    BY <2>1, <2>2, ChainLeast
  <2> QED
    BY <2>1, <2>3
<1> QED
  BY <1>2

(***************************************************************************)
(* What the workers still have to do.  A mark says that of the children of *)
(* an entry, those from a place on are to be visited.                      *)
(***************************************************************************)

Mark(s, e, n) == [at |-> s, entry |-> e, from |-> n]

\* x is among the children of its base from place f on.
WaitsFrom(p, x, f) ==
  \E k \in f..Len(ChildrenOf(p, ParentOf(p, x))) : ChildrenOf(p, ParentOf(p, x))[k] = x

\* M is what is left to do when the entries of S are settled: an entry that
\* stands on another is settled with it, or waits for its turn.
Fits(p, M, S) ==
  /\ S \subseteq Entries
  /\ \A m \in M : m.entry \in S /\ m.from \in 1..(Len(ChildrenOf(p, m.entry)) + 1)
  /\ \A m, n \in M : m.entry = n.entry => m = n
  /\ \A x \in Entries : ParentOf(p, x) # 0 =>
       (x \in S <=> /\ ParentOf(p, x) \in S
                    /\ ~ \E m \in M : m.entry = ParentOf(p, x) /\ WaitsFrom(p, x, m.from))

LEMMA WaitsFacts ==
  ASSUME NEW p \in Layout, NEW x \in Entries, ParentOf(p, x) # 0
  PROVE  /\ WaitsFrom(p, x, 1)
         /\ ~ WaitsFrom(p, x, Len(ChildrenOf(p, ParentOf(p, x))) + 1)
         /\ \A f \in 1..Len(ChildrenOf(p, ParentOf(p, x))) :
              WaitsFrom(p, x, f + 1) <=> WaitsFrom(p, x, f) /\ x # ChildrenOf(p, ParentOf(p, x))[f]
<1> DEFINE s == ChildrenOf(p, ParentOf(p, x))
<1>1. /\ Len(s) \in Nat
      /\ \E k \in 1..Len(s) : s[k] = x
      /\ \A k, l \in 1..Len(s) : s[k] = s[l] => k = l
  BY ChildrenAre
<1> HIDE DEF s
<1> DEFINE W(f) == \E k \in f..Len(s) : s[k] = x
<1>2. W(1)
  BY <1>1
<1>3. ~ W(Len(s) + 1)
  BY <1>1
<1>4. ASSUME NEW f \in 1..Len(s) PROVE W(f + 1) <=> W(f) /\ x # s[f]
  <2>1. ASSUME W(f + 1) PROVE W(f) /\ x # s[f]
    <3>1. PICK k \in (f + 1)..Len(s) : s[k] = x
      BY <2>1
    <3>2. k \in f..Len(s) /\ k \in 1..Len(s) /\ k # f
      BY <1>1, <3>1
    <3> QED
      BY <1>1, <3>1, <3>2
  <2>2. ASSUME W(f), x # s[f] PROVE W(f + 1)
    <3>1. PICK k \in f..Len(s) : s[k] = x
      BY <2>2
    <3>2. k \in (f + 1)..Len(s)
      BY <1>1, <2>2, <3>1
    <3> QED
      BY <3>1, <3>2
  <2> QED
    BY <2>1, <2>2
<1> QED
  BY <1>2, <1>3, <1>4 DEF WaitsFrom, s

\* The child whose turn it is.
LEMMA TurnOf ==
  ASSUME NEW p \in Layout, NEW M, NEW S, Fits(p, M, S), NEW m \in M,
         m.from <= Len(ChildrenOf(p, m.entry))
  PROVE  /\ ChildrenOf(p, m.entry)[m.from] \in Entries \ S
         /\ ParentOf(p, ChildrenOf(p, m.entry)[m.from]) = m.entry
         /\ m.from \in 1..Len(ChildrenOf(p, m.entry))
         /\ m.entry # 0 /\ m.entry \in Entries
<1> DEFINE s == ChildrenOf(p, m.entry)
           c == s[m.from]
<1>1. m.entry \in S /\ m.from \in 1..(Len(s) + 1) /\ S \subseteq Entries
  BY DEF Fits
<1>2. Len(s) \in Nat /\ \A k \in 1..Len(s) : s[k] \in Entries /\ ParentOf(p, s[k]) = m.entry
  BY ChildrenAre
<1>3. m.from \in 1..Len(s) /\ m.from \in m.from..Len(s)
  BY <1>1, <1>2
<1>4. c \in Entries /\ ParentOf(p, c) = m.entry
  BY <1>2, <1>3
<1>5. m.entry # 0 /\ m.entry \in Entries
  <2>1. 0 \notin Entries
    BY DeltaWalkAssumption DEF Entries
  <2> QED
    BY <1>1, <2>1
<1>6. WaitsFrom(p, c, m.from)
  BY <1>3, <1>4 DEF WaitsFrom
<1>7. c \notin S
  BY <1>4, <1>5, <1>6 DEF Fits
<1> QED
  BY <1>3, <1>4, <1>5, <1>7

\* A child that is sound is settled, and its own children are left to do.
LEMMA FitsOpen ==
  ASSUME NEW p \in Layout, NEW M, NEW S, Fits(p, M, S), NEW m \in M, NEW c, NEW t,
         m.from <= Len(ChildrenOf(p, m.entry)), c = ChildrenOf(p, m.entry)[m.from]
  PROVE  Fits(p, (M \ {m}) \cup {Mark(m.at, m.entry, m.from + 1), Mark(t, c, 1)}, S \cup {c})
<1> DEFINE e == m.entry
           f == m.from
           a == Mark(m.at, e, f + 1)
           b == Mark(t, c, 1)
           L == Len(ChildrenOf(p, e))
           M1 == (M \ {m}) \cup {a, b}
           S1 == S \cup {c}
<1>1. /\ c \in Entries \ S /\ ParentOf(p, c) = e /\ f \in 1..L /\ e # 0 /\ e \in Entries
      /\ e \in S /\ S \subseteq Entries
  <2>1. m.entry \in S /\ S \subseteq Entries
    BY DEF Fits
  <2>2. /\ ChildrenOf(p, m.entry)[m.from] \in Entries \ S
        /\ ParentOf(p, ChildrenOf(p, m.entry)[m.from]) = m.entry
        /\ m.from \in 1..Len(ChildrenOf(p, m.entry))
        /\ m.entry # 0 /\ m.entry \in Entries
    BY TurnOf
  <2> QED
    BY <2>1, <2>2
<1>2. /\ a.entry = e /\ a.from = f + 1 /\ b.entry = c /\ b.from = 1
  BY DEF Mark
<1>3. L \in Nat /\ Len(ChildrenOf(p, c)) \in Nat
  BY ChildrenAre
<1>4. \A n \in M : n.entry \in S /\ n.from \in 1..(Len(ChildrenOf(p, n.entry)) + 1)
  BY DEF Fits
<1>5. \A n, o \in M : n.entry = o.entry => n = o
  BY DEF Fits
<1>6. \A x \in Entries : ParentOf(p, x) # 0 =>
        (x \in S <=> /\ ParentOf(p, x) \in S
                     /\ ~ \E n \in M : n.entry = ParentOf(p, x) /\ WaitsFrom(p, x, n.from))
  BY DEF Fits
<1> HIDE DEF e, f, a, b, L
<1>7. \A n \in M1 : n = a \/ n = b \/ (n \in M /\ n # m)
  OBVIOUS
<1>8. f + 1 \in 1..(L + 1) /\ 1 \in 1..(Len(ChildrenOf(p, c)) + 1)
  BY <1>1, <1>3
<1>9. ASSUME NEW n \in M1 PROVE n.entry \in S1 /\ n.from \in 1..(Len(ChildrenOf(p, n.entry)) + 1)
  <2>1. CASE n = a
    BY <1>1, <1>2, <1>8, <2>1 DEF L
  <2>2. CASE n = b
    BY <1>2, <1>8, <2>2
  <2>3. CASE n \in M /\ n # m
    BY <1>4, <2>3
  <2> QED
    BY <1>7, <2>1, <2>2, <2>3
<1>10. \A n \in M : n.entry = e => n = m
  BY <1>5 DEF e
<1>11. ASSUME NEW n \in M1, NEW o \in M1, n.entry = o.entry PROVE n = o
  <2>1. \A r \in M : r # m => r.entry # e /\ r.entry # c
    BY <1>1, <1>4, <1>10
  <2>2. e # c
    BY <1>1
  <2> QED
    BY <1>2, <1>5, <1>7, <1>11, <2>1, <2>2
<1>12. ASSUME NEW x \in Entries, ParentOf(p, x) # 0
       PROVE  x \in S1 <=> /\ ParentOf(p, x) \in S1
                           /\ ~ \E n \in M1 : n.entry = ParentOf(p, x) /\ WaitsFrom(p, x, n.from)
  <2> DEFINE y == ParentOf(p, x)
  <2>1. CASE y = e
    <3>1. x \in S <=> ~ WaitsFrom(p, x, f)
      BY <1>1, <1>6, <1>10, <1>12, <2>1 DEF e, f
    <3>2. WaitsFrom(p, x, f + 1) <=> WaitsFrom(p, x, f) /\ x # c
      BY <1>1, <1>12, <2>1, WaitsFacts DEF L, e, f
    <3>3. \A n \in M1 : n.entry = y => n = a
      BY <1>1, <1>2, <1>7, <1>10, <2>1
    <3>4. (\E n \in M1 : n.entry = y /\ WaitsFrom(p, x, n.from)) <=> WaitsFrom(p, x, f + 1)
      BY <1>2, <2>1, <3>3
    <3>5. y \in S1
      BY <1>1, <2>1
    <3>6. x = c => WaitsFrom(p, x, f)
      BY <1>1, <1>12, <3>1
    <3> QED
      BY <3>1, <3>2, <3>4, <3>5, <3>6
  <2>2. CASE y = c
    <3>1. WaitsFrom(p, x, 1)
      BY <1>12, WaitsFacts
    <3>2. \E n \in M1 : n.entry = y /\ WaitsFrom(p, x, n.from)
      BY <1>2, <2>2, <3>1
    <3>3. x \notin S /\ x # c
      BY <1>1, <1>6, <1>12, <2>2
    <3> QED
      BY <3>2, <3>3
  <2>3. CASE y # e /\ y # c
    <3>1. x # c
      BY <1>1, <2>3
    <3>2. \A n \in M1 : n.entry = y => n \in M
      BY <1>2, <1>7, <2>3
    <3>3. \A n \in M : n.entry = y => n \in M1
      BY <2>3 DEF e
    <3>4. x \in S1 <=> x \in S
      BY <3>1
    <3>5. y \in S1 <=> y \in S
      BY <2>3
    <3>6. (\E n \in M1 : n.entry = y /\ WaitsFrom(p, x, n.from))
             <=> (\E n \in M : n.entry = y /\ WaitsFrom(p, x, n.from))
      BY <3>2, <3>3
    <3>7. x \in S <=> y \in S /\ ~ \E n \in M : n.entry = y /\ WaitsFrom(p, x, n.from)
      BY <1>6, <1>12
    <3> HIDE DEF y, M1, S1
    <3> QED
      BY <3>4, <3>5, <3>6, <3>7 DEF y
  <2> QED
    BY <2>1, <2>2, <2>3
<1>13. S1 \subseteq Entries
  BY <1>1
<1>14. Fits(p, M1, S1)
  <2> HIDE DEF M1, S1
  <2> QED
    BY <1>9, <1>11, <1>12, <1>13 DEF Fits
<1> QED
  BY <1>14 DEF a, b, e, f

\* When no child is left, the mark goes.
LEMMA FitsClose ==
  ASSUME NEW p \in Layout, NEW M, NEW S, Fits(p, M, S), NEW m \in M,
         m.from = Len(ChildrenOf(p, m.entry)) + 1
  PROVE  Fits(p, M \ {m}, S)
<1> DEFINE M1 == M \ {m}
<1>1. ASSUME NEW x \in Entries, ParentOf(p, x) # 0
      PROVE  x \in S <=> /\ ParentOf(p, x) \in S
                         /\ ~ \E n \in M1 : n.entry = ParentOf(p, x) /\ WaitsFrom(p, x, n.from)
  <2>1. m.entry = ParentOf(p, x) => ~ WaitsFrom(p, x, m.from)
    BY <1>1, WaitsFacts
  <2>2. (\E n \in M1 : n.entry = ParentOf(p, x) /\ WaitsFrom(p, x, n.from))
           <=> \E n \in M : n.entry = ParentOf(p, x) /\ WaitsFrom(p, x, n.from)
    BY <2>1
  <2>3. x \in S <=> /\ ParentOf(p, x) \in S
                    /\ ~ \E n \in M : n.entry = ParentOf(p, x) /\ WaitsFrom(p, x, n.from)
    BY <1>1 DEF Fits
  <2> HIDE DEF M1
  <2> QED
    BY <2>2, <2>3
<1>2. \A n \in M1 : n \in M
  OBVIOUS
<1> HIDE DEF M1
<1>3. Fits(p, M1, S)
  BY <1>1, <1>2 DEF Fits
<1> QED
  BY <1>3 DEF M1

\* A mark may be kept in another place.
LEMMA FitsMove ==
  ASSUME NEW p \in Layout, NEW M, NEW S, Fits(p, M, S), NEW m \in M, NEW t
  PROVE  Fits(p, (M \ {m}) \cup {Mark(t, m.entry, m.from)}, S)
<1> DEFINE a == Mark(t, m.entry, m.from)
           M1 == (M \ {m}) \cup {a}
<1>1. a.entry = m.entry /\ a.from = m.from
  BY DEF Mark
<1> HIDE DEF a
<1>2. \A n \in M1 : n = a \/ (n \in M /\ n # m)
  OBVIOUS
<1>3. ASSUME NEW x \in Entries, ParentOf(p, x) # 0
      PROVE  x \in S <=> /\ ParentOf(p, x) \in S
                         /\ ~ \E n \in M1 : n.entry = ParentOf(p, x) /\ WaitsFrom(p, x, n.from)
  <2>1. (\E n \in M1 : n.entry = ParentOf(p, x) /\ WaitsFrom(p, x, n.from))
           <=> \E n \in M : n.entry = ParentOf(p, x) /\ WaitsFrom(p, x, n.from)
    BY <1>1
  <2>2. x \in S <=> /\ ParentOf(p, x) \in S
                    /\ ~ \E n \in M : n.entry = ParentOf(p, x) /\ WaitsFrom(p, x, n.from)
    BY <1>3 DEF Fits
  <2> HIDE DEF M1
  <2> QED
    BY <2>1, <2>2
<1>4. \A n \in M1 : n.entry \in S /\ n.from \in 1..(Len(ChildrenOf(p, n.entry)) + 1)
  BY <1>1, <1>2 DEF Fits
<1>5. ASSUME NEW n \in M1, NEW o \in M1, n.entry = o.entry PROVE n = o
  <2>1. \A r, s \in M : r.entry = s.entry => r = s
    BY DEF Fits
  <2> QED
    BY <1>1, <1>2, <1>5, <2>1
<1>6. Fits(p, M1, S)
  <2> HIDE DEF M1
  <2>1. S \subseteq Entries
    BY DEF Fits
  <2> QED
    BY <1>3, <1>4, <1>5, <2>1 DEF Fits
<1> QED
  BY <1>6 DEF a

\* A child that is not sound is settled with all that stands on it.
LEMMA FitsSink ==
  ASSUME NEW p \in Layout, NEW M, NEW S, Fits(p, M, S), NEW m \in M, NEW c,
         m.from <= Len(ChildrenOf(p, m.entry)), c = ChildrenOf(p, m.entry)[m.from]
  PROVE  /\ Fits(p, (M \ {m}) \cup {Mark(m.at, m.entry, m.from + 1)}, S \cup SubtreeOf(p, c))
         /\ S \cap SubtreeOf(p, c) = {}
<1> DEFINE e == m.entry
           f == m.from
           a == Mark(m.at, e, f + 1)
           L == Len(ChildrenOf(p, e))
           T == SubtreeOf(p, c)
           M1 == (M \ {m}) \cup {a}
           S1 == S \cup T
<1>1. /\ c \in Entries \ S /\ ParentOf(p, c) = e /\ f \in 1..L /\ e # 0 /\ e \in Entries
      /\ e \in S /\ S \subseteq Entries
  <2>1. m.entry \in S /\ S \subseteq Entries
    BY DEF Fits
  <2>2. /\ ChildrenOf(p, m.entry)[m.from] \in Entries \ S
        /\ ParentOf(p, ChildrenOf(p, m.entry)[m.from]) = m.entry
        /\ m.from \in 1..Len(ChildrenOf(p, m.entry))
        /\ m.entry # 0 /\ m.entry \in Entries
    BY TurnOf
  <2> QED
    BY <2>1, <2>2
<1>2. /\ a.entry = e /\ a.from = f + 1
  BY DEF Mark
<1>3. L \in Nat
  BY ChildrenAre
<1>4. \A n \in M : n.entry \in S /\ n.from \in 1..(Len(ChildrenOf(p, n.entry)) + 1)
  BY DEF Fits
<1>5. \A n, o \in M : n.entry = o.entry => n = o
  BY DEF Fits
<1>6. \A x \in Entries : ParentOf(p, x) # 0 =>
        (x \in S <=> /\ ParentOf(p, x) \in S
                     /\ ~ \E n \in M : n.entry = ParentOf(p, x) /\ WaitsFrom(p, x, n.from))
  BY DEF Fits
<1>7. T \cap S = {} /\ T \subseteq Entries
  BY <1>1, <1>6, NothingBelow DEF SubtreeOf
<1>8. \A x \in Entries : x \in T <=> x = c \/ (ParentOf(p, x) # 0 /\ ParentOf(p, x) \in T)
  BY <1>1, SubtreeStep
<1> HIDE DEF e, f, a, L, T
<1>9. \A n \in M1 : n = a \/ (n \in M /\ n # m)
  OBVIOUS
<1>10. f + 1 \in 1..(L + 1)
  BY <1>1, <1>3
<1>11. ASSUME NEW n \in M1 PROVE n.entry \in S1 /\ n.from \in 1..(Len(ChildrenOf(p, n.entry)) + 1)
  <2>1. CASE n = a
    BY <1>1, <1>2, <1>10, <2>1 DEF L
  <2>2. CASE n \in M /\ n # m
    BY <1>4, <2>2
  <2> QED
    BY <1>9, <2>1, <2>2
<1>12. \A n \in M : n.entry = e => n = m
  BY <1>5 DEF e
<1>13. ASSUME NEW n \in M1, NEW o \in M1, n.entry = o.entry PROVE n = o
  <2>1. \A r \in M : r # m => r.entry # e
    BY <1>12
  <2> QED
    BY <1>2, <1>5, <1>9, <1>13, <2>1
<1>14. ASSUME NEW x \in Entries, ParentOf(p, x) # 0
       PROVE  x \in S1 <=> /\ ParentOf(p, x) \in S1
                           /\ ~ \E n \in M1 : n.entry = ParentOf(p, x) /\ WaitsFrom(p, x, n.from)
  <2> DEFINE y == ParentOf(p, x)
  <2>1. CASE y = e
    <3>1. x \in S <=> ~ WaitsFrom(p, x, f)
      BY <1>1, <1>6, <1>12, <1>14, <2>1 DEF e, f
    <3>2. WaitsFrom(p, x, f + 1) <=> WaitsFrom(p, x, f) /\ x # c
      BY <1>1, <1>14, <2>1, WaitsFacts DEF L, e, f
    <3>3. \A n \in M1 : n.entry = y => n = a
      BY <1>1, <1>2, <1>9, <1>12, <2>1
    <3>4. (\E n \in M1 : n.entry = y /\ WaitsFrom(p, x, n.from)) <=> WaitsFrom(p, x, f + 1)
      BY <1>2, <2>1, <3>3
    <3>5. y \in S1 /\ y \notin T
      BY <1>1, <1>7, <2>1
    <3>6. x \in T <=> x = c
      BY <1>8, <3>5
    <3>7. x = c => WaitsFrom(p, x, f)
      BY <1>1, <1>14, <3>1
    <3> QED
      BY <3>1, <3>2, <3>4, <3>5, <3>6, <3>7
  <2>2. CASE y \in T
    <3>1. x \in T
      BY <1>8, <1>14, <2>2
    <3>2. \A n \in M1 : n.entry # y
      BY <1>1, <1>2, <1>4, <1>7, <1>9, <2>2
    <3> QED
      BY <2>2, <3>1, <3>2
  <2>3. CASE y # e /\ y \notin T
    <3>1. x \notin T
      BY <1>1, <1>8, <2>3
    <3>2. \A n \in M1 : n.entry = y => n \in M
      BY <1>2, <1>9, <2>3
    <3>3. \A n \in M : n.entry = y => n \in M1
      BY <2>3 DEF e
    <3>4. x \in S1 <=> x \in S
      BY <3>1
    <3>5. y \in S1 <=> y \in S
      BY <2>3
    <3>6. (\E n \in M1 : n.entry = y /\ WaitsFrom(p, x, n.from))
             <=> (\E n \in M : n.entry = y /\ WaitsFrom(p, x, n.from))
      BY <3>2, <3>3
    <3>7. x \in S <=> y \in S /\ ~ \E n \in M : n.entry = y /\ WaitsFrom(p, x, n.from)
      BY <1>6, <1>14
    <3> HIDE DEF y, M1, S1
    <3> QED
      BY <3>4, <3>5, <3>6, <3>7 DEF y
  <2> QED
    BY <2>1, <2>2, <2>3
<1>15. S1 \subseteq Entries
  BY <1>1, <1>7
<1>16. Fits(p, M1, S1)
  <2> HIDE DEF M1, S1
  <2> QED
    BY <1>11, <1>13, <1>14, <1>15 DEF Fits
<1> QED
  BY <1>7, <1>16 DEF a, e, f, T

\* A base that has none of its children settled, and that cannot be had any
\* more, is settled with all that stands on it.
LEMMA FitsFail ==
  ASSUME NEW p \in Layout, NEW M, NEW S, Fits(p, M, S), NEW m \in M, m.from = 1
  PROVE  Fits(p, M \ {m}, S \cup SubtreeOf(p, m.entry))
<1> DEFINE e == m.entry
           T == SubtreeOf(p, e)
           M1 == M \ {m}
           S1 == S \cup T
<1>1. S \subseteq Entries /\ e \in S /\ e \in Entries /\ Entries \subseteq 0..N /\ 0 \notin Entries
  <2>1. S \subseteq Entries /\ m.entry \in S
    BY DEF Fits
  <2>2. Entries \subseteq 0..N /\ 0 \notin Entries
    BY DeltaWalkAssumption DEF Entries
  <2> QED
    BY <2>1, <2>2
<1>2. \A n \in M : n.entry \in S /\ n.from \in 1..(Len(ChildrenOf(p, n.entry)) + 1)
  BY DEF Fits
<1>3. \A n, o \in M : n.entry = o.entry => n = o
  BY DEF Fits
<1>4. \A x \in Entries : ParentOf(p, x) # 0 =>
        (x \in S <=> /\ ParentOf(p, x) \in S
                     /\ ~ \E n \in M : n.entry = ParentOf(p, x) /\ WaitsFrom(p, x, n.from))
  BY DEF Fits
<1>5. \A x \in Entries : x \in T <=> x = e \/ (ParentOf(p, x) # 0 /\ ParentOf(p, x) \in T)
  BY <1>1, SubtreeStep
<1>6. \A x \in Entries : ParentOf(p, x) = e => x \notin S
  <2> SUFFICES ASSUME NEW x \in Entries, ParentOf(p, x) = e PROVE x \notin S
    OBVIOUS
  <2>1. ParentOf(p, x) # 0
    BY <1>1
  <2>2. WaitsFrom(p, x, m.from)
    BY <2>1, WaitsFacts
  <2> QED
    BY <1>4, <2>1, <2>2
\* Nothing that stands on the base is settled: it would lead up past it.
<1>7. \A x \in S : x \in T => x = e
  <2> SUFFICES ASSUME NEW x \in S, x # e PROVE x \notin T
    OBVIOUS
  <2> DEFINE Q == (S \ {e}) \cup {0}
  <2>1. ASSUME NEW y \in Q PROVE Up(p, y) \in Q
    <3>1. CASE y = 0
      BY <3>1 DEF Up
    <3>2. CASE y # 0
      <4>1. y \in S /\ y \in Entries /\ Up(p, y) = ParentOf(p, y)
        BY <1>1, <3>2 DEF Up
      <4>2. ParentOf(p, y) # e
        BY <1>6, <4>1
      <4>3. ParentOf(p, y) # 0 => ParentOf(p, y) \in S
        BY <1>4, <4>1
      <4> QED
        BY <4>1, <4>2, <4>3
    <3> QED
      BY <3>1, <3>2
  <2>2. x \in Q /\ x \in 0..N /\ e \notin Q
    BY <1>1
  <2> HIDE DEF Q, e
  <2>3. ChainOf(p, x) \subseteq Q
    BY <2>1, <2>2, ChainLeast
  <2> QED
    BY <2>2, <2>3 DEF SubtreeOf
<1>8. T \subseteq Entries
  BY DEF SubtreeOf
<1>9. \A n \in M1 : n \in M /\ n.entry # e
  BY <1>3
<1>10. \A n \in M : n.entry # e => n \in M1
  OBVIOUS
<1>11. e \in T
  BY <1>1, <1>5
<1> HIDE DEF e, T, M1
<1>12. ASSUME NEW x \in Entries, ParentOf(p, x) # 0
       PROVE  x \in S1 <=> /\ ParentOf(p, x) \in S1
                           /\ ~ \E n \in M1 : n.entry = ParentOf(p, x) /\ WaitsFrom(p, x, n.from)
  <2> DEFINE y == ParentOf(p, x)
  <2>1. CASE y \in T
    <3>1. x \in T
      BY <1>5, <1>12, <2>1
    <3>2. \A n \in M1 : n.entry # y
      BY <1>2, <1>7, <1>9, <2>1
    <3> QED
      BY <2>1, <3>1, <3>2
  <2>2. CASE y \notin T
    <3>1. x \in T => x \in S
      BY <1>1, <1>5, <2>2
    <3>2. x \in S1 <=> x \in S
      BY <3>1
    <3>3. y \in S1 <=> y \in S
      BY <2>2
    <3>4. (\E n \in M1 : n.entry = y /\ WaitsFrom(p, x, n.from))
             <=> (\E n \in M : n.entry = y /\ WaitsFrom(p, x, n.from))
      BY <1>9, <1>10, <1>11, <2>2
    <3>5. x \in S <=> y \in S /\ ~ \E n \in M : n.entry = y /\ WaitsFrom(p, x, n.from)
      BY <1>4, <1>12
    <3> HIDE DEF y, S1
    <3> QED
      BY <3>2, <3>3, <3>4, <3>5 DEF y
  <2> QED
    BY <2>1, <2>2
<1>13. S1 \subseteq Entries
  BY <1>1, <1>8
<1>14. \A n \in M1 : n.entry \in S1 /\ n.from \in 1..(Len(ChildrenOf(p, n.entry)) + 1)
  BY <1>2, <1>9
<1>15. \A n, o \in M1 : n.entry = o.entry => n = o
  BY <1>3, <1>9
<1>16. Fits(p, M1, S1)
  <2> HIDE DEF S1
  <2> QED
    BY <1>12, <1>13, <1>14, <1>15 DEF Fits
<1> QED
  BY <1>16 DEF e, T, M1

\* An entry that stands on none is settled, and its children are left to do.
LEMMA FitsRoot ==
  ASSUME NEW p \in Layout, NEW M, NEW S, Fits(p, M, S), NEW r \in Entries \ S,
         ParentOf(p, r) = 0, NEW t
  PROVE  Fits(p, M \cup {Mark(t, r, 1)}, S \cup {r})
<1> DEFINE b == Mark(t, r, 1)
           M1 == M \cup {b}
           S1 == S \cup {r}
<1>1. b.entry = r /\ b.from = 1
  BY DEF Mark
<1>2. \A n \in M : n.entry \in S /\ n.from \in 1..(Len(ChildrenOf(p, n.entry)) + 1)
  BY DEF Fits
<1>3. \A n, o \in M : n.entry = o.entry => n = o
  BY DEF Fits
<1>4. \A x \in Entries : ParentOf(p, x) # 0 =>
        (x \in S <=> /\ ParentOf(p, x) \in S
                     /\ ~ \E n \in M : n.entry = ParentOf(p, x) /\ WaitsFrom(p, x, n.from))
  BY DEF Fits
<1>5. S \subseteq Entries
  BY DEF Fits
<1>6. 1 \in 1..(Len(ChildrenOf(p, r)) + 1)
  BY ChildrenAre
<1> HIDE DEF b
<1>7. \A n \in M1 : n = b \/ n \in M
  OBVIOUS
<1>8. ASSUME NEW n \in M1 PROVE n.entry \in S1 /\ n.from \in 1..(Len(ChildrenOf(p, n.entry)) + 1)
  BY <1>1, <1>2, <1>6, <1>7
<1>9. ASSUME NEW n \in M1, NEW o \in M1, n.entry = o.entry PROVE n = o
  BY <1>1, <1>2, <1>3, <1>7, <1>9
<1>10. ASSUME NEW x \in Entries, ParentOf(p, x) # 0
       PROVE  x \in S1 <=> /\ ParentOf(p, x) \in S1
                           /\ ~ \E n \in M1 : n.entry = ParentOf(p, x) /\ WaitsFrom(p, x, n.from)
  <2> DEFINE y == ParentOf(p, x)
  <2>0. x # r
    BY <1>10
  <2>1. CASE y = r
    <3>1. WaitsFrom(p, x, 1)
      BY <1>10, WaitsFacts
    <3>2. \E n \in M1 : n.entry = y /\ WaitsFrom(p, x, n.from)
      BY <1>1, <2>1, <3>1
    <3>3. x \notin S
      BY <1>4, <1>10, <2>1
    <3> QED
      BY <2>0, <3>2, <3>3
  <2>2. CASE y # r
    <3>1. x \in S1 <=> x \in S
      BY <2>0
    <3>2. y \in S1 <=> y \in S
      BY <2>2
    <3>3. (\E n \in M1 : n.entry = y /\ WaitsFrom(p, x, n.from))
             <=> (\E n \in M : n.entry = y /\ WaitsFrom(p, x, n.from))
      BY <1>1, <1>7, <2>2
    <3>4. x \in S <=> y \in S /\ ~ \E n \in M : n.entry = y /\ WaitsFrom(p, x, n.from)
      BY <1>4, <1>10
    <3> HIDE DEF y, S1, M1
    <3> QED
      BY <3>1, <3>2, <3>3, <3>4 DEF y
  <2> QED
    BY <2>1, <2>2
<1>11. S1 \subseteq Entries
  BY <1>5
<1>12. Fits(p, M1, S1)
  <2> HIDE DEF S1, M1
  <2> QED
    BY <1>8, <1>9, <1>10, <1>11 DEF Fits
<1> QED
  BY <1>12 DEF b

\* An entry that stands on none, and is not sound, is settled with all that
\* stands on it.
LEMMA FitsRootSink ==
  ASSUME NEW p \in Layout, NEW M, NEW S, Fits(p, M, S), NEW r \in Entries \ S,
         ParentOf(p, r) = 0
  PROVE  /\ Fits(p, M, S \cup SubtreeOf(p, r))
         /\ S \cap SubtreeOf(p, r) = {}
<1> DEFINE T == SubtreeOf(p, r)
           S1 == S \cup T
<1>2. \A n \in M : n.entry \in S /\ n.from \in 1..(Len(ChildrenOf(p, n.entry)) + 1)
  BY DEF Fits
<1>3. \A n, o \in M : n.entry = o.entry => n = o
  BY DEF Fits
<1>4. \A x \in Entries : ParentOf(p, x) # 0 =>
        (x \in S <=> /\ ParentOf(p, x) \in S
                     /\ ~ \E n \in M : n.entry = ParentOf(p, x) /\ WaitsFrom(p, x, n.from))
  BY DEF Fits
<1>5. S \subseteq Entries
  BY DEF Fits
<1>6. S \cap T = {} /\ T \subseteq Entries
  BY <1>4, <1>5, NothingBelow DEF SubtreeOf
<1>7. \A x \in Entries : x \in T <=> x = r \/ (ParentOf(p, x) # 0 /\ ParentOf(p, x) \in T)
  BY SubtreeStep
<1> HIDE DEF T
<1>10. ASSUME NEW x \in Entries, ParentOf(p, x) # 0
       PROVE  x \in S1 <=> /\ ParentOf(p, x) \in S1
                           /\ ~ \E n \in M : n.entry = ParentOf(p, x) /\ WaitsFrom(p, x, n.from)
  <2> DEFINE y == ParentOf(p, x)
  <2>1. x \in T <=> y \in T
    BY <1>7, <1>10
  <2>2. x \in S <=> y \in S /\ ~ \E n \in M : n.entry = y /\ WaitsFrom(p, x, n.from)
    BY <1>4, <1>10
  <2>3. y \in T => ~ \E n \in M : n.entry = y /\ WaitsFrom(p, x, n.from)
    BY <1>2, <1>6
  <2> HIDE DEF y
  <2> QED
    BY <2>1, <2>2, <2>3 DEF y
<1>11. S1 \subseteq Entries /\ \A n \in M : n.entry \in S1
  BY <1>2, <1>5, <1>6
<1>12. Fits(p, M, S1)
  <2> HIDE DEF S1
  <2> QED
    BY <1>2, <1>3, <1>10, <1>11 DEF Fits
<1> QED
  BY <1>6, <1>12 DEF T

\* To begin with, what stands on entries that stand on none is settled.
LEMMA FitsBegin ==
  ASSUME NEW p \in Layout, NEW B, B \subseteq Entries, \A i \in B : ParentOf(p, i) = 0
  PROVE  Fits(p, {}, {x \in Entries : \E i \in B : x \in SubtreeOf(p, i)})
<1> DEFINE S == {x \in Entries : \E i \in B : x \in SubtreeOf(p, i)}
<1>1. ASSUME NEW x \in Entries, ParentOf(p, x) # 0 PROVE x \in S <=> ParentOf(p, x) \in S
  <2>1. ParentOf(p, x) \in Entries
    BY <1>1, ParentType, DeltaWalkAssumption DEF Entries
  <2>2. \A i \in B : x \in SubtreeOf(p, i) <=> ParentOf(p, x) \in SubtreeOf(p, i)
    BY <1>1, SubtreeStep
  <2> QED
    BY <2>1, <2>2
<1>2. S \subseteq Entries
  OBVIOUS
<1> HIDE DEF S
<1>3. Fits(p, {}, S)
  BY <1>1, <1>2 DEF Fits
<1> QED
  BY <1>3 DEF S

(***************************************************************************)
(* The budget.                                                             *)
(***************************************************************************)

Cost(p, k, i) == IF k = 1 THEN 0 ELSE p.size[i]

\* What the first n frames of a stack cost.
HeldOf(p, st, n) == Total([k \in 1..n |-> Cost(p, k, st[k].entry)])

\* What a worker holds that is at "take" or elsewhere.
HeldBy(p, st, here) == HeldOf(p, st, IF here = "take" THEN Len(st) - 1 ELSE Len(st))

LEMMA CostType ==
  ASSUME NEW p \in Layout, NEW k, NEW f \in Frame
  PROVE  Cost(p, k, f.entry) \in Nat
BY DEF Cost, Layout, Frame

LEMMA HeldInt ==
  ASSUME NEW p \in Layout, NEW st \in Seq(Frame), NEW n \in 0..Len(st)
  PROVE  /\ [k \in 1..n |-> Cost(p, k, st[k].entry)] \in [1..n -> Int]
         /\ HeldOf(p, st, n) \in Int
<1>0. n \in Nat /\ \A k \in 1..n : k \in 1..Len(st)
  BY LenProperties
<1>1. \A k \in 1..n : st[k] \in Frame
  BY <1>0, ElementOfSeq
<1>2. ASSUME NEW k \in 1..n PROVE Cost(p, k, st[k].entry) \in Int
  <2>1. Cost(p, k, st[k].entry) \in Nat
    BY <1>1, CostType
  <2> QED
    BY <2>1
<1>3. [k \in 1..n |-> Cost(p, k, st[k].entry)] \in [1..n -> Int]
  BY <1>2
<1> QED
  BY <1>0, <1>3, TotalInt DEF HeldOf

LEMMA HeldByInt ==
  ASSUME NEW p \in Layout, NEW st \in Seq(Frame), NEW here, here = "take" => st # << >>
  PROVE  HeldBy(p, st, here) \in Int
<1>1. Len(st) \in Nat /\ (st # << >> => Len(st) # 0)
  OBVIOUS
<1>2. CASE here = "take"
  <2>1. Len(st) - 1 \in 0..Len(st)
    BY <1>1, <1>2
  <2> QED
    BY <1>2, <2>1, HeldInt DEF HeldBy
<1>3. CASE here # "take"
  <2>1. Len(st) \in 0..Len(st)
    BY <1>1
  <2> QED
    BY <1>3, <2>1, HeldInt DEF HeldBy
<1> QED
  BY <1>2, <1>3

LEMMA HeldOfNone ==
  ASSUME NEW p, NEW st
  PROVE  HeldOf(p, st, 0) = 0
<1> DEFINE s == [k \in 1..0 |-> Cost(p, k, st[k].entry)]
<1>1. s \in [1..0 -> Int]
  OBVIOUS
<1> HIDE DEF s
<1>2. Total(s) = 0
  BY <1>1, TotalOfNone
<1> QED
  BY <1>2 DEF HeldOf, s

\* What is held depends on which entries are stacked, and on nothing else.
LEMMA HeldSame ==
  ASSUME NEW p, NEW n, NEW s, NEW t, \A k \in 1..n : s[k].entry = t[k].entry
  PROVE  HeldOf(p, s, n) = HeldOf(p, t, n)
<1>1. \A k \in 1..n : Cost(p, k, s[k].entry) = Cost(p, k, t[k].entry)
  OBVIOUS
<1>2. [k \in 1..n |-> Cost(p, k, s[k].entry)] = [k \in 1..n |-> Cost(p, k, t[k].entry)]
  BY <1>1
<1> QED
  BY <1>2 DEF HeldOf

LEMMA HeldMore ==
  ASSUME NEW p \in Layout, NEW st \in Seq(Frame), NEW n \in Nat, n + 1 <= Len(st)
  PROVE  /\ HeldOf(p, st, n + 1) = HeldOf(p, st, n) + Cost(p, n + 1, st[n + 1].entry)
         /\ HeldOf(p, st, n) \in Int /\ Cost(p, n + 1, st[n + 1].entry) \in Nat
<1> DEFINE s == [k \in 1..(n + 1) |-> Cost(p, k, st[k].entry)]
           t == [k \in 1..n |-> Cost(p, k, st[k].entry)]
           m == n + 1
<1>1. Len(st) \in Nat
  BY LenProperties
<1>2. n \in 0..Len(st) /\ m \in 0..Len(st) /\ m \in 1..Len(st)
  BY <1>1
<1>3. /\ t \in [1..n -> Int] /\ s \in [1..m -> Int]
      /\ HeldOf(p, st, n) \in Int /\ HeldOf(p, st, n) = Total(t) /\ HeldOf(p, st, m) = Total(s)
  <2> HIDE DEF m
  <2>1. [k \in 1..m |-> Cost(p, k, st[k].entry)] \in [1..m -> Int]
    BY <1>2, HeldInt
  <2>2. t \in [1..n -> Int] /\ HeldOf(p, st, n) \in Int
    BY <1>2, HeldInt
  <2> QED
    BY <2>1, <2>2 DEF HeldOf, m
<1>4. /\ \A k \in 1..n : t[k] = s[k]
      /\ s[n + 1] = Cost(p, n + 1, st[n + 1].entry)
  <2>1. \A k \in 1..n : k \in 1..(n + 1)
    OBVIOUS
  <2>2. n + 1 \in 1..(n + 1)
    OBVIOUS
  <2> QED
    BY <2>1, <2>2
<1>5. Cost(p, m, st[m].entry) \in Nat
  <2>1. st[m] \in Frame
    BY <1>2, ElementOfSeq
  <2> QED
    BY <2>1, CostType
<1> HIDE DEF s, t
<1>6. Total(s) = Total(t) + s[n + 1]
  BY <1>3, <1>4, TotalMore
<1> QED
  BY <1>3, <1>4, <1>5, <1>6

\* What all the workers hold.
SumOf(r) == LET order == SetToSeq(Workers) IN Total([k \in 1..Len(order) |-> r[order[k]]])

LEMMA InOrder ==
  /\ SetToSeq(Workers) \in [1..Len(SetToSeq(Workers)) -> Workers]
  /\ Len(SetToSeq(Workers)) \in Nat
  /\ \A k, l \in 1..Len(SetToSeq(Workers)) :
       SetToSeq(Workers)[k] = SetToSeq(Workers)[l] => k = l
  /\ \A w \in Workers : \E k \in 1..Len(SetToSeq(Workers)) : SetToSeq(Workers)[k] = w
<1> DEFINE n == Cardinality(Workers)
           Is(f) == f \in [1..n -> Workers] /\ IsInjective(f)
           o == SetToSeq(Workers)
<1>1. n \in Nat /\ ExistsBijection(1..n, Workers) /\ IsFiniteSet(Workers)
  BY DeltaWalkAssumption, FS_CardinalityType
<1>2. \E f : Is(f)
  BY <1>1 DEF ExistsBijection, Bijection, Injection, IsInjective
<1>3. o = CHOOSE f \in [1..n -> Workers] : IsInjective(f)
  BY DEF SetToSeq
<1>4. Is(o)
  BY <1>2, <1>3
<1> HIDE DEF n, o
<1>5. Len(o) = n
  BY <1>1, <1>4
<1>6. o \in Injection(1..n, Workers)
  BY <1>4 DEF Injection, IsInjective
<1>7. IsFiniteSet(1..n) /\ Cardinality(1..n) = n
  BY <1>1, FS_Interval
<1>8. o \in Surjection(1..n, Workers)
  BY <1>1, <1>6, <1>7, FS_Injection DEF n
<1>9. \A w \in Workers : \E k \in 1..n : o[k] = w
  BY <1>8 DEF Surjection
<1>10. \A k, l \in 1..n : o[k] = o[l] => k = l
  BY <1>4 DEF IsInjective
<1> QED
  BY <1>1, <1>4, <1>5, <1>9, <1>10 DEF o

\* When one worker holds something else, the sum changes by that.
LEMMA SumChange ==
  ASSUME NEW r \in [Workers -> Int], NEW q \in [Workers -> Int], NEW w \in Workers,
         \A v \in Workers \ {w} : q[v] = r[v]
  PROVE  /\ SumOf(q) - SumOf(r) = q[w] - r[w]
         /\ SumOf(q) \in Int /\ SumOf(r) \in Int
<1> DEFINE o == SetToSeq(Workers)
           n == Len(o)
           s == [k \in 1..n |-> r[o[k]]]
           t == [k \in 1..n |-> q[o[k]]]
<1>1. o \in [1..n -> Workers] /\ n \in Nat
  BY InOrder
<1>2. \A k, l \in 1..n : o[k] = o[l] => k = l
  BY InOrder
<1>3. PICK i \in 1..n : o[i] = w
  BY InOrder
<1>4. SumOf(r) = Total(s) /\ SumOf(q) = Total(t)
  BY DEF SumOf
<1> HIDE DEF o, n
<1>5. s \in [1..n -> Int] /\ t \in [1..n -> Int]
  BY <1>1
<1>6. \A k \in (1..n) \ {i} : t[k] = s[k]
  BY <1>1, <1>2, <1>3
<1>7. t[i] = q[w] /\ s[i] = r[w]
  BY <1>3
<1> HIDE DEF s, t
<1>8. Total(t) - Total(s) = t[i] - s[i]
  BY <1>1, <1>5, <1>6, TotalChange
<1>9. Total(t) \in Int /\ Total(s) \in Int
  BY <1>1, <1>5, TotalInt
<1> QED
  BY <1>4, <1>7, <1>8, <1>9

LEMMA SumOfNone ==
  ASSUME NEW r, \A w \in Workers : r[w] = 0
  PROVE  SumOf(r) = 0
<1> DEFINE o == SetToSeq(Workers)
           n == Len(o)
           s == [k \in 1..n |-> r[o[k]]]
<1>1. o \in [1..n -> Workers] /\ n \in Nat
  BY InOrder
<1>2. SumOf(r) = Total(s)
  BY DEF SumOf
<1> HIDE DEF o, n
<1>3. s \in [1..n -> Int] /\ \A k \in 1..n : s[k] = 0
  BY <1>1
<1> HIDE DEF s
<1>4. PICK sum \in [0..n -> Int] : /\ sum[0] = 0 /\ Total(s) = sum[n]
                                   /\ \A k \in 1..n : sum[k] = sum[k - 1] + s[k]
  BY <1>1, <1>3, TotalAddsUp
<1> DEFINE T == {k \in Nat : k <= n /\ sum[k] # 0}
<1>5. ASSUME T # {} PROVE FALSE
  <2>1. PICK k \in T : \A x \in T : k <= x
    BY <1>5, Smallest
  <2>2. k # 0
    BY <1>4, <2>1
  <2>3. k \in 1..n /\ k - 1 \in Nat /\ k - 1 <= n /\ k - 1 \notin T
    BY <1>1, <2>1, <2>2
  <2>4. sum[k - 1] = 0 /\ s[k] = 0
    BY <1>3, <2>3
  <2> QED
    BY <1>4, <2>1, <2>3, <2>4
<1>6. sum[n] = 0
  <2> HIDE DEF T
  <2>1. n \in Nat /\ n <= n /\ n \notin T
    BY <1>1, <1>5
  <2> QED
    BY <2>1 DEF T
<1> QED
  BY <1>2, <1>4, <1>6

LEMMA BudgetIs ==
  BudgetExact <=> budget + SumOf([v \in Workers |-> HeldBy(pack, stack[v], pc[v])]) = Budget
<1> DEFINE o == SetToSeq(Workers)
           n == Len(o)
           r == [v \in Workers |-> HeldBy(pack, stack[v], pc[v])]
<1>1. o \in [1..n -> Workers] /\ n \in Nat
  BY InOrder
<1>2. BudgetExact <=> budget + Total([k \in 1..n |-> Reserved(o[k])]) = Budget
  BY DEF BudgetExact
<1>3. SumOf(r) = Total([k \in 1..n |-> r[o[k]]])
  BY DEF SumOf
<1>4. \A v : Reserved(v) = HeldBy(pack, stack[v], pc[v])
  BY DEF Reserved, HeldBy, HeldOf, Cost, Depth
<1> HIDE DEF o, n
<1>5. \A k \in 1..n : Reserved(o[k]) = r[o[k]]
  BY <1>1, <1>4
<1> HIDE DEF r
<1>6. [k \in 1..n |-> Reserved(o[k])] = [k \in 1..n |-> r[o[k]]]
  BY <1>5
<1>7. BudgetExact <=> budget + SumOf(r) = Budget
  BY <1>2, <1>3, <1>6
<1> QED
  BY <1>7 DEF r

LEMMA BudgetIsNext ==
  BudgetExact' <=> budget' + SumOf([v \in Workers |-> HeldBy(pack', stack'[v], pc'[v])]) = Budget
<1> DEFINE o == SetToSeq(Workers)
           n == Len(o)
           r == [v \in Workers |-> HeldBy(pack', stack'[v], pc'[v])]
<1>1. o \in [1..n -> Workers] /\ n \in Nat
  BY InOrder
<1>2. BudgetExact' <=> budget' + Total([k \in 1..n |-> Reserved(o[k])']) = Budget
  BY DEF BudgetExact
<1>3. SumOf(r) = Total([k \in 1..n |-> r[o[k]]])
  BY DEF SumOf
<1>4. \A v : Reserved(v)' = HeldBy(pack', stack'[v], pc'[v])
  BY DEF Reserved, HeldBy, HeldOf, Cost, Depth
<1> HIDE DEF o, n
<1>5. \A k \in 1..n : Reserved(o[k])' = r[o[k]]
  BY <1>1, <1>4
<1> HIDE DEF r
<1>6. [k \in 1..n |-> Reserved(o[k])'] = [k \in 1..n |-> r[o[k]]]
  BY <1>5
<1>7. BudgetExact' <=> budget' + SumOf(r) = Budget
  BY <1>2, <1>3, <1>6
<1> QED
  BY <1>7 DEF r

(***************************************************************************)
(* The types, and where things are.                                        *)
(***************************************************************************)

\* A worker on its way through a chain has a stack, and one that has given a
\* base back has the last child of it in hand.
Placed ==
  \A w \in Workers :
    /\ pc[w] \in {"spread", "take"} <=> stack[w] # << >>
    /\ pc[w] = "take" <=> inHand[w] # NoEntry
    /\ pc[w] \in {"idle", "claim", "left"} => deferred[w] = << >>
    /\ \A k \in 1..Len(stack[w]) : stack[w][k].next >= 1

\* The workers and how far Verify is.
Phased ==
  /\ phase \in {"open", "layout"} => \A w \in Workers : pc[w] = "idle"
  /\ phase = "crc" => \A w \in Workers : pc[w] \in {"claim", "left"}
  /\ phase = "walk" => \A w \in Workers : pc[w] # "idle"
  /\ phase = "over" => \A w \in Workers : pc[w] = IF pack.opens = "yes" THEN "left" ELSE "idle"
  /\ phase \in {"layout", "crc", "walk"} => pack.opens = "yes"
  /\ \A w \in Workers : pc[w] = "left" => next >= N

\* The inductive invariant of Bookkeeping.
Books == TypeOK /\ Placed /\ Phased /\ BudgetExact

Places == {"idle", "claim", "spread", "take", "drain", "left"}
Balances(st, here, b, st1, here1, b1) ==
  b1 + HeldBy(pack, st1, here1) = b + HeldBy(pack, st, here)

LEMMA FrontFacts ==
  ASSUME NEW S, NEW s \in Seq(S), s # << >>
  PROVE  /\ Front(s) \in Seq(S) /\ Len(Front(s)) = Len(s) - 1
         /\ \A k \in 1..(Len(s) - 1) : k \in 1..Len(s) /\ Front(s)[k] = s[k]
         /\ Len(s) \in Nat /\ Len(s) >= 1 /\ Last(s) = s[Len(s)] /\ Last(s) \in S
         /\ \A k \in 1..Len(s) : s[k] \in S
<1>1. Len(s) \in Nat /\ Len(s) >= 1 /\ Len(s) - 1 \in Nat
  OBVIOUS
<1>2. \A k \in 1..Len(s) : s[k] \in S
  BY ElementOfSeq
<1>3. Last(s) = s[Len(s)] /\ Len(s) \in 1..Len(s)
  BY <1>1 DEF Last
<1>4. /\ SubSeq(s, 1, Len(s) - 1) \in Seq(S) /\ Len(SubSeq(s, 1, Len(s) - 1)) = Len(s) - 1
      /\ \A k \in 1..(Len(s) - 1) : SubSeq(s, 1, Len(s) - 1)[k] = s[k]
  <2> DEFINE n == Len(s) - 1
  <2>1. n \in Nat /\ n <= Len(s)
    BY <1>1
  <2> HIDE DEF n
  <2>2. /\ SubSeq(s, 1, n) \in Seq(S) /\ Len(SubSeq(s, 1, n)) = n
        /\ \A k \in 1..n : SubSeq(s, 1, n)[k] = s[k]
    BY <2>1
  <2> QED
    BY <2>2 DEF n
<1>5. \A k \in 1..(Len(s) - 1) : k \in 1..Len(s)
  BY <1>1
<1> QED
  BY <1>1, <1>2, <1>3, <1>4, <1>5 DEF Front

\* The base on top of a stack.
LEMMA TopFacts ==
  ASSUME TypeOK, Placed, NEW w \in Workers, stack[w] # << >>
  PROVE  /\ pack \in Layout /\ stack[w] \in Seq(Frame) /\ Depth(w) = Len(stack[w])
         /\ Depth(w) \in Nat /\ Depth(w) >= 1
         /\ Top(w) = stack[w][Depth(w)] /\ Top(w) \in Frame
         /\ Top(w).entry \in Entries /\ Top(w).next \in Nat /\ Top(w).next >= 1
         /\ Exhausted(w) <=> Top(w).next > Len(ChildrenOf(pack, Top(w).entry))
         /\ IsLast(w) <=> Top(w).next = Len(ChildrenOf(pack, Top(w).entry))
         /\ Len(ChildrenOf(pack, Top(w).entry)) \in Nat
         /\ Child(w) = ChildrenOf(pack, Top(w).entry)[Top(w).next]
<1>1. pack \in Layout /\ stack[w] \in Seq(Frame)
  BY DEF TypeOK
<1>2. /\ Len(stack[w]) \in Nat /\ Len(stack[w]) >= 1
      /\ Last(stack[w]) = stack[w][Len(stack[w])] /\ Last(stack[w]) \in Frame
  BY <1>1, FrontFacts
<1>3. Top(w) = stack[w][Depth(w)] /\ Top(w) \in Frame /\ Depth(w) = Len(stack[w])
  BY <1>2 DEF Top, Depth
<1>4. Top(w).entry \in Entries /\ Top(w).next \in Nat
  BY <1>3 DEF Frame
<1>5. Top(w).next >= 1
  <2>1. Len(stack[w]) \in 1..Len(stack[w])
    BY <1>2
  <2> QED
    BY <1>3, <2>1 DEF Placed
<1>6. Len(ChildrenOf(pack, Top(w).entry)) \in Nat
  BY <1>1, ChildrenAre
<1>7. /\ Exhausted(w) <=> Top(w).next > Len(ChildrenOf(pack, Top(w).entry))
      /\ IsLast(w) <=> Top(w).next = Len(ChildrenOf(pack, Top(w).entry))
      /\ Child(w) = ChildrenOf(pack, Top(w).entry)[Top(w).next]
  BY OfPack DEF Exhausted, IsLast, Child
<1> QED
  BY <1>1, <1>2, <1>3, <1>4, <1>5, <1>6, <1>7

LEMMA ChildFacts ==
  ASSUME TypeOK, Placed, NEW w \in Workers, stack[w] # << >>, ~Exhausted(w)
  PROVE  /\ Child(w) \in Entries /\ ParentOf(pack, Child(w)) = Top(w).entry
         /\ Top(w).next \in 1..Len(ChildrenOf(pack, Top(w).entry))
         /\ Top(w).next <= Len(ChildrenOf(pack, Top(w).entry))
<1>1. /\ pack \in Layout /\ Top(w).next \in Nat /\ Top(w).next >= 1
      /\ Len(ChildrenOf(pack, Top(w).entry)) \in Nat
      /\ Exhausted(w) <=> Top(w).next > Len(ChildrenOf(pack, Top(w).entry))
      /\ Child(w) = ChildrenOf(pack, Top(w).entry)[Top(w).next]
  BY TopFacts
<1>2. Top(w).next \in 1..Len(ChildrenOf(pack, Top(w).entry))
  BY <1>1
<1> QED
  BY <1>1, <1>2, ChildrenAre

LEMMA VisitedFacts ==
  ASSUME TypeOK, Placed, NEW w \in Workers, stack[w] # << >>
  PROVE  /\ Visited(w) \in Seq(Frame) /\ Len(Visited(w)) = Depth(w) /\ Visited(w) # << >>
         /\ \A k \in 1..Depth(w) : /\ Visited(w)[k].entry = stack[w][k].entry
                                   /\ k # Depth(w) => Visited(w)[k] = stack[w][k]
                                   /\ Visited(w)[k].next >= 1
         /\ Visited(w)[Depth(w)] = [entry |-> Top(w).entry, next |-> Top(w).next + 1]
<1> DEFINE n == Depth(w)
           f == [entry |-> Top(w).entry, next |-> Top(w).next + 1]
           v == Visited(w)
           st == stack[w]
<1>1. /\ st \in Seq(Frame) /\ n = Len(st) /\ n \in Nat /\ n >= 1
      /\ Top(w) = st[n] /\ Top(w).entry \in Entries /\ Top(w).next \in Nat
  BY TopFacts
<1>2. f \in Frame /\ f.entry = st[n].entry /\ f.next = Top(w).next + 1 /\ f.next >= 1
  BY <1>1 DEF Frame
<1>3. \A k \in 1..Len(st) : st[k].next >= 1
  BY DEF Placed
<1>4. v = [st EXCEPT ![n] = f]
  BY DEF Visited
<1> HIDE DEF f, n, v, st
<1>5. v \in Seq(Frame) /\ Len(v) = n /\ n \in 1..n
  BY <1>1, <1>2, <1>4
<1>6. \A k \in 1..n : v[k] = IF k = n THEN f ELSE st[k]
  BY <1>1, <1>2, <1>4
<1>7. v # << >>
  BY <1>1, <1>5
<1>8. v[n] = f
  BY <1>5, <1>6
<1>9. ASSUME NEW k \in 1..n PROVE v[k].entry = st[k].entry /\ (k # n => v[k] = st[k]) /\ v[k].next >= 1
  BY <1>1, <1>2, <1>3, <1>6
<1> QED
  BY <1>5, <1>7, <1>8, <1>9 DEF f, n, v, st

\* Where one worker goes on, what is said of all of them is kept when its own
\* part is, and when what it holds is balanced by the budget.
LEMMA WorkerStep ==
  ASSUME Books, NEW w \in Workers, NEW st \in Seq(Frame), NEW df \in Seq(Entries),
         NEW h \in Entries \cup {NoEntry}, NEW here \in Places,
         stack' = [stack EXCEPT ![w] = st], deferred' = [deferred EXCEPT ![w] = df],
         inHand' = [inHand EXCEPT ![w] = h], pc' = [pc EXCEPT ![w] = here],
         UNCHANGED <<pack, rotten, phase, sums>>,
         next' \in Nat, next' >= next, budget' \in Nat,
         delivered' \in [Entries -> Nat], reported' \in [Entries -> Nat],
         mismatch' \subseteq Entries, good' \in BOOLEAN,
         here \in {"spread", "take"} <=> st # << >>, here = "take" <=> h # NoEntry,
         here \in {"idle", "claim", "left"} => df = << >>,
         \A k \in 1..Len(st) : st[k].next >= 1,
         \/ phase = "crc" /\ here \in {"claim", "left"}
         \/ phase = "walk" /\ here # "idle",
         here = "left" => next' >= N,
         Balances(stack[w], pc[w], budget, st, here, budget')
  PROVE  Books'
<1>1. TypeOK /\ Placed /\ Phased /\ BudgetExact /\ pack \in Layout
  BY DEF Books, TypeOK
<1>2. /\ stack \in [Workers -> Seq(Frame)] /\ deferred \in [Workers -> Seq(Entries)]
      /\ inHand \in [Workers -> Entries \cup {NoEntry}] /\ pc \in [Workers -> Places]
      /\ next \in Nat /\ budget \in Nat /\ Budget \in Nat
  BY <1>1, DeltaWalkAssumption DEF TypeOK, Places
<1>3. \A v \in Workers : /\ stack'[v] = IF v = w THEN st ELSE stack[v]
                         /\ deferred'[v] = IF v = w THEN df ELSE deferred[v]
                         /\ inHand'[v] = IF v = w THEN h ELSE inHand[v]
                         /\ pc'[v] = IF v = w THEN here ELSE pc[v]
  BY <1>2
<1>4. TypeOK'
  <2>1. /\ stack' \in [Workers -> Seq(Frame)] /\ deferred' \in [Workers -> Seq(Entries)]
        /\ inHand' \in [Workers -> Entries \cup {NoEntry}] /\ pc' \in [Workers -> Places]
    BY <1>2
  <2>2. /\ pack' \in Layout /\ rotten' \subseteq Entries
        /\ phase' \in {"open", "layout", "crc", "walk", "over"}
        /\ sums' \in {"none", "hashing", "match", "differ"}
    BY <1>1 DEF TypeOK
  <2> QED
    BY <2>1, <2>2 DEF TypeOK, Places
<1>5. Placed'
  <2> SUFFICES ASSUME NEW v \in Workers
               PROVE  /\ pc'[v] \in {"spread", "take"} <=> stack'[v] # << >>
                      /\ pc'[v] = "take" <=> inHand'[v] # NoEntry
                      /\ pc'[v] \in {"idle", "claim", "left"} => deferred'[v] = << >>
                      /\ \A k \in 1..Len(stack'[v]) : stack'[v][k].next >= 1
    BY DEF Placed
  <2>1. CASE v = w
    BY <1>3, <2>1
  <2>2. CASE v # w
    <3>1. stack'[v] = stack[v] /\ deferred'[v] = deferred[v] /\ inHand'[v] = inHand[v] /\ pc'[v] = pc[v]
      BY <1>3, <2>2
    <3> QED
      BY <1>1, <3>1 DEF Placed
  <2> QED
    BY <2>1, <2>2
<1>6. Phased'
  <2>1. phase' = phase /\ pack' = pack
    OBVIOUS
  <2>2. ASSUME NEW v \in Workers, pc'[v] = "left" PROVE next' >= N
    <3>1. CASE v = w
      BY <1>3, <2>2, <3>1
    <3>2. CASE v # w
      <4>1. next >= N
        BY <1>1, <1>3, <2>2, <3>2 DEF Phased
      <4> QED
        BY <1>2, <4>1, DeltaWalkAssumption
    <3> QED
      BY <3>1, <3>2
  <2>3. phase = "crc" => \A v \in Workers : pc'[v] \in {"claim", "left"}
    BY <1>1, <1>3 DEF Phased
  <2>4. phase = "walk" => \A v \in Workers : pc'[v] # "idle"
    BY <1>1, <1>3 DEF Phased
  <2>5. phase \in {"crc", "walk"} /\ pack.opens = "yes"
    BY <1>1 DEF Phased
  <2> QED
    BY <2>1, <2>2, <2>3, <2>4, <2>5 DEF Phased
<1>7. BudgetExact'
  <2> DEFINE r == [v \in Workers |-> HeldBy(pack, stack[v], pc[v])]
             q == [v \in Workers |-> HeldBy(pack', stack'[v], pc'[v])]
  <2>1. \A v \in Workers : r[v] \in Int
    <3> SUFFICES ASSUME NEW v \in Workers PROVE HeldBy(pack, stack[v], pc[v]) \in Int
      OBVIOUS
    <3>1. stack[v] \in Seq(Frame) /\ (pc[v] = "take" => stack[v] # << >>)
      BY <1>1, <1>2 DEF Placed
    <3> QED
      BY <1>1, <3>1, HeldByInt
  <2>2. HeldBy(pack, st, here) \in Int
    BY <1>1, HeldByInt
  <2>3. q[w] = HeldBy(pack, st, here) /\ \A v \in Workers \ {w} : q[v] = r[v]
    BY <1>3
  <2>4. q \in [Workers -> Int] /\ r \in [Workers -> Int]
    BY <2>1, <2>2, <2>3
  <2>5. budget' + q[w] = budget + r[w]
    BY <2>3 DEF Balances
  <2>6. budget + SumOf(r) = Budget
    BY <1>1, BudgetIs
  <2>7. BudgetExact' <=> budget' + SumOf(q) = Budget
    BY BudgetIsNext
  <2>8. q[w] \in Int /\ r[w] \in Int
    BY <2>4
  <2> HIDE DEF q, r
  <2>9. SumOf(q) - SumOf(r) = q[w] - r[w] /\ SumOf(q) \in Int /\ SumOf(r) \in Int
    BY <2>3, <2>4, SumChange
  <2> DEFINE a == budget'
             x == q[w]
             y == r[w]
             s == SumOf(r)
             t == SumOf(q)
  <2>10. /\ a \in Int /\ budget \in Int /\ x \in Int /\ y \in Int /\ s \in Int /\ t \in Int
         /\ Budget \in Int
         /\ a + x = budget + y /\ budget + s = Budget /\ t - s = x - y
    BY <1>2, <2>5, <2>6, <2>8, <2>9
  <2> HIDE DEF a, x, y, s, t
  <2>11. a + t = Budget
    BY <2>10, SameSum, SMTT(30)
  <2> QED
    BY <2>7, <2>11 DEF a, t
<1> QED
  BY <1>4, <1>5, <1>6, <1>7 DEF Books

\* A stack with one frame more costs what that frame costs more.
LEMMA HeldStep ==
  ASSUME NEW p \in Layout, NEW s \in Seq(Frame), NEW t \in Seq(Frame), Len(t) = Len(s) + 1,
         \A k \in 1..Len(s) : t[k].entry = s[k].entry
  PROVE  /\ HeldOf(p, t, Len(t)) = HeldOf(p, s, Len(s)) + Cost(p, Len(t), t[Len(t)].entry)
         /\ HeldOf(p, t, Len(t) - 1) = HeldOf(p, s, Len(s))
         /\ HeldOf(p, s, Len(s)) \in Int /\ Cost(p, Len(t), t[Len(t)].entry) \in Nat
<1> DEFINE n == Len(s)
<1>1. n \in Nat
  BY LenProperties
<1> HIDE DEF n
<1>2. /\ HeldOf(p, t, n + 1) = HeldOf(p, t, n) + Cost(p, n + 1, t[n + 1].entry)
      /\ HeldOf(p, t, n) \in Int /\ Cost(p, n + 1, t[n + 1].entry) \in Nat
  <2>1. n + 1 <= Len(t)
    BY <1>1 DEF n
  <2> QED
    BY <1>1, <2>1, HeldMore
<1>3. HeldOf(p, t, n) = HeldOf(p, s, n)
  BY HeldSame DEF n
<1>4. Len(t) = n + 1 /\ Len(t) - 1 = n
  BY <1>1 DEF n
<1> QED
  BY <1>2, <1>3, <1>4 DEF n

LEMMA HeldElsewhere ==
  ASSUME NEW p, NEW st, NEW here, here # "take"
  PROVE  HeldBy(p, st, here) = HeldOf(p, st, Len(st))
BY DEF HeldBy

LEMMA NothingHeld ==
  ASSUME NEW p, NEW here, here # "take"
  PROVE  HeldBy(p, << >>, here) = 0
<1> DEFINE e == << >>
<1>1. Len(e) = 0
  OBVIOUS
<1> HIDE DEF e
<1>2. HeldBy(p, e, here) = 0
  BY <1>1, HeldElsewhere, HeldOfNone
<1> QED
  BY <1>2 DEF e

\* The bottom of a stack is free.
LEMMA BottomHeld ==
  ASSUME NEW p \in Layout, NEW i \in Entries, NEW here, here # "take"
  PROVE  HeldBy(p, <<Base(i)>>, here) = 0
<1> DEFINE t == <<Base(i)>>
           e == << >>
<1>1. t \in Seq(Frame) /\ Len(t) = 1 /\ e \in Seq(Frame) /\ Len(e) = 0 /\ 1..Len(e) = {}
  BY DEF Base, Frame
<1> HIDE DEF t, e
<1>2. HeldOf(p, t, Len(t)) = HeldOf(p, e, Len(e)) + Cost(p, Len(t), t[Len(t)].entry)
  <2>1. Len(t) = Len(e) + 1 /\ \A k \in 1..Len(e) : t[k].entry = e[k].entry
    BY <1>1
  <2> QED
    BY <1>1, <2>1, HeldStep
<1>3. Cost(p, 1, t[1].entry) = 0
  BY DEF Cost
<1>4. HeldOf(p, t, Len(t)) = 0
  BY <1>1, <1>2, <1>3, HeldOfNone
<1>5. HeldBy(p, t, here) = 0
  BY <1>4, HeldElsewhere
<1> QED
  BY <1>5 DEF t

LEMMA ReportType ==
  ASSUME TypeOK, NEW T, Report(T)
  PROVE  /\ delivered' \in [Entries -> Nat] /\ reported' \in [Entries -> Nat]
         /\ mismatch' \subseteq Entries /\ good' \in BOOLEAN
<1>1. reported' \in [Entries -> Nat]
  <2>1. \A i \in Entries : reported[i] + (IF i \in T THEN 1 ELSE 0) \in Nat
    BY DEF TypeOK
  <2>2. reported' = [i \in Entries |-> reported[i] + IF i \in T THEN 1 ELSE 0]
    BY DEF Report
  <2> QED
    BY <2>1, <2>2
<1>2. delivered' \in [Entries -> Nat] /\ mismatch' \subseteq Entries
  BY DEF TypeOK, Report
<1>3. good' \in BOOLEAN
  BY DEF TypeOK, Report
<1> QED
  BY <1>1, <1>2, <1>3

LEMMA FinishType ==
  ASSUME TypeOK, NEW i \in Entries, Finish(i)
  PROVE  /\ delivered' \in [Entries -> Nat] /\ reported' \in [Entries -> Nat]
         /\ mismatch' \subseteq Entries /\ good' \in BOOLEAN
<1>1. CASE i \in pack.hashes
  <2>1. delivered' \in [Entries -> Nat]
    <3>1. delivered' = [delivered EXCEPT ![i] = delivered[i] + 1]
      BY <1>1 DEF Finish
    <3>2. delivered \in [Entries -> Nat]
      BY DEF TypeOK
    <3> QED
      BY <3>1, <3>2
  <2>2. reported' \in [Entries -> Nat] /\ mismatch' \subseteq Entries
    BY <1>1 DEF TypeOK, Finish
  <2>3. good' \in BOOLEAN
    <3>1. good' = good
      BY <1>1 DEF Finish
    <3>2. good \in BOOLEAN
      BY DEF TypeOK
    <3> QED
      BY <3>1, <3>2
  <2> QED
    BY <2>1, <2>2, <2>3
<1>2. CASE i \notin pack.hashes
  <2>1. Report({i})
    BY <1>2 DEF Finish
  <2> QED
    BY <2>1, ReportType
<1> QED
  BY <1>1, <1>2

LEMMA SameResultsType ==
  ASSUME TypeOK, UNCHANGED results
  PROVE  /\ delivered' \in [Entries -> Nat] /\ reported' \in [Entries -> Nat]
         /\ mismatch' \subseteq Entries /\ good' \in BOOLEAN
<1>1. good' \in BOOLEAN
  BY DEF TypeOK, results
<1>2. delivered' \in [Entries -> Nat] /\ reported' \in [Entries -> Nat] /\ mismatch' \subseteq Entries
  BY DEF TypeOK, results
<1> QED
  BY <1>1, <1>2

\* A worker that is on its way through a chain.
LEMMA OnItsWay ==
  ASSUME Books, NEW w \in Workers, pc[w] \in {"spread", "take", "drain"}
  PROVE  /\ phase = "walk" /\ pack \in Layout /\ budget \in Nat /\ next \in Nat
         /\ stack[w] \in Seq(Frame) /\ deferred[w] \in Seq(Entries) /\ inHand[w] \in Entries \cup {NoEntry}
         /\ stack \in [Workers -> Seq(Frame)] /\ deferred \in [Workers -> Seq(Entries)]
         /\ inHand \in [Workers -> Entries \cup {NoEntry}] /\ pc \in [Workers -> Places]
         /\ stack = [stack EXCEPT ![w] = stack[w]] /\ deferred = [deferred EXCEPT ![w] = deferred[w]]
         /\ inHand = [inHand EXCEPT ![w] = inHand[w]] /\ pc = [pc EXCEPT ![w] = pc[w]]
         /\ pc[w] # "drain" => stack[w] # << >>
         /\ pc[w] = "drain" => stack[w] = << >>
         /\ pc[w] = "take" => inHand[w] \in Entries
         /\ pc[w] # "take" => inHand[w] = NoEntry
         /\ next >= next
<1>1. TypeOK /\ Placed /\ Phased
  BY DEF Books
<1>2. /\ pack \in Layout /\ budget \in Nat /\ next \in Nat
      /\ stack \in [Workers -> Seq(Frame)] /\ deferred \in [Workers -> Seq(Entries)]
      /\ inHand \in [Workers -> Entries \cup {NoEntry}] /\ pc \in [Workers -> Places]
  BY <1>1 DEF TypeOK, Places
<1>3. phase = "walk"
  <2>1. phase \in {"open", "layout", "crc", "walk", "over"}
    BY <1>1 DEF TypeOK
  <2>2. phase \notin {"open", "layout"} /\ phase # "crc" /\ phase # "over"
    BY <1>1 DEF Phased
  <2> QED
    BY <2>1, <2>2
<1>4. /\ pc[w] \in {"spread", "take"} <=> stack[w] # << >>
      /\ pc[w] = "take" <=> inHand[w] # NoEntry
  BY <1>1 DEF Placed
<1>5. /\ stack = [stack EXCEPT ![w] = stack[w]] /\ deferred = [deferred EXCEPT ![w] = deferred[w]]
      /\ inHand = [inHand EXCEPT ![w] = inHand[w]] /\ pc = [pc EXCEPT ![w] = pc[w]]
  BY <1>2
<1> QED
  BY <1>2, <1>3, <1>4, <1>5

(***************************************************************************)
(* Each step of a worker keeps the books.                                  *)
(***************************************************************************)

LEMMA BooksPopBase ==
  ASSUME Books, NEW w \in Workers, PopBase(w)
  PROVE  Books'
<1> DEFINE st == stack[w]
           st1 == Front(st)
           here == IF Depth(w) = 1 THEN "drain" ELSE "spread"
<1>1. TypeOK /\ Placed /\ pc[w] = "spread"
  BY DEF Books, PopBase
<1>2. st # << >> /\ phase = "walk" /\ inHand[w] = NoEntry /\ budget \in Nat /\ next \in Nat
  BY <1>1, OnItsWay
<1>3. /\ st \in Seq(Frame) /\ Depth(w) = Len(st) /\ Depth(w) \in Nat /\ Depth(w) >= 1
      /\ Top(w) = st[Len(st)] /\ pack \in Layout
  BY <1>1, <1>2, TopFacts
<1>4. /\ st1 \in Seq(Frame) /\ Len(st1) = Len(st) - 1
      /\ \A k \in 1..(Len(st) - 1) : k \in 1..Len(st) /\ st1[k] = st[k]
  BY <1>2, <1>3, FrontFacts
<1>5. /\ HeldOf(pack, st, Len(st)) = HeldOf(pack, st1, Len(st1)) + Cost(pack, Len(st), Top(w).entry)
      /\ HeldOf(pack, st1, Len(st1)) \in Int /\ Cost(pack, Len(st), Top(w).entry) \in Nat
  <2> HIDE DEF st, st1
  <2>1. Len(st) = Len(st1) + 1 /\ \A k \in 1..Len(st1) : st[k].entry = st1[k].entry
    BY <1>3, <1>4
  <2> QED
    <3>1. st \in Seq(Frame) /\ st1 \in Seq(Frame) /\ pack \in Layout /\ Top(w) = st[Len(st)]
      BY <1>3, <1>4
    <3>2. /\ HeldOf(pack, st, Len(st)) =
               HeldOf(pack, st1, Len(st1)) + Cost(pack, Len(st), st[Len(st)].entry)
          /\ HeldOf(pack, st1, Len(st1)) \in Int /\ Cost(pack, Len(st), st[Len(st)].entry) \in Nat
      BY <2>1, <3>1, HeldStep
    <3> QED
      BY <3>1, <3>2
<1>6. budget' = budget + Cost(pack, Len(st), Top(w).entry)
  BY <1>2, <1>3 DEF PopBase, Give, Cost
<1>7. here \in {"drain", "spread"}
  OBVIOUS
<1>8. Balances(st, pc[w], budget, st1, here, budget')
  <2>1. HeldBy(pack, st, pc[w]) = HeldOf(pack, st, Len(st))
    BY <1>1, HeldElsewhere
  <2>2. HeldBy(pack, st1, here) = HeldOf(pack, st1, Len(st1))
    <3> HIDE DEF here, st1
    <3> QED
      BY <1>7, HeldElsewhere
  <2> HIDE DEF here, st, st1
  <2> QED
    BY <1>2, <1>5, <1>6, <2>1, <2>2 DEF Balances
<1>9. here = "spread" <=> st1 # << >>
  <2>1. st1 = << >> <=> Len(st1) = 0
    <3> HIDE DEF st1
    <3> QED
      BY <1>4, EmptySeq
  <2> HIDE DEF st, st1
  <2> QED
    BY <1>3, <1>4, <2>1
<1>10. \A k \in 1..Len(st1) : st1[k].next >= 1
  <2>1. \A k \in 1..Len(st) : st[k].next >= 1
    BY <1>1 DEF Placed
  <2> HIDE DEF st, st1
  <2> QED
    BY <1>4, <2>1
<1>11. /\ stack' = [stack EXCEPT ![w] = st1] /\ deferred' = [deferred EXCEPT ![w] = deferred[w]]
       /\ inHand' = [inHand EXCEPT ![w] = NoEntry] /\ pc' = [pc EXCEPT ![w] = here]
       /\ UNCHANGED <<pack, rotten, phase, sums>> /\ next' = next
  BY <1>1, <1>2, OnItsWay DEF PopBase
<1>12. /\ delivered' \in [Entries -> Nat] /\ reported' \in [Entries -> Nat]
       /\ mismatch' \subseteq Entries /\ good' \in BOOLEAN
  BY <1>1, SameResultsType DEF PopBase
<1>13. deferred[w] \in Seq(Entries) /\ NoEntry \in Entries \cup {NoEntry} /\ here \in Places
  BY <1>1, <1>7, OnItsWay DEF Places
<1>14. budget' \in Nat /\ next' \in Nat /\ next' >= next
  BY <1>2, <1>5, <1>6, <1>11
<1>15. /\ here \notin {"take", "idle", "claim", "left", "crc"}
  BY <1>7
<1> HIDE DEF here, st1
<1> QED
  BY <1>2, <1>4, <1>7, <1>8, <1>9, <1>10, <1>11, <1>12, <1>13, <1>14, <1>15, WorkerStep DEF st

LEMMA BooksVisitLeaf ==
  ASSUME Books, NEW w \in Workers, VisitLeaf(w)
  PROVE  Books'
<1> DEFINE st == stack[w]
           st1 == Visited(w)
           c == Child(w)
<1>1. TypeOK /\ Placed /\ pc[w] = "spread" /\ ~Exhausted(w)
  BY DEF Books, VisitLeaf
<1>2. st # << >> /\ phase = "walk" /\ inHand[w] = NoEntry /\ budget \in Nat /\ next \in Nat
  BY <1>1, OnItsWay
<1>3. st \in Seq(Frame) /\ Depth(w) = Len(st) /\ Depth(w) \in Nat /\ pack \in Layout
  BY <1>1, <1>2, TopFacts
<1>4. /\ st1 \in Seq(Frame) /\ Len(st1) = Depth(w) /\ st1 # << >>
      /\ \A k \in 1..Depth(w) : st1[k].entry = st[k].entry /\ st1[k].next >= 1
  BY <1>1, <1>2, VisitedFacts
<1>5. c \in Entries
  BY <1>1, <1>2, ChildFacts
<1>6. /\ delivered' \in [Entries -> Nat] /\ reported' \in [Entries -> Nat]
      /\ mismatch' \subseteq Entries /\ good' \in BOOLEAN
  <2>1. IF c \in Decodable THEN Finish(c) ELSE Report(Subtree(c))
    BY DEF VisitLeaf
  <2> HIDE DEF c
  <2>2. CASE c \in Decodable
    BY <1>1, <1>5, <2>1, <2>2, FinishType
  <2>3. CASE c \notin Decodable
    BY <1>1, <2>1, <2>3, ReportType
  <2> QED
    BY <2>2, <2>3
<1>7. /\ stack' = [stack EXCEPT ![w] = st1] /\ deferred' = [deferred EXCEPT ![w] = deferred[w]]
      /\ inHand' = [inHand EXCEPT ![w] = NoEntry] /\ pc' = [pc EXCEPT ![w] = "spread"]
      /\ UNCHANGED <<pack, rotten, phase, sums>> /\ next' = next /\ budget' = budget
  BY <1>1, <1>2, OnItsWay DEF VisitLeaf
<1>8. Balances(st, pc[w], budget, st1, "spread", budget')
  <2> HIDE DEF st, st1
  <2>1. HeldOf(pack, st1, Len(st1)) = HeldOf(pack, st, Len(st))
    BY <1>3, <1>4, HeldSame
  <2>2. HeldBy(pack, st, "spread") = HeldOf(pack, st, Len(st))
    BY HeldElsewhere
  <2>3. HeldBy(pack, st1, "spread") = HeldOf(pack, st1, Len(st1))
    BY HeldElsewhere
  <2> QED
    BY <1>1, <1>7, <2>1, <2>2, <2>3 DEF Balances
<1>9. deferred[w] \in Seq(Entries) /\ NoEntry \in Entries \cup {NoEntry} /\ "spread" \in Places
  BY <1>1, OnItsWay DEF Places
<1>10. budget' \in Nat /\ next' \in Nat /\ next' >= next
  BY <1>2, <1>7
<1>11. \A k \in 1..Len(st1) : st1[k].next >= 1
  BY <1>4
<1> HIDE DEF st1
<1> QED
  BY <1>2, <1>4, <1>6, <1>7, <1>8, <1>9, <1>10, <1>11, WorkerStep DEF st

\* A stack with a base more.
LEMMA PushFacts ==
  ASSUME NEW st \in Seq(Frame), NEW c \in Entries, \A k \in 1..Len(st) : st[k].next >= 1
  PROVE  /\ Append(st, Base(c)) \in Seq(Frame) /\ Append(st, Base(c)) # << >>
         /\ Len(Append(st, Base(c))) = Len(st) + 1
         /\ \A k \in 1..Len(st) : Append(st, Base(c))[k] = st[k]
         /\ Append(st, Base(c))[Len(st) + 1] = Base(c)
         /\ \A k \in 1..(Len(st) + 1) : Append(st, Base(c))[k].next >= 1
<1> DEFINE b == Base(c)
           t == Append(st, b)
<1>1. b \in Frame /\ b.next = 1
  BY DEF Base, Frame
<1> HIDE DEF b
<1>2. /\ t \in Seq(Frame) /\ t # << >> /\ Len(t) = Len(st) + 1
      /\ \A k \in 1..Len(st) : t[k] = st[k]
      /\ t[Len(st) + 1] = b
  BY <1>1, AppendProperties
<1> HIDE DEF t
<1>3. Len(st) \in Nat
  BY LenProperties
<1>4. ASSUME NEW k \in 1..(Len(st) + 1) PROVE t[k].next >= 1
  <2>1. CASE k = Len(st) + 1
    BY <1>1, <1>2, <2>1
  <2>2. CASE k # Len(st) + 1
    <3>1. k \in 1..Len(st)
      BY <1>3, <2>2
    <3> QED
      BY <1>2, <3>1
  <2> QED
    BY <2>1, <2>2
<1> QED
  BY <1>2, <1>4 DEF t, b

LEMMA BooksVisitBase ==
  ASSUME Books, NEW w \in Workers, VisitBase(w)
  PROVE  Books'
<1> DEFINE st == stack[w]
           v == Visited(w)
           c == Child(w)
           df == deferred[w]
<1>1. TypeOK /\ Placed /\ pc[w] = "spread" /\ ~Exhausted(w)
  BY DEF Books, VisitBase
<1>2. st # << >> /\ phase = "walk" /\ inHand[w] = NoEntry /\ budget \in Nat /\ next \in Nat
  BY <1>1, OnItsWay
<1>3. st \in Seq(Frame) /\ Depth(w) = Len(st) /\ Depth(w) \in Nat /\ Depth(w) >= 1 /\ pack \in Layout
  BY <1>1, <1>2, TopFacts
<1>4. /\ v \in Seq(Frame) /\ Len(v) = Depth(w) /\ v # << >>
      /\ \A k \in 1..Depth(w) : v[k].entry = st[k].entry /\ v[k].next >= 1
  BY <1>1, <1>2, VisitedFacts
<1>5. c \in Entries
  BY <1>1, <1>2, ChildFacts
<1>6. /\ delivered' \in [Entries -> Nat] /\ reported' \in [Entries -> Nat]
      /\ mismatch' \subseteq Entries /\ good' \in BOOLEAN
  <2>1. Finish(c)
    BY DEF VisitBase
  <2> HIDE DEF c
  <2> QED
    BY <1>1, <1>5, <2>1, FinishType
<1>7. /\ deferred = [deferred EXCEPT ![w] = df]
      /\ inHand' = [inHand EXCEPT ![w] = NoEntry] /\ pc' = [pc EXCEPT ![w] = "spread"]
      /\ UNCHANGED <<pack, rotten, phase, sums>> /\ next' = next /\ df \in Seq(Entries)
  BY <1>1, <1>2, OnItsWay DEF VisitBase
<1>8. NoEntry \in Entries \cup {NoEntry} /\ "spread" \in Places
  BY DEF Places
<1>9. next' \in Nat /\ next' >= next
  BY <1>2, <1>7
<1>10. \A k \in 1..Len(v) : v[k].next >= 1
  BY <1>4
<1>11. HeldBy(pack, st, pc[w]) = HeldOf(pack, v, Len(v))
  <2> HIDE DEF st, v
  <2>1. HeldOf(pack, v, Len(v)) = HeldOf(pack, st, Len(st))
    BY <1>3, <1>4, HeldSame
  <2>2. HeldBy(pack, st, "spread") = HeldOf(pack, st, Len(st))
    BY HeldElsewhere
  <2> QED
    BY <1>1, <2>1, <2>2
<1>12. CASE CanTake(Depth(w) + 1, c)
  <2> DEFINE st1 == Append(v, Base(c))
  <2>1. /\ stack' = [stack EXCEPT ![w] = st1] /\ deferred' = [deferred EXCEPT ![w] = df]
        /\ budget' = Take(Depth(w) + 1, c, budget)
    BY <1>7, <1>12 DEF VisitBase
  <2>2. /\ st1 \in Seq(Frame) /\ st1 # << >> /\ Len(st1) = Len(v) + 1
        /\ \A k \in 1..Len(v) : st1[k] = v[k]
        /\ st1[Len(v) + 1] = Base(c)
        /\ \A k \in 1..(Len(v) + 1) : st1[k].next >= 1
    <3> HIDE DEF v, c
    <3> QED
      BY <1>4, <1>5, <1>10, PushFacts
  <2> DEFINE e == Cost(pack, Len(st1), st1[Len(st1)].entry)
  <2>3. /\ HeldOf(pack, st1, Len(st1)) = HeldOf(pack, v, Len(v)) + e
        /\ HeldOf(pack, v, Len(v)) \in Int /\ e \in Nat
    <3> HIDE DEF v, c, st1
    <3>1. \A k \in 1..Len(v) : st1[k].entry = v[k].entry
      BY <2>2
    <3> QED
      BY <1>3, <1>4, <2>2, <3>1, HeldStep
  <2>4. e = pack.size[c]
    <3>1. Len(st1) = Depth(w) + 1 /\ Len(st1) # 1 /\ st1[Len(st1)] = Base(c)
      <4> HIDE DEF v, c, st1
      <4> QED
        BY <1>3, <1>4, <2>2
    <3> HIDE DEF v, c, st1
    <3> QED
      BY <3>1 DEF Cost, Base
  <2>5. budget' = budget - e /\ budget >= e
    <3>1. Depth(w) + 1 # 1
      BY <1>3
    <3> HIDE DEF v, c, st1, e
    <3> QED
      BY <1>12, <2>1, <2>4, <3>1 DEF Take, CanTake
  <2>6. Balances(st, pc[w], budget, st1, "spread", budget')
    <3> HIDE DEF st, v, c, st1, e
    <3>1. HeldBy(pack, st1, "spread") = HeldOf(pack, st1, Len(st1))
      BY HeldElsewhere
    <3> QED
      BY <1>2, <1>11, <2>3, <2>5, <3>1 DEF Balances
  <2>7. budget' \in Nat
    <3> HIDE DEF e
    <3> QED
      BY <1>2, <2>3, <2>5
  <2>8. \A k \in 1..Len(st1) : st1[k].next >= 1
    BY <2>2
  <2> HIDE DEF st1, c, v, e
  <2> QED
    BY <1>2, <1>6, <1>7, <1>8, <1>9, <2>1, <2>2, <2>6, <2>7, <2>8, WorkerStep DEF st
<1>13. CASE ~CanTake(Depth(w) + 1, c)
  <2> DEFINE df1 == Append(df, c)
  <2>1. stack' = [stack EXCEPT ![w] = v] /\ deferred' = [deferred EXCEPT ![w] = df1] /\ budget' = budget
    BY <1>13 DEF VisitBase
  <2>2. df1 \in Seq(Entries)
    <3> HIDE DEF df, c
    <3> QED
      BY <1>5, <1>7, AppendProperties
  <2>3. Balances(st, pc[w], budget, v, "spread", budget')
    <3> HIDE DEF st, v
    <3>1. HeldBy(pack, v, "spread") = HeldOf(pack, v, Len(v))
      BY HeldElsewhere
    <3> QED
      BY <1>11, <2>1, <3>1 DEF Balances
  <2>4. budget' \in Nat
    BY <1>2, <2>1
  <2> HIDE DEF df1, c, v
  <2> QED
    BY <1>2, <1>4, <1>6, <1>7, <1>8, <1>9, <1>10, <2>1, <2>2, <2>3, <2>4, WorkerStep DEF st
<1> QED
  BY <1>12, <1>13

LEMMA BooksHandOver ==
  ASSUME Books, NEW w \in Workers, HandOver(w)
  PROVE  Books'
<1> DEFINE st == stack[w]
           c == Child(w)
           e == Cost(pack, Depth(w), Top(w).entry)
<1>1. TypeOK /\ Placed /\ pc[w] = "spread" /\ ~Exhausted(w)
  BY DEF Books, HandOver
<1>2. st # << >> /\ phase = "walk" /\ budget \in Nat /\ next \in Nat
  BY <1>1, OnItsWay
<1>3. /\ st \in Seq(Frame) /\ Depth(w) = Len(st) /\ Depth(w) \in Nat /\ Depth(w) >= 1 /\ pack \in Layout
      /\ Top(w) = st[Depth(w)]
  BY <1>1, <1>2, TopFacts
<1>4. c \in Entries /\ NoEntry \notin Entries
  BY <1>1, <1>2, ChildFacts, DeltaWalkAssumption
<1>5. /\ delivered' \in [Entries -> Nat] /\ reported' \in [Entries -> Nat]
      /\ mismatch' \subseteq Entries /\ good' \in BOOLEAN
  <2>1. Finish(c)
    BY DEF HandOver
  <2> HIDE DEF c
  <2> QED
    BY <1>1, <1>4, <2>1, FinishType
<1>6. /\ stack' = [stack EXCEPT ![w] = st] /\ deferred' = [deferred EXCEPT ![w] = deferred[w]]
      /\ inHand' = [inHand EXCEPT ![w] = c] /\ pc' = [pc EXCEPT ![w] = "take"]
      /\ UNCHANGED <<pack, rotten, phase, sums>> /\ next' = next
      /\ budget' = Give(Depth(w), Top(w).entry)
  BY <1>1, <1>2, OnItsWay DEF HandOver
<1>7. budget' = budget + e
  BY <1>2, <1>6 DEF Give, Cost
<1>8. /\ HeldOf(pack, st, Len(st)) = HeldOf(pack, st, Len(st) - 1) + e
      /\ HeldOf(pack, st, Len(st) - 1) \in Int /\ e \in Nat
  <2> DEFINE n == Len(st) - 1
  <2>1. n \in Nat /\ n + 1 = Len(st)
    BY <1>3
  <2> HIDE DEF n, st
  <2>2. /\ HeldOf(pack, st, n + 1) = HeldOf(pack, st, n) + Cost(pack, n + 1, st[n + 1].entry)
        /\ HeldOf(pack, st, n) \in Int /\ Cost(pack, n + 1, st[n + 1].entry) \in Nat
    <3>1. n + 1 <= Len(st)
      BY <2>1
    <3> QED
      BY <1>3, <2>1, <3>1, HeldMore
  <2>3. e = Cost(pack, n + 1, st[n + 1].entry)
    BY <1>3, <2>1
  <2> HIDE DEF e
  <2> QED
    BY <2>1, <2>2, <2>3 DEF n
<1>9. Balances(st, pc[w], budget, st, "take", budget')
  <2>1. HeldBy(pack, st, pc[w]) = HeldOf(pack, st, Len(st))
    BY <1>1, HeldElsewhere
  <2>2. HeldBy(pack, st, "take") = HeldOf(pack, st, Len(st) - 1)
    BY DEF HeldBy
  <2> HIDE DEF e, st
  <2> QED
    BY <1>2, <1>7, <1>8, <2>1, <2>2 DEF Balances
<1>10. \A k \in 1..Len(st) : st[k].next >= 1
  BY <1>1 DEF Placed
<1>11. deferred[w] \in Seq(Entries) /\ "take" \in Places
  BY <1>1, OnItsWay DEF Places
<1>12. budget' \in Nat /\ next' \in Nat /\ next' >= next
  <2> HIDE DEF e
  <2> QED
    BY <1>2, <1>6, <1>7, <1>8
<1>13. c # NoEntry
  BY <1>4
<1> HIDE DEF c
<1> QED
  BY <1>2, <1>3, <1>4, <1>5, <1>6, <1>9, <1>10, <1>11, <1>12, <1>13, WorkerStep DEF st

\* A stack with another base on top.
LEMMA SwapFacts ==
  ASSUME NEW st \in Seq(Frame), st # << >>, NEW c \in Entries,
         \A k \in 1..Len(st) : st[k].next >= 1
  PROVE  /\ [st EXCEPT ![Len(st)] = Base(c)] \in Seq(Frame)
         /\ [st EXCEPT ![Len(st)] = Base(c)] # << >>
         /\ Len([st EXCEPT ![Len(st)] = Base(c)]) = Len(st)
         /\ \A k \in 1..(Len(st) - 1) : [st EXCEPT ![Len(st)] = Base(c)][k] = st[k]
         /\ [st EXCEPT ![Len(st)] = Base(c)][Len(st)] = Base(c)
         /\ \A k \in 1..Len(st) : [st EXCEPT ![Len(st)] = Base(c)][k].next >= 1
<1> DEFINE b == Base(c)
           n == Len(st)
           t == [st EXCEPT ![n] = b]
<1>1. b \in Frame /\ b.next = 1
  BY DEF Base, Frame
<1>2. n \in Nat /\ n >= 1
  BY FrontFacts
<1> HIDE DEF b, n
<1>3. t \in Seq(Frame) /\ Len(t) = n /\ n \in 1..n
  BY <1>1, <1>2 DEF n
<1>4. \A k \in 1..n : t[k] = IF k = n THEN b ELSE st[k]
  BY <1>1, <1>2 DEF n
<1> HIDE DEF t
<1>5. t # << >>
  BY <1>2, <1>3
<1>6. t[n] = b
  BY <1>3, <1>4
<1>7. \A k \in 1..(n - 1) : t[k] = st[k]
  BY <1>2, <1>4
<1>8. \A k \in 1..n : t[k].next >= 1
  BY <1>1, <1>4 DEF n
<1> QED
  BY <1>3, <1>5, <1>6, <1>7, <1>8 DEF t, b, n

LEMMA BooksTakeOver ==
  ASSUME Books, NEW w \in Workers, TakeOver(w)
  PROVE  Books'
<1> DEFINE st == stack[w]
           c == inHand[w]
           df == deferred[w]
           f == Front(st)
<1>1. TypeOK /\ Placed /\ pc[w] = "take"
  BY DEF Books, TakeOver
<1>2. /\ st # << >> /\ phase = "walk" /\ budget \in Nat /\ next \in Nat
      /\ c \in Entries /\ df \in Seq(Entries) /\ deferred = [deferred EXCEPT ![w] = df]
  BY <1>1, OnItsWay
<1>3. st \in Seq(Frame) /\ Depth(w) = Len(st) /\ Depth(w) \in Nat /\ Depth(w) >= 1 /\ pack \in Layout
  BY <1>1, <1>2, TopFacts
<1>4. \A k \in 1..Len(st) : st[k].next >= 1
  BY <1>1 DEF Placed
<1>5. /\ delivered' \in [Entries -> Nat] /\ reported' \in [Entries -> Nat]
      /\ mismatch' \subseteq Entries /\ good' \in BOOLEAN
  BY <1>1, SameResultsType DEF TakeOver
<1>6. /\ inHand' = [inHand EXCEPT ![w] = NoEntry] /\ pc' = [pc EXCEPT ![w] = "spread"]
      /\ UNCHANGED <<pack, rotten, phase, sums>> /\ next' = next
  BY DEF TakeOver
<1>7. /\ f \in Seq(Frame) /\ Len(f) = Len(st) - 1
      /\ \A k \in 1..(Len(st) - 1) : k \in 1..Len(st) /\ f[k] = st[k]
  BY <1>2, <1>3, FrontFacts
<1>8. NoEntry \in Entries \cup {NoEntry} /\ "spread" \in Places /\ "drain" \in Places
  BY DEF Places
<1>9. next' \in Nat /\ next' >= next
  BY <1>2, <1>6
<1>10. HeldBy(pack, st, pc[w]) = HeldOf(pack, f, Len(f)) /\ HeldOf(pack, f, Len(f)) \in Int
  <2>1. HeldBy(pack, st, pc[w]) = HeldOf(pack, st, Len(st) - 1)
    BY <1>1 DEF HeldBy
  <2> HIDE DEF st, f
  <2>2. Len(st) = Len(f) + 1 /\ \A k \in 1..Len(f) : st[k].entry = f[k].entry
    BY <1>3, <1>7
  <2>3. HeldOf(pack, st, Len(st) - 1) = HeldOf(pack, f, Len(f)) /\ HeldOf(pack, f, Len(f)) \in Int
    BY <1>3, <1>7, <2>2, HeldStep
  <2> QED
    BY <2>1, <2>3
<1>11. CASE CanTake(Depth(w), c)
  <2> DEFINE st1 == [st EXCEPT ![Len(st)] = Base(c)]
             e == Cost(pack, Len(st1), st1[Len(st1)].entry)
  <2>1. /\ stack' = [stack EXCEPT ![w] = st1] /\ deferred' = [deferred EXCEPT ![w] = df]
        /\ budget' = Take(Depth(w), c, budget)
    <3>1. /\ stack' = [stack EXCEPT ![w] = [@ EXCEPT ![Depth(w)] = Base(c)]]
          /\ deferred' = deferred /\ budget' = Take(Depth(w), c, budget)
      BY <1>11 DEF TakeOver
    <3>2. stack' = [stack EXCEPT ![w] = st1]
      BY <1>3, <3>1
    <3> QED
      BY <1>2, <3>1, <3>2
  <2>2. /\ st1 \in Seq(Frame) /\ st1 # << >> /\ Len(st1) = Len(st)
        /\ \A k \in 1..(Len(st) - 1) : st1[k] = st[k]
        /\ st1[Len(st)] = Base(c)
        /\ \A k \in 1..Len(st) : st1[k].next >= 1
    <3> HIDE DEF st, c
    <3> QED
      BY <1>2, <1>3, <1>4, SwapFacts
  <2>3. HeldOf(pack, st1, Len(st1)) = HeldOf(pack, f, Len(f)) + e /\ e \in Nat
    <3> HIDE DEF st, c, st1, f
    <3>0. 1..Len(f) = 1..(Len(st) - 1) /\ Len(st1) = Len(f) + 1
      BY <1>3, <1>7, <2>2
    <3>1. Len(st1) = Len(f) + 1 /\ \A k \in 1..Len(f) : st1[k].entry = f[k].entry
      BY <1>7, <2>2, <3>0
    <3> QED
      BY <1>3, <1>7, <2>2, <3>1, HeldStep
  <2>4. e = Cost(pack, Depth(w), c)
    <3> HIDE DEF st, c, st1
    <3> QED
      BY <1>3, <2>2 DEF Base
  <2>5. budget' = budget - e /\ budget >= e
    <3> HIDE DEF st1, c, e
    <3>1. CASE Depth(w) = 1
      BY <1>2, <1>11, <2>1, <2>4, <3>1 DEF Take, CanTake, Cost
    <3>2. CASE Depth(w) # 1
      BY <1>2, <1>11, <2>1, <2>4, <3>2 DEF Take, CanTake, Cost
    <3> QED
      BY <3>1, <3>2
  <2>6. Balances(st, pc[w], budget, st1, "spread", budget')
    <3> HIDE DEF st, c, st1, e, f
    <3>1. HeldBy(pack, st1, "spread") = HeldOf(pack, st1, Len(st1))
      BY HeldElsewhere
    <3> QED
      BY <1>2, <1>10, <2>3, <2>5, <3>1 DEF Balances
  <2>7. budget' \in Nat
    <3> HIDE DEF e
    <3> QED
      BY <1>2, <2>3, <2>5
  <2>8. \A k \in 1..Len(st1) : st1[k].next >= 1
    BY <2>2
  <2> HIDE DEF st1, c, e
  <2> QED
    BY <1>2, <1>5, <1>6, <1>8, <1>9, <2>1, <2>2, <2>6, <2>7, <2>8, WorkerStep DEF st
<1>12. CASE ~CanTake(Depth(w), c)
  <2> DEFINE df1 == Append(df, c)
  <2>1. stack' = [stack EXCEPT ![w] = f] /\ deferred' = [deferred EXCEPT ![w] = df1] /\ budget' = budget
    BY <1>12 DEF TakeOver
  <2>2. df1 \in Seq(Entries)
    <3> HIDE DEF df, c
    <3> QED
      BY <1>2, AppendProperties
  <2>3. Balances(st, pc[w], budget, f, "spread", budget')
    <3> HIDE DEF st, f
    <3>1. HeldBy(pack, f, "spread") = HeldOf(pack, f, Len(f))
      BY HeldElsewhere
    <3> QED
      BY <1>10, <2>1, <3>1 DEF Balances
  <2>4. Depth(w) # 1
    BY <1>12 DEF CanTake
  <2>5. f # << >>
    <3> HIDE DEF f, st
    <3>1. Len(f) # 0
      BY <1>3, <1>7, <2>4
    <3> QED
      BY <1>7, <3>1, EmptySeq
  <2>6. \A k \in 1..Len(f) : f[k].next >= 1
    <3> HIDE DEF f, st
    <3>1. 1..Len(f) = 1..(Len(st) - 1)
      BY <1>7
    <3> QED
      BY <1>4, <1>7, <3>1
  <2>7. budget' \in Nat
    BY <1>2, <2>1
  <2> HIDE DEF f, df1, c
  <2> QED
    BY <1>2, <1>5, <1>6, <1>7, <1>8, <1>9, <2>1, <2>2, <2>3, <2>5, <2>6, <2>7, WorkerStep DEF st
<1> QED
  BY <1>11, <1>12

LEMMA BottomFacts ==
  ASSUME NEW i \in Entries
  PROVE  /\ <<Base(i)>> \in Seq(Frame) /\ <<Base(i)>> # << >> /\ Len(<<Base(i)>>) = 1
         /\ <<Base(i)>>[1] = Base(i)
         /\ \A k \in 1..Len(<<Base(i)>>) : <<Base(i)>>[k].next >= 1
<1> DEFINE b == Base(i)
<1>1. b \in Frame /\ b.next = 1
  BY DEF Base, Frame
<1> HIDE DEF b
<1>2. <<b>> \in Seq(Frame) /\ <<b>> # << >> /\ Len(<<b>>) = 1 /\ <<b>>[1] = b
  BY <1>1
<1>3. \A k \in 1..Len(<<b>>) : <<b>>[k].next >= 1
  BY <1>1, <1>2
<1> QED
  BY <1>2, <1>3 DEF b

LEMMA BooksRebuild ==
  ASSUME Books, NEW w \in Workers, Rebuild(w)
  PROVE  Books'
<1> DEFINE st == stack[w]
           df == deferred[w]
           f == Front(df)
           d == Last(df)
<1>1. TypeOK /\ Placed /\ pc[w] = "drain" /\ df # << >>
  BY DEF Books, Rebuild
<1>2. /\ st = << >> /\ phase = "walk" /\ budget \in Nat /\ next \in Nat /\ inHand[w] = NoEntry
      /\ df \in Seq(Entries) /\ pack \in Layout
      /\ inHand = [inHand EXCEPT ![w] = NoEntry] /\ stack = [stack EXCEPT ![w] = << >>]
      /\ pc = [pc EXCEPT ![w] = "drain"]
  BY <1>1, OnItsWay
<1>3. f \in Seq(Entries) /\ d \in Entries
  BY <1>1, <1>2, FrontFacts
<1>4. /\ inHand' = [inHand EXCEPT ![w] = NoEntry] /\ deferred' = [deferred EXCEPT ![w] = f]
      /\ UNCHANGED <<pack, rotten, phase, sums, budget>> /\ next' = next
  BY <1>2 DEF Rebuild
<1>5. NoEntry \in Entries \cup {NoEntry} /\ "spread" \in Places /\ "drain" \in Places
  BY DEF Places
<1>6. next' \in Nat /\ next' >= next /\ budget' \in Nat
  BY <1>2, <1>4
<1>7. HeldBy(pack, st, pc[w]) = 0
  BY <1>1, <1>2, NothingHeld
<1>8. CASE Chain(d) \ {0} \subseteq Decodable
  <2> DEFINE st1 == <<Base(d)>>
  <2>1. /\ stack' = [stack EXCEPT ![w] = st1] /\ pc' = [pc EXCEPT ![w] = "spread"] /\ UNCHANGED results
    BY <1>8 DEF Rebuild
  <2>2. /\ delivered' \in [Entries -> Nat] /\ reported' \in [Entries -> Nat]
        /\ mismatch' \subseteq Entries /\ good' \in BOOLEAN
    BY <1>1, <2>1, SameResultsType
  <2>3. st1 \in Seq(Frame) /\ st1 # << >> /\ \A k \in 1..Len(st1) : st1[k].next >= 1
    <3> HIDE DEF d
    <3> QED
      BY <1>3, BottomFacts
  <2>4. HeldBy(pack, st1, "spread") = 0
    <3> HIDE DEF d
    <3> QED
      BY <1>2, <1>3, BottomHeld
  <2>5. Balances(st, pc[w], budget, st1, "spread", budget')
    <3> HIDE DEF st, st1
    <3> QED
      BY <1>4, <1>7, <2>4 DEF Balances
  <2> HIDE DEF st1, f
  <2> QED
    BY <1>2, <1>3, <1>4, <1>5, <1>6, <2>1, <2>2, <2>3, <2>5, WorkerStep DEF st
<1>9. CASE ~(Chain(d) \ {0} \subseteq Decodable)
  <2> DEFINE st1 == << >>
  <2>1. /\ stack' = [stack EXCEPT ![w] = st1] /\ pc' = [pc EXCEPT ![w] = "drain"] /\ Report(Subtree(d))
    BY <1>2, <1>9 DEF Rebuild
  <2>2. /\ delivered' \in [Entries -> Nat] /\ reported' \in [Entries -> Nat]
        /\ mismatch' \subseteq Entries /\ good' \in BOOLEAN
    BY <1>1, <2>1, ReportType
  <2>3. st1 \in Seq(Frame) /\ st1 = << >> /\ \A k \in 1..Len(st1) : st1[k].next >= 1
    OBVIOUS
  <2>4. Balances(st, pc[w], budget, st1, "drain", budget')
    BY <1>1, <1>2, <1>4 DEF Balances
  <2> HIDE DEF st1, f
  <2> QED
    BY <1>2, <1>3, <1>4, <1>5, <1>6, <2>1, <2>2, <2>3, <2>4, WorkerStep DEF st
<1> QED
  BY <1>8, <1>9

LEMMA BooksEndChain ==
  ASSUME Books, NEW w \in Workers, EndChain(w)
  PROVE  Books'
<1> DEFINE st1 == << >>
<1>1. TypeOK /\ Placed /\ pc[w] = "drain" /\ deferred[w] = << >>
  BY DEF Books, EndChain
<1>2. /\ stack[w] = st1 /\ phase = "walk" /\ budget \in Nat /\ next \in Nat /\ inHand[w] = NoEntry
      /\ deferred[w] \in Seq(Entries) /\ pack \in Layout
      /\ inHand = [inHand EXCEPT ![w] = NoEntry] /\ stack = [stack EXCEPT ![w] = st1]
      /\ deferred = [deferred EXCEPT ![w] = deferred[w]]
  BY <1>1, OnItsWay
<1>3. /\ inHand' = [inHand EXCEPT ![w] = NoEntry] /\ deferred' = [deferred EXCEPT ![w] = deferred[w]]
      /\ stack' = [stack EXCEPT ![w] = st1] /\ pc' = [pc EXCEPT ![w] = "claim"]
      /\ UNCHANGED <<pack, rotten, phase, sums, budget>> /\ next' = next
  BY <1>2 DEF EndChain, walks
<1>4. /\ delivered' \in [Entries -> Nat] /\ reported' \in [Entries -> Nat]
      /\ mismatch' \subseteq Entries /\ good' \in BOOLEAN
  BY <1>1, SameResultsType DEF EndChain
<1>5. NoEntry \in Entries \cup {NoEntry} /\ "claim" \in Places
  BY DEF Places
<1>6. next' \in Nat /\ next' >= next /\ budget' \in Nat
  BY <1>2, <1>3
<1>7. Balances(stack[w], pc[w], budget, st1, "claim", budget')
  <2>1. HeldBy(pack, stack[w], pc[w]) = 0 /\ HeldBy(pack, st1, "claim") = 0
    BY <1>1, <1>2, NothingHeld
  <2> QED
    BY <1>3, <2>1 DEF Balances
<1>8. st1 \in Seq(Frame) /\ st1 = << >> /\ \A k \in 1..Len(st1) : st1[k].next >= 1
  OBVIOUS
<1> HIDE DEF st1
<1> QED
  BY <1>1, <1>2, <1>3, <1>4, <1>5, <1>6, <1>7, <1>8, WorkerStep

\* A worker that claims.
LEMMA Claiming ==
  ASSUME Books, NEW w \in Workers, pc[w] = "claim"
  PROVE  /\ stack[w] = << >> /\ deferred[w] = << >> /\ inHand[w] = NoEntry
         /\ budget \in Nat /\ next \in Nat /\ pack \in Layout
         /\ stack = [stack EXCEPT ![w] = << >>] /\ deferred = [deferred EXCEPT ![w] = << >>]
         /\ inHand = [inHand EXCEPT ![w] = NoEntry] /\ pc = [pc EXCEPT ![w] = "claim"]
         /\ HeldBy(pack, stack[w], pc[w]) = 0
         /\ << >> \in Seq(Entries) /\ << >> \in Seq(Frame)
         /\ NoEntry \in Entries \cup {NoEntry} /\ {"claim", "left", "spread"} \subseteq Places
         /\ TypeOK
<1>1. TypeOK /\ Placed /\ Phased
  BY DEF Books
<1>2. /\ pack \in Layout /\ budget \in Nat /\ next \in Nat
      /\ stack \in [Workers -> Seq(Frame)] /\ deferred \in [Workers -> Seq(Entries)]
      /\ inHand \in [Workers -> Entries \cup {NoEntry}] /\ pc \in [Workers -> Places]
  BY <1>1 DEF TypeOK, Places
<1>3. stack[w] = << >> /\ deferred[w] = << >> /\ inHand[w] = NoEntry
  BY <1>1 DEF Placed
<1>4. /\ stack = [stack EXCEPT ![w] = << >>] /\ deferred = [deferred EXCEPT ![w] = << >>]
      /\ inHand = [inHand EXCEPT ![w] = NoEntry] /\ pc = [pc EXCEPT ![w] = "claim"]
  BY <1>2, <1>3
<1>5. HeldBy(pack, stack[w], pc[w]) = 0
  BY <1>3, NothingHeld
<1>6. << >> \in Seq(Entries) /\ << >> \in Seq(Frame)
  OBVIOUS
<1>7. {"claim", "left", "spread"} \subseteq Places
  BY DEF Places
<1> QED
  BY <1>1, <1>2, <1>3, <1>4, <1>5, <1>6, <1>7

LEMMA BooksCheckBatch ==
  ASSUME Books, NEW w \in Workers, CheckBatch(w)
  PROVE  Books'
<1> DEFINE none == << >>
           here == IF next >= N THEN "left" ELSE "claim"
<1>1. pc[w] = "claim" /\ phase = "crc"
  BY DEF CheckBatch
<1>2. /\ stack = [stack EXCEPT ![w] = none] /\ deferred = [deferred EXCEPT ![w] = none]
      /\ inHand = [inHand EXCEPT ![w] = NoEntry] /\ pc = [pc EXCEPT ![w] = "claim"]
      /\ budget \in Nat /\ next \in Nat /\ pack \in Layout /\ stack[w] = none
      /\ none \in Seq(Entries) /\ none \in Seq(Frame) /\ NoEntry \in Entries \cup {NoEntry}
      /\ HeldBy(pack, stack[w], pc[w]) = 0 /\ TypeOK /\ {"claim", "left", "spread"} \subseteq Places
  BY <1>1, Claiming
<1>3. /\ inHand' = [inHand EXCEPT ![w] = NoEntry] /\ deferred' = [deferred EXCEPT ![w] = none]
      /\ stack' = [stack EXCEPT ![w] = none]
      /\ UNCHANGED <<pack, rotten, phase, sums, budget>> /\ next' = next + Batch
  BY <1>2 DEF CheckBatch, walks
<1>4. pc' = [pc EXCEPT ![w] = here]
  <2>1. CASE next >= N
    BY <2>1 DEF CheckBatch
  <2>2. CASE ~(next >= N)
    BY <1>2, <2>2 DEF CheckBatch
  <2> QED
    BY <2>1, <2>2
<1>5. here \in {"left", "claim"} /\ (here = "left" => next >= N) /\ here \in Places
  BY <1>2
<1>6. next' \in Nat /\ next' >= next /\ budget' \in Nat /\ (here = "left" => next' >= N)
  BY <1>2, <1>3, <1>5, DeltaWalkAssumption
<1>7. Balances(stack[w], pc[w], budget, none, here, budget')
  <2>1. HeldBy(pack, none, here) = 0
    BY <1>5, NothingHeld
  <2> HIDE DEF here, none
  <2> QED
    BY <1>2, <1>3, <2>1 DEF Balances
<1>8. /\ delivered' \in [Entries -> Nat] /\ reported' \in [Entries -> Nat] /\ mismatch' \subseteq Entries
  <2>1. /\ delivered \in [Entries -> Nat] /\ reported \in [Entries -> Nat] /\ mismatch \subseteq Entries
    BY <1>2 DEF TypeOK
  <2> QED
    BY <2>1 DEF CheckBatch
<1>9. good' \in BOOLEAN
  BY DEF CheckBatch
<1>10. none = << >> /\ \A k \in 1..Len(none) : none[k].next >= 1
  OBVIOUS
<1> HIDE DEF here, none
<1> QED
  BY <1>1, <1>2, <1>3, <1>4, <1>5, <1>6, <1>7, <1>8, <1>9, <1>10, WorkerStep

LEMMA BooksClaim ==
  ASSUME Books, NEW w \in Workers, Claim(w)
  PROVE  Books'
<1> DEFINE none == << >>
           i == next + 1
           opened == <<Base(i)>>
<1>1. pc[w] = "claim" /\ phase = "walk"
  BY DEF Claim
<1>2. /\ stack = [stack EXCEPT ![w] = none] /\ deferred = [deferred EXCEPT ![w] = none]
      /\ inHand = [inHand EXCEPT ![w] = NoEntry] /\ pc = [pc EXCEPT ![w] = "claim"]
      /\ budget \in Nat /\ next \in Nat /\ pack \in Layout /\ stack[w] = none
      /\ none \in Seq(Entries) /\ none \in Seq(Frame) /\ NoEntry \in Entries \cup {NoEntry}
      /\ HeldBy(pack, stack[w], pc[w]) = 0 /\ TypeOK /\ {"claim", "left", "spread"} \subseteq Places
  BY <1>1, Claiming
<1>3. /\ inHand' = [inHand EXCEPT ![w] = NoEntry] /\ deferred' = [deferred EXCEPT ![w] = none]
      /\ UNCHANGED <<pack, rotten, phase, sums, budget>> /\ next' = next + 1
  BY <1>2 DEF Claim
<1>4. next' \in Nat /\ next' >= next /\ budget' \in Nat
  BY <1>2, <1>3
<1>5. none = << >> /\ \A k \in 1..Len(none) : none[k].next >= 1
  OBVIOUS
\* What the step does: the worker leaves, goes on, or starts with a root.
<1>6. /\ delivered' \in [Entries -> Nat] /\ reported' \in [Entries -> Nat]
      /\ mismatch' \subseteq Entries /\ good' \in BOOLEAN
  <2>1. CASE UNCHANGED results
    BY <1>2, <2>1, SameResultsType
  <2>2. CASE i \in Entries /\ Finish(i)
    <3> HIDE DEF i
    <3> QED
      BY <1>2, <2>2, FinishType
  <2>3. CASE Report(Subtree(i))
    BY <1>2, <2>3, ReportType
  <2>4. i \in (Roots \ Bad) \cap Decodable => i \in Entries
    BY DEF Roots
  <2> QED
    BY <2>1, <2>2, <2>3, <2>4 DEF Claim
<1>7. \/ stack' = [stack EXCEPT ![w] = none] /\ pc' = [pc EXCEPT ![w] = "left"] /\ next >= N
      \/ stack' = [stack EXCEPT ![w] = none] /\ pc' = [pc EXCEPT ![w] = "claim"]
      \/ stack' = [stack EXCEPT ![w] = opened] /\ pc' = [pc EXCEPT ![w] = "spread"] /\ i \in Entries
  <2>1. i \in (Roots \ Bad) \cap Decodable => i \in Entries
    BY DEF Roots
  <2> QED
    BY <1>2, <2>1 DEF Claim
<1>8. CASE stack' = [stack EXCEPT ![w] = none] /\ pc' = [pc EXCEPT ![w] = "left"] /\ next >= N
  <2>1. HeldBy(pack, none, "left") = 0
    BY NothingHeld
  <2>2. Balances(stack[w], pc[w], budget, none, "left", budget')
    BY <1>2, <1>3, <2>1 DEF Balances
  <2>3. next' >= N
    BY <1>2, <1>3, <1>8, DeltaWalkAssumption
  <2> HIDE DEF none
  <2> QED
    BY <1>1, <1>2, <1>3, <1>4, <1>5, <1>6, <1>8, <2>2, <2>3, WorkerStep
<1>9. CASE stack' = [stack EXCEPT ![w] = none] /\ pc' = [pc EXCEPT ![w] = "claim"]
  <2>1. HeldBy(pack, none, "claim") = 0
    BY NothingHeld
  <2>2. Balances(stack[w], pc[w], budget, none, "claim", budget')
    BY <1>2, <1>3, <2>1 DEF Balances
  <2> HIDE DEF none
  <2> QED
    BY <1>1, <1>2, <1>3, <1>4, <1>5, <1>6, <1>9, <2>2, WorkerStep
<1>10. CASE stack' = [stack EXCEPT ![w] = opened] /\ pc' = [pc EXCEPT ![w] = "spread"] /\ i \in Entries
  <2> HIDE DEF i
  <2>1. HeldBy(pack, opened, "spread") = 0
    BY <1>2, <1>10, BottomHeld
  <2>2. opened \in Seq(Frame) /\ opened # << >> /\ \A k \in 1..Len(opened) : opened[k].next >= 1
    BY <1>10, BottomFacts
  <2>3. Balances(stack[w], pc[w], budget, opened, "spread", budget')
    <3> HIDE DEF opened
    <3> QED
      BY <1>2, <1>3, <2>1 DEF Balances
  <2> HIDE DEF opened, none
  <2> QED
    BY <1>1, <1>2, <1>3, <1>4, <1>5, <1>6, <1>10, <2>2, <2>3, WorkerStep
<1> QED
  BY <1>7, <1>8, <1>9, <1>10

\* Where nothing is walked, what is said of the stacks and of the budget stays.
LEMMA OthersStep ==
  ASSUME Books, UNCHANGED <<walks, budget>>, pack' = pack, Phased', TypeOK',
         \A w \in Workers : pc'[w] # pc[w] =>
           {pc[w], pc'[w]} \subseteq {"idle", "claim", "left"}
  PROVE  Books'
<1>1. TypeOK /\ Placed /\ BudgetExact
  BY DEF Books
<1>2. stack' = stack /\ deferred' = deferred /\ inHand' = inHand /\ budget' = budget
  BY DEF walks
<1>3. Placed'
  <2> SUFFICES ASSUME NEW w \in Workers
               PROVE  /\ pc'[w] \in {"spread", "take"} <=> stack[w] # << >>
                      /\ pc'[w] = "take" <=> inHand[w] # NoEntry
                      /\ pc'[w] \in {"idle", "claim", "left"} => deferred[w] = << >>
                      /\ \A k \in 1..Len(stack[w]) : stack[w][k].next >= 1
    BY <1>2 DEF Placed
  <2>1. /\ pc[w] \in {"spread", "take"} <=> stack[w] # << >>
        /\ pc[w] = "take" <=> inHand[w] # NoEntry
        /\ pc[w] \in {"idle", "claim", "left"} => deferred[w] = << >>
        /\ \A k \in 1..Len(stack[w]) : stack[w][k].next >= 1
    BY <1>1 DEF Placed
  <2> QED
    BY <2>1
<1>4. BudgetExact'
  <2>1. ASSUME NEW v \in Workers PROVE HeldBy(pack', stack'[v], pc'[v]) = HeldBy(pack, stack[v], pc[v])
    <3>1. CASE pc'[v] = pc[v]
      BY <1>2, <3>1
    <3>2. CASE pc'[v] # pc[v]
      <4>1. pc[v] # "take" /\ pc'[v] # "take"
        BY <3>2
      <4> QED
        BY <1>2, <4>1 DEF HeldBy
    <3> QED
      BY <3>1, <3>2
  <2>2. [v \in Workers |-> HeldBy(pack', stack'[v], pc'[v])] =
          [v \in Workers |-> HeldBy(pack, stack[v], pc[v])]
    BY <2>1
  <2> QED
    BY <1>1, <1>2, <2>2, BudgetIs, BudgetIsNext
<1> QED
  BY <1>3, <1>4 DEF Books

LEMMA BooksInit == Init => Books
<1> SUFFICES ASSUME Init PROVE Books
  OBVIOUS
<1>1. TypeOK
  <2>1. /\ pack \in Layout /\ rotten = {} /\ phase = "open" /\ sums = "none" /\ next = 0
        /\ budget = Budget /\ Budget \in Nat /\ mismatch = {} /\ good = TRUE
    BY DeltaWalkAssumption DEF Init
  <2>2. pc \in [Workers -> Places] /\ inHand \in [Workers -> Entries \cup {NoEntry}]
    BY DEF Init, Places
  <2>3. stack \in [Workers -> Seq(Frame)] /\ deferred \in [Workers -> Seq(Entries)]
    BY DEF Init
  <2>4. delivered \in [Entries -> Nat] /\ reported \in [Entries -> Nat]
    BY DEF Init
  <2> QED
    BY <2>1, <2>2, <2>3, <2>4 DEF TypeOK, Places
<1>2. Placed
  <2> SUFFICES ASSUME NEW w \in Workers
               PROVE  /\ pc[w] \in {"spread", "take"} <=> stack[w] # << >>
                      /\ pc[w] = "take" <=> inHand[w] # NoEntry
                      /\ pc[w] \in {"idle", "claim", "left"} => deferred[w] = << >>
                      /\ \A k \in 1..Len(stack[w]) : stack[w][k].next >= 1
    BY DEF Placed
  <2>1. pc[w] = "idle" /\ stack[w] = << >> /\ deferred[w] = << >> /\ inHand[w] = NoEntry
    BY DEF Init
  <2> QED
    BY <2>1
<1>3. Phased
  BY DEF Init, Phased
<1>4. BudgetExact
  <2> DEFINE r == [v \in Workers |-> HeldBy(pack, stack[v], pc[v])]
  <2>1. \A v \in Workers : stack[v] = << >> /\ pc[v] # "take"
    BY DEF Init
  <2>2. \A v \in Workers : r[v] = 0
    BY <2>1, NothingHeld
  <2> HIDE DEF r
  <2>3. SumOf(r) = 0
    BY <2>2, SumOfNone
  <2>4. budget = Budget /\ Budget \in Nat
    BY DeltaWalkAssumption DEF Init
  <2>5. budget + SumOf(r) = Budget
    BY <2>3, <2>4
  <2> QED
    BY <2>5, BudgetIs DEF r
<1> QED
  BY <1>1, <1>2, <1>3, <1>4 DEF Books

\* What the types of the rest say when a step leaves the walks alone.
LEMMA RestType ==
  ASSUME TypeOK, UNCHANGED <<pack, walks, budget>>, rotten' \subseteq Entries,
         phase' \in {"open", "layout", "crc", "walk", "over"},
         sums' \in {"none", "hashing", "match", "differ"}, next' \in Nat, pc' \in [Workers -> Places],
         delivered' \in [Entries -> Nat], reported' \in [Entries -> Nat],
         mismatch' \subseteq Entries, good' \in BOOLEAN
  PROVE  TypeOK'
<1>1. /\ pack' \in Layout /\ stack' \in [Workers -> Seq(Frame)] /\ deferred' \in [Workers -> Seq(Entries)]
      /\ inHand' \in [Workers -> Entries \cup {NoEntry}] /\ budget' \in Nat
  BY DEF TypeOK, walks
<1> QED
  BY <1>1 DEF TypeOK, Places

LEMMA BooksOpenPack ==
  ASSUME Books, OpenPack
  PROVE  Books'
<1>1. TypeOK /\ Phased
  BY DEF Books
<1>2. good' \in BOOLEAN
  <2>1. pack.idxSum \in BOOLEAN
    BY <1>1 DEF TypeOK, Layout
  <2> QED
    BY <2>1 DEF OpenPack
<1>3. TypeOK'
  <2>1. /\ sums \in {"none", "hashing", "match", "differ"} /\ rotten \subseteq Entries /\ next \in Nat
        /\ pc \in [Workers -> Places]
        /\ delivered \in [Entries -> Nat] /\ reported \in [Entries -> Nat] /\ mismatch \subseteq Entries
    BY <1>1 DEF TypeOK, Places
  <2>2. /\ sums' \in {"none", "hashing", "match", "differ"}
        /\ phase' \in {"open", "layout", "crc", "walk", "over"}
        /\ UNCHANGED <<pack, rotten, next, pc, walks, budget, delivered, reported, mismatch>>
    BY <2>1 DEF OpenPack
  <2> QED
    BY <1>1, <1>2, <2>1, <2>2, RestType
<1>4. Phased'
  <2>1. \A w \in Workers : pc[w] = "idle"
    BY <1>1 DEF Phased, OpenPack
  <2>2. pc' = pc /\ pack' = pack /\ next' = next
    BY DEF OpenPack
  <2>3. CASE pack.opens # "yes"
    <3>1. phase' = "over"
      BY <2>3 DEF OpenPack
    <3> QED
      BY <2>1, <2>2, <2>3, <3>1 DEF Phased
  <2>4. CASE pack.opens = "yes"
    <3>1. phase' = "layout"
      BY <2>4 DEF OpenPack
    <3> QED
      BY <2>1, <2>2, <2>4, <3>1 DEF Phased
  <2> QED
    BY <2>3, <2>4
<1>5. UNCHANGED <<walks, budget>> /\ pack' = pack /\ pc' = pc
  BY DEF OpenPack
<1> QED
  BY <1>3, <1>4, <1>5, OthersStep

LEMMA BooksHashPack ==
  ASSUME Books, HashPack
  PROVE  Books'
<1>1. TypeOK /\ Phased
  BY DEF Books
<1>2. /\ UNCHANGED <<pack, rotten, phase, next, pc, walks, budget, results>>
      /\ sums' \in {"match", "differ"}
  BY DEF HashPack
<1>3. /\ delivered' \in [Entries -> Nat] /\ reported' \in [Entries -> Nat]
      /\ mismatch' \subseteq Entries /\ good' \in BOOLEAN
  BY <1>1, <1>2, SameResultsType
<1>4. TypeOK'
  <2>1. /\ rotten \subseteq Entries /\ next \in Nat /\ pc \in [Workers -> Places]
        /\ phase \in {"open", "layout", "crc", "walk", "over"}
    BY <1>1 DEF TypeOK, Places
  <2> QED
    BY <1>1, <1>2, <1>3, <2>1, RestType
<1>5. Phased'
  BY <1>1, <1>2 DEF Phased
<1> QED
  BY <1>2, <1>4, <1>5, OthersStep

LEMMA BooksRot ==
  ASSUME Books, Rot
  PROVE  Books'
<1>1. TypeOK /\ Phased
  BY DEF Books
<1>2. UNCHANGED <<pack, phase, sums, next, pc, walks, budget, results>>
  BY DEF Rot
<1>3. /\ delivered' \in [Entries -> Nat] /\ reported' \in [Entries -> Nat]
      /\ mismatch' \subseteq Entries /\ good' \in BOOLEAN
  BY <1>1, <1>2, SameResultsType
<1>4. rotten' \subseteq Entries
  <2>1. pack.fragile \subseteq Entries /\ rotten \subseteq Entries
    BY <1>1 DEF TypeOK, Layout
  <2> QED
    BY <2>1 DEF Rot
<1>5. TypeOK'
  <2>1. /\ sums \in {"none", "hashing", "match", "differ"} /\ next \in Nat /\ pc \in [Workers -> Places]
        /\ phase \in {"open", "layout", "crc", "walk", "over"}
    BY <1>1 DEF TypeOK, Places
  <2> QED
    BY <1>1, <1>2, <1>3, <1>4, <2>1, RestType
<1>6. Phased'
  BY <1>1, <1>2 DEF Phased
<1> QED
  BY <1>2, <1>5, <1>6, OthersStep

LEMMA BooksReportBad ==
  ASSUME Books, ReportBad
  PROVE  Books'
<1>1. TypeOK /\ Phased /\ phase = "layout" /\ pack.opens = "yes"
  BY DEF Books, ReportBad, Phased
<1>2. /\ UNCHANGED <<pack, rotten, sums, walks, budget>>
      /\ phase' = "crc" /\ next' = 0 /\ pc' = [w \in Workers |-> "claim"]
      /\ Report(UNION {Subtree(i) : i \in Bad})
  BY DEF ReportBad
<1>3. /\ delivered' \in [Entries -> Nat] /\ reported' \in [Entries -> Nat]
      /\ mismatch' \subseteq Entries /\ good' \in BOOLEAN
  <2> DEFINE T == UNION {Subtree(i) : i \in Bad}
  <2>1. Report(T)
    BY <1>2
  <2> HIDE DEF T
  <2> QED
    BY <1>1, <2>1, ReportType
<1>4. TypeOK'
  <2>1. /\ sums \in {"none", "hashing", "match", "differ"} /\ rotten \subseteq Entries
    BY <1>1 DEF TypeOK
  <2>2. pc' \in [Workers -> Places]
    BY <1>2 DEF Places
  <2> QED
    BY <1>1, <1>2, <1>3, <2>1, <2>2, RestType
<1>5. Phased'
  BY <1>1, <1>2 DEF Phased
<1>6. \A w \in Workers : {pc[w], pc'[w]} \subseteq {"idle", "claim", "left"}
  BY <1>1, <1>2 DEF Phased
<1> QED
  BY <1>2, <1>4, <1>5, <1>6, OthersStep

LEMMA BooksStartWalk ==
  ASSUME Books, StartWalk
  PROVE  Books'
<1>1. TypeOK /\ Phased /\ phase = "crc" /\ pack.opens = "yes"
  BY DEF Books, StartWalk, Phased
<1>2. /\ UNCHANGED <<pack, rotten, sums, walks, budget, results>>
      /\ phase' = "walk" /\ next' = 0 /\ pc' = [w \in Workers |-> "claim"]
      /\ \A w \in Workers : pc[w] = "left"
  BY DEF StartWalk
<1>3. /\ delivered' \in [Entries -> Nat] /\ reported' \in [Entries -> Nat]
      /\ mismatch' \subseteq Entries /\ good' \in BOOLEAN
  BY <1>1, <1>2, SameResultsType
<1>4. TypeOK'
  <2>1. /\ sums \in {"none", "hashing", "match", "differ"} /\ rotten \subseteq Entries
    BY <1>1 DEF TypeOK
  <2>2. pc' \in [Workers -> Places]
    BY <1>2 DEF Places
  <2> QED
    BY <1>1, <1>2, <1>3, <2>1, <2>2, RestType
<1>5. Phased'
  BY <1>1, <1>2 DEF Phased
<1>6. \A w \in Workers : {pc[w], pc'[w]} \subseteq {"idle", "claim", "left"}
  BY <1>2
<1> QED
  BY <1>2, <1>4, <1>5, <1>6, OthersStep

LEMMA BooksJoin ==
  ASSUME Books, Join
  PROVE  Books'
<1>1. TypeOK /\ Phased /\ phase = "walk" /\ pack.opens = "yes"
  BY DEF Books, Join, Phased
<1>2. /\ UNCHANGED <<pack, rotten, sums, next, pc, walks, budget, delivered, reported, mismatch>>
      /\ phase' = "over"
      /\ \A w \in Workers : pc[w] = "left"
  BY DEF Join
<1>3. good' \in BOOLEAN
  BY DEF Join
<1>4. TypeOK'
  <2>1. /\ sums \in {"none", "hashing", "match", "differ"} /\ rotten \subseteq Entries /\ next \in Nat
        /\ pc \in [Workers -> Places]
        /\ delivered \in [Entries -> Nat] /\ reported \in [Entries -> Nat] /\ mismatch \subseteq Entries
    BY <1>1 DEF TypeOK, Places
  <2> QED
    BY <1>1, <1>2, <1>3, <2>1, RestType
<1>5. Phased'
  BY <1>1, <1>2 DEF Phased
<1> QED
  BY <1>2, <1>4, <1>5, OthersStep

LEMMA BooksSame ==
  ASSUME Books, UNCHANGED vars
  PROVE  Books'
<1>1. /\ TypeOK /\ Phased
      /\ UNCHANGED <<pack, rotten, phase, sums, next, pc, walks, budget, results>>
  BY DEF Books, vars, walks, results
<1>2. /\ delivered' \in [Entries -> Nat] /\ reported' \in [Entries -> Nat]
      /\ mismatch' \subseteq Entries /\ good' \in BOOLEAN
  BY <1>1, SameResultsType
<1>3. TypeOK'
  <2>1. /\ sums \in {"none", "hashing", "match", "differ"} /\ rotten \subseteq Entries /\ next \in Nat
        /\ pc \in [Workers -> Places] /\ phase \in {"open", "layout", "crc", "walk", "over"}
    BY <1>1 DEF TypeOK, Places
  <2> QED
    BY <1>1, <1>2, <2>1, RestType
<1>4. Phased'
  BY <1>1 DEF Phased
<1> QED
  BY <1>1, <1>3, <1>4, OthersStep

LEMMA BooksStep == Books /\ [Next]_vars => Books'
<1> SUFFICES ASSUME Books, [Next]_vars PROVE Books'
  OBVIOUS
<1>1. CASE OpenPack
  BY <1>1, BooksOpenPack
<1>2. CASE HashPack
  BY <1>2, BooksHashPack
<1>3. CASE Join
  BY <1>3, BooksJoin
<1>4. CASE ReportBad
  BY <1>4, BooksReportBad
<1>5. CASE StartWalk
  BY <1>5, BooksStartWalk
<1>6. CASE Rot
  BY <1>6, BooksRot
<1>7. CASE Rest
  BY <1>7, BooksSame DEF Rest
<1>8. ASSUME NEW w \in Workers, Work(w) PROVE Books'
  <2>1. CASE CheckBatch(w)
    BY <2>1, BooksCheckBatch
  <2>2. CASE Claim(w)
    BY <2>2, BooksClaim
  <2>3. CASE PopBase(w)
    BY <2>3, BooksPopBase
  <2>4. CASE VisitLeaf(w)
    BY <2>4, BooksVisitLeaf
  <2>5. CASE VisitBase(w)
    BY <2>5, BooksVisitBase
  <2>6. CASE HandOver(w)
    BY <2>6, BooksHandOver
  <2>7. CASE TakeOver(w)
    BY <2>7, BooksTakeOver
  <2>8. CASE Rebuild(w)
    BY <2>8, BooksRebuild
  <2>9. CASE EndChain(w)
    BY <2>9, BooksEndChain
  <2> QED
    BY <1>8, <2>1, <2>2, <2>3, <2>4, <2>5, <2>6, <2>7, <2>8, <2>9 DEF Work
<1>9. CASE UNCHANGED vars
  BY <1>9, BooksSame
<1> QED
  BY <1>1, <1>2, <1>3, <1>4, <1>5, <1>6, <1>7, <1>8, <1>9 DEF Next

\* The budget and what the workers hold against it are the whole at every
\* moment, whatever they stack, put off and give back (take, give).
THEOREM BudgetKept == Spec => []Bookkeeping
<1>1. Init => Books
  BY BooksInit
<1>2. Books /\ [Next]_vars => Books'
  BY BooksStep
<1>3. Books => Bookkeeping
  BY DEF Books, Bookkeeping
<1> QED
  BY <1>1, <1>2, <1>3, PTL DEF Spec

(***************************************************************************)
(* What is left to do in a state, and what is settled.                     *)
(***************************************************************************)

StackMarks(w, st) == {Mark(<<w, "stack", k>>, st[k].entry, st[k].next) : k \in 1..Len(st)}
OffMarks(w, df) == {Mark(<<w, "off", k>>, df[k], 1) : k \in 1..Len(df)}
HandMarks(w, h) == IF h = NoEntry THEN {} ELSE {Mark(<<w, "hand", 1>>, h, 1)}

\* The frames of a stack that count: a base given back is not one of them.
Counted(st, here) == IF here = "take" THEN Front(st) ELSE st

MarksBy(w, st, here, df, h) ==
  StackMarks(w, Counted(st, here)) \cup OffMarks(w, df) \cup HandMarks(w, h)

Marks == {m \in UNION {MarksBy(w, stack[w], pc[w], deferred[w], inHand[w]) : w \in Workers} : TRUE}

Settled == {i \in Entries : delivered[i] + reported[i] > 0}

LEMMA MarkOwner ==
  ASSUME NEW w, NEW st, NEW here, NEW df, NEW h, NEW m \in MarksBy(w, st, here, df, h)
  PROVE  m.at[1] = w
BY DEF MarksBy, StackMarks, OffMarks, HandMarks, Mark

MarksOf(w) == MarksBy(w, stack[w], pc[w], deferred[w], inHand[w])

\* What a step leaves a worker with.
Becomes(w, st, here, df, h) ==
  /\ stack' = [stack EXCEPT ![w] = st] /\ deferred' = [deferred EXCEPT ![w] = df]
  /\ inHand' = [inHand EXCEPT ![w] = h] /\ pc' = [pc EXCEPT ![w] = here]

\* The step takes the mark m, and puts those of X in its place.
Replaces(m, X) == m \in Marks /\ Marks' = (Marks \ {m}) \cup X

\* The marks of one worker change, and those of the others stay.
LEMMA MarksChange ==
  ASSUME Books, NEW w \in Workers, NEW st, NEW here, NEW df, NEW h, Becomes(w, st, here, df, h)
  PROVE  /\ Marks' = (Marks \ MarksOf(w)) \cup MarksBy(w, st, here, df, h)
         /\ MarksOf(w) \subseteq Marks
<1> DEFINE By(v) == MarksOf(v)
           New(v) == MarksBy(v, stack'[v], pc'[v], deferred'[v], inHand'[v])
<1>1. \A v \in Workers : /\ stack'[v] = IF v = w THEN st ELSE stack[v]
                         /\ deferred'[v] = IF v = w THEN df ELSE deferred[v]
                         /\ inHand'[v] = IF v = w THEN h ELSE inHand[v]
                         /\ pc'[v] = IF v = w THEN here ELSE pc[v]
  BY DEF Books, TypeOK, Becomes
<1>2. New(w) = MarksBy(w, st, here, df, h) /\ \A v \in Workers \ {w} : New(v) = By(v)
  BY <1>1 DEF MarksOf
<1>3. \A m : m \in Marks <=> \E v \in Workers : m \in By(v)
  BY DEF Marks, MarksOf
<1>4. \A m : m \in Marks' <=> \E v \in Workers : m \in New(v)
  BY DEF Marks
<1>5. \A v \in Workers : \A m \in By(v) : m.at[1] = v
  BY MarkOwner DEF MarksOf
<1> HIDE DEF By, New
<1>6. \A m : m \in Marks' <=> m \in (Marks \ By(w)) \cup New(w)
  BY <1>2, <1>3, <1>4, <1>5
<1>7. Marks' = (Marks \ By(w)) \cup New(w)
  BY <1>6
<1>8. By(w) \subseteq Marks
  BY <1>3
<1> QED
  BY <1>2, <1>7, <1>8 DEF By

\* One mark of a worker makes way for others.
LEMMA OneMark ==
  ASSUME Books, NEW w \in Workers, NEW st, NEW here, NEW df, NEW h, Becomes(w, st, here, df, h),
         NEW m, m \in MarksOf(w), NEW X,
         MarksBy(w, st, here, df, h) = (MarksOf(w) \ {m}) \cup X
  PROVE  Replaces(m, X)
<1> DEFINE New == MarksBy(w, st, here, df, h)
<1>1. Marks' = (Marks \ MarksOf(w)) \cup New /\ MarksOf(w) \subseteq Marks
  BY MarksChange
<1>2. New = (MarksOf(w) \ {m}) \cup X
  OBVIOUS
<1> HIDE DEF New
<1> QED
  BY <1>1, <1>2 DEF Replaces

LEMMA MarksSame ==
  ASSUME Books, UNCHANGED walks,
         \A w \in Workers : pc'[w] # pc[w] => pc[w] # "take" /\ pc'[w] # "take"
  PROVE  Marks' = Marks
<1> DEFINE By(v) == MarksBy(v, stack[v], pc[v], deferred[v], inHand[v])
           New(v) == MarksBy(v, stack'[v], pc'[v], deferred'[v], inHand'[v])
<1>1. stack' = stack /\ deferred' = deferred /\ inHand' = inHand
  BY DEF walks
<1>2. ASSUME NEW v \in Workers PROVE New(v) = By(v)
  <2>1. Counted(stack[v], pc'[v]) = Counted(stack[v], pc[v])
    BY DEF Counted
  <2> QED
    BY <1>1, <2>1 DEF MarksBy
<1>3. \A m : m \in Marks <=> \E v \in Workers : m \in By(v)
  BY DEF Marks
<1>4. \A m : m \in Marks' <=> \E v \in Workers : m \in New(v)
  BY DEF Marks
<1> HIDE DEF By, New
<1>5. \A m : m \in Marks' <=> m \in Marks
  BY <1>2, <1>3, <1>4
<1>6. Marks' = {m \in Marks' : TRUE} /\ Marks = {m \in Marks : TRUE}
  OBVIOUS
<1> QED
  BY <1>5, <1>6

\* A stack with one frame more has one mark more.
LEMMA StackMore ==
  ASSUME NEW w, NEW s \in Seq(Frame), NEW t \in Seq(Frame), Len(t) = Len(s) + 1,
         \A k \in 1..Len(s) : t[k] = s[k]
  PROVE  /\ StackMarks(w, t) =
              StackMarks(w, s) \cup {Mark(<<w, "stack", Len(t)>>, t[Len(t)].entry, t[Len(t)].next)}
         /\ \A e, n : Mark(<<w, "stack", Len(t)>>, e, n) \notin StackMarks(w, s)
<1> DEFINE a == Mark(<<w, "stack", Len(t)>>, t[Len(t)].entry, t[Len(t)].next)
<1>1. Len(s) \in Nat
  BY LenProperties
<1>2. ASSUME NEW m \in StackMarks(w, t) PROVE m \in StackMarks(w, s) \cup {a}
  <2>1. PICK k \in 1..Len(t) : m = Mark(<<w, "stack", k>>, t[k].entry, t[k].next)
    BY DEF StackMarks
  <2>2. CASE k = Len(t)
    BY <2>1, <2>2
  <2>3. CASE k # Len(t)
    <3>1. k \in 1..Len(s)
      BY <1>1, <2>3
    <3> QED
      BY <2>1, <3>1 DEF StackMarks
  <2> QED
    BY <2>2, <2>3
<1>3. ASSUME NEW m \in StackMarks(w, s) PROVE m \in StackMarks(w, t)
  <2>1. PICK k \in 1..Len(s) : m = Mark(<<w, "stack", k>>, s[k].entry, s[k].next)
    BY DEF StackMarks
  <2>2. k \in 1..Len(t) /\ t[k] = s[k]
    BY <1>1
  <2> QED
    BY <2>1, <2>2 DEF StackMarks
<1>4. a \in StackMarks(w, t)
  <2>1. Len(t) \in 1..Len(t)
    BY <1>1
  <2> QED
    BY <2>1 DEF StackMarks
<1>5. ASSUME NEW e, NEW n, Mark(<<w, "stack", Len(t)>>, e, n) \in StackMarks(w, s) PROVE FALSE
  <2>1. PICK k \in 1..Len(s) :
          Mark(<<w, "stack", Len(t)>>, e, n) = Mark(<<w, "stack", k>>, s[k].entry, s[k].next)
    BY <1>5 DEF StackMarks
  <2>2. <<w, "stack", Len(t)>> = <<w, "stack", k>>
    BY <2>1 DEF Mark
  <2>3. Len(t) = k
    BY <2>2
  <2> QED
    BY <1>1, <2>3
<1> QED
  BY <1>2, <1>3, <1>4, <1>5

LEMMA OffMore ==
  ASSUME NEW w, NEW s \in Seq(Entries), NEW t \in Seq(Entries), Len(t) = Len(s) + 1,
         \A k \in 1..Len(s) : t[k] = s[k]
  PROVE  /\ OffMarks(w, t) = OffMarks(w, s) \cup {Mark(<<w, "off", Len(t)>>, t[Len(t)], 1)}
         /\ \A e, n : Mark(<<w, "off", Len(t)>>, e, n) \notin OffMarks(w, s)
<1> DEFINE a == Mark(<<w, "off", Len(t)>>, t[Len(t)], 1)
<1>1. Len(s) \in Nat
  BY LenProperties
<1>2. ASSUME NEW m \in OffMarks(w, t) PROVE m \in OffMarks(w, s) \cup {a}
  <2>1. PICK k \in 1..Len(t) : m = Mark(<<w, "off", k>>, t[k], 1)
    BY DEF OffMarks
  <2>2. CASE k = Len(t)
    BY <2>1, <2>2
  <2>3. CASE k # Len(t)
    <3>1. k \in 1..Len(s)
      BY <1>1, <2>3
    <3> QED
      BY <2>1, <3>1 DEF OffMarks
  <2> QED
    BY <2>2, <2>3
<1>3. ASSUME NEW m \in OffMarks(w, s) PROVE m \in OffMarks(w, t)
  <2>1. PICK k \in 1..Len(s) : m = Mark(<<w, "off", k>>, s[k], 1)
    BY DEF OffMarks
  <2>2. k \in 1..Len(t) /\ t[k] = s[k]
    BY <1>1
  <2> QED
    BY <2>1, <2>2 DEF OffMarks
<1>4. a \in OffMarks(w, t)
  <2>1. Len(t) \in 1..Len(t)
    BY <1>1
  <2> QED
    BY <2>1 DEF OffMarks
<1>5. ASSUME NEW e, NEW n, Mark(<<w, "off", Len(t)>>, e, n) \in OffMarks(w, s) PROVE FALSE
  <2>1. PICK k \in 1..Len(s) : Mark(<<w, "off", Len(t)>>, e, n) = Mark(<<w, "off", k>>, s[k], 1)
    BY <1>5 DEF OffMarks
  <2>2. <<w, "off", Len(t)>> = <<w, "off", k>>
    BY <2>1 DEF Mark
  <2>3. Len(t) = k
    BY <2>2
  <2> QED
    BY <1>1, <2>3
<1> QED
  BY <1>2, <1>3, <1>4, <1>5

\* Marks in different places are different.
LEMMA MarkKinds ==
  ASSUME NEW w, NEW st, NEW df, NEW h, NEW k, NEW e, NEW n
  PROVE  /\ Mark(<<w, "stack", k>>, e, n) \notin OffMarks(w, df) \cup HandMarks(w, h)
         /\ Mark(<<w, "off", k>>, e, n) \notin StackMarks(w, st) \cup HandMarks(w, h)
         /\ Mark(<<w, "hand", k>>, e, n) \notin StackMarks(w, st) \cup OffMarks(w, df)
<1>1. \A m \in StackMarks(w, st) : m.at[2] = "stack"
  BY DEF StackMarks, Mark
<1>2. \A m \in OffMarks(w, df) : m.at[2] = "off"
  BY DEF OffMarks, Mark
<1>3. \A m \in HandMarks(w, h) : m.at[2] = "hand"
  BY DEF HandMarks, Mark
<1>4. /\ Mark(<<w, "stack", k>>, e, n).at[2] = "stack" /\ Mark(<<w, "off", k>>, e, n).at[2] = "off"
      /\ Mark(<<w, "hand", k>>, e, n).at[2] = "hand"
  BY DEF Mark
<1> QED
  BY <1>1, <1>2, <1>3, <1>4

\* A sound child that nothing stands on leaves no mark of its own.
LEMMA FitsLeaf ==
  ASSUME NEW p \in Layout, NEW M, NEW S, Fits(p, M, S), NEW m \in M, NEW c,
         m.from <= Len(ChildrenOf(p, m.entry)), c = ChildrenOf(p, m.entry)[m.from],
         ChildrenOf(p, c) = << >>
  PROVE  Fits(p, (M \ {m}) \cup {Mark(m.at, m.entry, m.from + 1)}, S \cup {c})
<1> DEFINE t == <<m.at, "leaf">>
           a == Mark(m.at, m.entry, m.from + 1)
           b == Mark(t, c, 1)
           M1 == (M \ {m}) \cup {a, b}
<1>1. Fits(p, M1, S \cup {c})
  BY FitsOpen
<1>2. c \notin S /\ m.entry \in S
  <2>1. ChildrenOf(p, m.entry)[m.from] \in Entries \ S
    BY TurnOf
  <2> QED
    BY <2>1 DEF Fits
<1>3. b.entry = c /\ b.from = 1 /\ a.entry = m.entry
  BY DEF Mark
<1>4. \A n \in M : n.entry \in S
  BY DEF Fits
<1> HIDE DEF a, b, t
<1>5. b \notin M \ {m} /\ b # a
  BY <1>2, <1>3, <1>4
<1>6. M1 \ {b} = (M \ {m}) \cup {a}
  BY <1>5
<1>7. b \in M1
  OBVIOUS
<1> HIDE DEF M1
<1>8. b.from = Len(ChildrenOf(p, b.entry)) + 1
  BY <1>3
<1>9. Fits(p, M1 \ {b}, S \cup {c})
  BY <1>1, <1>7, <1>8, FitsClose
<1> QED
  BY <1>6, <1>9 DEF a

\* The last child takes the place of its base.
LEMMA FitsLast ==
  ASSUME NEW p \in Layout, NEW M, NEW S, Fits(p, M, S), NEW m \in M, NEW c, NEW t,
         m.from = Len(ChildrenOf(p, m.entry)), c = ChildrenOf(p, m.entry)[m.from]
  PROVE  Fits(p, (M \ {m}) \cup {Mark(t, c, 1)}, S \cup {c})
<1> DEFINE a == Mark(m.at, m.entry, m.from + 1)
           b == Mark(t, c, 1)
           M1 == (M \ {m}) \cup {a, b}
<1>0. m.from <= Len(ChildrenOf(p, m.entry)) /\ Len(ChildrenOf(p, m.entry)) \in Nat
  BY ChildrenAre
<1>1. Fits(p, M1, S \cup {c})
  BY <1>0, FitsOpen
<1>2. c \notin S /\ m.entry \in S
  <2>1. ChildrenOf(p, m.entry)[m.from] \in Entries \ S
    BY <1>0, TurnOf
  <2> QED
    BY <2>1 DEF Fits
<1>3. b.entry = c /\ a.from = m.from + 1 /\ a.entry = m.entry
  BY DEF Mark
<1>4. \A n \in M : n.entry = m.entry => n = m
  BY DEF Fits
<1> HIDE DEF a, b
<1>5. a \notin M \ {m} /\ b # a
  BY <1>2, <1>3, <1>4
<1>6. M1 \ {a} = (M \ {m}) \cup {b}
  BY <1>5
<1>7. a \in M1
  OBVIOUS
<1> HIDE DEF M1
<1>8. a.from = Len(ChildrenOf(p, a.entry)) + 1
  BY <1>3
<1>9. Fits(p, M1 \ {a}, S \cup {c})
  BY <1>1, <1>7, <1>8, FitsClose
<1> QED
  BY <1>6, <1>9 DEF b

\* An entry that stands on none, and that nothing stands on.
LEMMA FitsRootLeaf ==
  ASSUME NEW p \in Layout, NEW M, NEW S, Fits(p, M, S), NEW r \in Entries \ S,
         ParentOf(p, r) = 0, ChildrenOf(p, r) = << >>
  PROVE  Fits(p, M, S \cup {r})
<1> DEFINE b == Mark("leaf", r, 1)
           M1 == M \cup {b}
<1>1. Fits(p, M1, S \cup {r})
  BY FitsRoot
<1>2. b.entry = r /\ b.from = 1
  BY DEF Mark
<1>3. \A n \in M : n.entry \in S
  BY DEF Fits
<1> HIDE DEF b
<1>4. b \notin M
  BY <1>2, <1>3
<1>5. M1 \ {b} = M /\ b \in M1
  BY <1>4
<1> HIDE DEF M1
<1>6. b.from = Len(ChildrenOf(p, b.entry)) + 1
  BY <1>2
<1>7. Fits(p, M1 \ {b}, S \cup {r})
  BY <1>1, <1>5, <1>6, FitsClose
<1> QED
  BY <1>5, <1>7

(***************************************************************************)
(* The marks after each step of a worker.                                  *)
(***************************************************************************)

Tree == Fits(pack, Marks, Settled)

\* After a step that settles T, what is left fits, and it is to do with what
\* there was to do with, or with entries of E.
Goes(E, T) ==
  /\ Fits(pack, Marks', Settled \cup T)
  /\ \A m \in Marks' : m.entry \in E \/ \E n \in Marks : m.entry = n.entry

TopMark(w) == Mark(<<w, "stack", Depth(w)>>, Top(w).entry, Top(w).next)

\* The mark of the base on top.
LEMMA TopMarkFacts ==
  ASSUME Books, NEW w \in Workers, pc[w] = "spread"
  PROVE  /\ TopMark(w).entry = Top(w).entry /\ TopMark(w).from = Top(w).next
         /\ TopMark(w).at = <<w, "stack", Depth(w)>>
         /\ TopMark(w) \in MarksOf(w)
         /\ StackMarks(w, stack[w]) = StackMarks(w, Front(stack[w])) \cup {TopMark(w)}
         /\ \A e, n : Mark(<<w, "stack", Depth(w)>>, e, n) \notin StackMarks(w, Front(stack[w]))
         /\ TopMark(w) \notin OffMarks(w, deferred[w]) \cup HandMarks(w, inHand[w])
<1> DEFINE st == stack[w]
           f == Front(st)
<1>1. TypeOK /\ Placed /\ st # << >>
  BY OnItsWay DEF Books
<1>2. /\ st \in Seq(Frame) /\ Depth(w) = Len(st) /\ Depth(w) \in Nat /\ Depth(w) >= 1
      /\ Top(w) = st[Depth(w)]
  BY <1>1, TopFacts
<1>3. /\ f \in Seq(Frame) /\ Len(f) = Len(st) - 1
      /\ \A k \in 1..(Len(st) - 1) : f[k] = st[k]
  BY <1>1, <1>2, FrontFacts
<1>4. /\ StackMarks(w, st) =
           StackMarks(w, f) \cup {Mark(<<w, "stack", Len(st)>>, st[Len(st)].entry, st[Len(st)].next)}
      /\ \A e, n : Mark(<<w, "stack", Len(st)>>, e, n) \notin StackMarks(w, f)
  <2> HIDE DEF st, f
  <2>1. Len(st) = Len(f) + 1 /\ \A k \in 1..Len(f) : st[k] = f[k]
    BY <1>2, <1>3
  <2> QED
    BY <1>2, <1>3, <2>1, StackMore
<1>5. /\ TopMark(w).entry = Top(w).entry /\ TopMark(w).from = Top(w).next
      /\ TopMark(w).at = <<w, "stack", Depth(w)>>
  BY DEF TopMark, Mark
<1>6. TopMark(w) \notin OffMarks(w, deferred[w]) \cup HandMarks(w, inHand[w])
  BY MarkKinds DEF TopMark
<1>7. /\ StackMarks(w, st) = StackMarks(w, f) \cup {TopMark(w)}
      /\ \A e, n : Mark(<<w, "stack", Depth(w)>>, e, n) \notin StackMarks(w, f)
  BY <1>2, <1>4 DEF TopMark
<1>8. TopMark(w) \in MarksOf(w)
  <2>1. Counted(stack[w], pc[w]) = st
    BY DEF Counted
  <2> QED
    BY <1>7, <2>1 DEF MarksOf, MarksBy
<1> QED
  BY <1>5, <1>6, <1>7, <1>8

\* The stack that has gone past the next child.
LEMMA VisitedMarks ==
  ASSUME Books, NEW w \in Workers, pc[w] = "spread"
  PROVE  StackMarks(w, Visited(w)) = StackMarks(w, Front(stack[w]))
           \cup {Mark(TopMark(w).at, TopMark(w).entry, TopMark(w).from + 1)}
<1> DEFINE st == stack[w]
           f == Front(st)
           v == Visited(w)
<1>1. TypeOK /\ Placed /\ st # << >>
  BY OnItsWay DEF Books
<1>2. /\ st \in Seq(Frame) /\ Depth(w) = Len(st) /\ Depth(w) \in Nat /\ Depth(w) >= 1
  BY <1>1, TopFacts
<1>3. /\ f \in Seq(Frame) /\ Len(f) = Len(st) - 1
      /\ \A k \in 1..(Len(st) - 1) : f[k] = st[k]
  BY <1>1, <1>2, FrontFacts
<1>4. /\ v \in Seq(Frame) /\ Len(v) = Depth(w)
      /\ \A k \in 1..Depth(w) : k # Depth(w) => v[k] = st[k]
      /\ v[Depth(w)] = [entry |-> Top(w).entry, next |-> Top(w).next + 1]
  BY <1>1, VisitedFacts
<1> HIDE DEF st, f, v
<1>5. Len(v) = Len(f) + 1 /\ \A k \in 1..Len(f) : v[k] = f[k]
  <2>1. 1..Len(f) = 1..(Len(st) - 1) /\ \A k \in 1..(Len(st) - 1) : k \in 1..Depth(w) /\ k # Depth(w)
    BY <1>2, <1>3
  <2>2. Len(v) = Len(f) + 1
    BY <1>2, <1>3, <1>4
  <2> QED
    BY <1>3, <1>4, <2>1, <2>2
<1>6. StackMarks(w, v) =
        StackMarks(w, f) \cup {Mark(<<w, "stack", Len(v)>>, v[Len(v)].entry, v[Len(v)].next)}
  BY <1>3, <1>4, <1>5, StackMore
<1>7. /\ TopMark(w).entry = Top(w).entry /\ TopMark(w).from = Top(w).next
      /\ TopMark(w).at = <<w, "stack", Depth(w)>>
  BY TopMarkFacts
<1> QED
  BY <1>4, <1>6, <1>7 DEF st, f, v

\* What a step does to the marks when it takes one away, moves it, or puts
\* others in its place.
LEMMA GoesOn ==
  ASSUME NEW m, NEW X, NEW E, NEW T, Replaces(m, X), \A n \in X : n.entry \in E \cup {m.entry},
         NEW Y, NEW S, Y = (Marks \ {m}) \cup X, S = Settled \cup T, Fits(pack, Y, S)
  PROVE  Goes(E, T)
<1>1. ASSUME NEW n \in Y PROVE n.entry \in E \/ \E o \in Marks : n.entry = o.entry
  BY DEF Replaces
<1>2. Marks' = Y
  BY DEF Replaces
<1> QED
  BY <1>1, <1>2 DEF Goes

LEMMA MarksPopBase ==
  ASSUME Books, Tree, NEW w \in Workers, PopBase(w)
  PROVE  Goes({}, {})
<1> DEFINE st == stack[w]
           f == Front(st)
           here == IF Depth(w) = 1 THEN "drain" ELSE "spread"
           df == deferred[w]
           h == inHand[w]
           m == TopMark(w)
           X == {}
<1>1. TypeOK /\ Placed /\ pc[w] = "spread" /\ st # << >> /\ Exhausted(w) /\ pack \in Layout
  BY OnItsWay DEF Books, PopBase
<1>2. /\ m.entry = Top(w).entry /\ m.from = Top(w).next /\ m \in MarksOf(w)
      /\ StackMarks(w, st) = StackMarks(w, f) \cup {m}
      /\ m \notin StackMarks(w, f)
      /\ m \notin OffMarks(w, df) \cup HandMarks(w, h)
  <2>1. \A e, n : Mark(<<w, "stack", Depth(w)>>, e, n) \notin StackMarks(w, Front(stack[w]))
    BY <1>1, TopMarkFacts
  <2>2. m \notin StackMarks(w, f)
    BY <2>1 DEF TopMark
  <2> QED
    BY <1>1, <2>2, TopMarkFacts
<1>3. Becomes(w, f, here, df, h)
  BY <1>1, OnItsWay DEF PopBase, Becomes
<1>4. MarksBy(w, f, here, df, h) = (MarksOf(w) \ {m}) \cup X
  <2>1. Counted(f, here) = f /\ Counted(st, pc[w]) = st
    BY <1>1 DEF Counted
  <2>2. MarksOf(w) = MarksBy(w, st, pc[w], df, h)
    BY DEF MarksOf
  <2> HIDE DEF st, f, here, df, h, m
  <2>3. /\ MarksBy(w, f, here, df, h) = StackMarks(w, f) \cup OffMarks(w, df) \cup HandMarks(w, h)
        /\ MarksBy(w, st, pc[w], df, h) = StackMarks(w, st) \cup OffMarks(w, df) \cup HandMarks(w, h)
    BY <2>1 DEF MarksBy
  <2> QED
    BY <1>2, <2>2, <2>3
<1>5. Replaces(m, X)
  <2> HIDE DEF st, f, here, df, h, m, X
  <2> QED
    BY <1>2, <1>3, <1>4, OneMark
<1>6. m \in Marks
  <2> HIDE DEF m
  <2> QED
    BY <1>5 DEF Replaces
<1>7. m.from = Len(ChildrenOf(pack, m.entry)) + 1
  <2>1. /\ Top(w).next \in Nat /\ Len(ChildrenOf(pack, Top(w).entry)) \in Nat
        /\ Exhausted(w) <=> Top(w).next > Len(ChildrenOf(pack, Top(w).entry))
    BY <1>1, TopFacts
  <2>2. m.from \in 1..(Len(ChildrenOf(pack, m.entry)) + 1)
    <3> HIDE DEF m
    <3> QED
      BY <1>6 DEF Tree, Fits
  <2> QED
    BY <1>1, <1>2, <2>1, <2>2
<1> HIDE DEF m
<1> DEFINE Y == Marks \ {m}
<1>8. Fits(pack, Y, Settled)
  BY <1>1, <1>6, <1>7, FitsClose DEF Tree
<1>9. /\ Y = (Marks \ {m}) \cup X /\ Settled = Settled \cup X
      /\ \A n \in X : n.entry \in X \cup {m.entry}
  OBVIOUS
<1> HIDE DEF X, Y
<1>10. Goes(X, X)
  BY <1>5, <1>8, <1>9, GoesOn
<1> QED
  BY <1>10 DEF X

\* The marks of a worker but for that of the base on top.
LEMMA Below ==
  ASSUME Books, NEW w \in Workers, pc[w] = "spread"
  PROVE  /\ TopMark(w) \in MarksOf(w)
         /\ MarksOf(w) \ {TopMark(w)} =
              StackMarks(w, Front(stack[w])) \cup OffMarks(w, deferred[w]) \cup HandMarks(w, inHand[w])
<1> DEFINE m == TopMark(w)
           A == StackMarks(w, stack[w])
           B == StackMarks(w, Front(stack[w]))
           R == OffMarks(w, deferred[w]) \cup HandMarks(w, inHand[w])
<1>1. /\ m \in MarksOf(w) /\ A = B \cup {m} /\ m \notin R
      /\ \A e, n : Mark(<<w, "stack", Depth(w)>>, e, n) \notin B
  BY TopMarkFacts
<1>2. m \notin B
  BY <1>1 DEF TopMark
<1>3. MarksOf(w) = A \cup R
  <2>1. Counted(stack[w], pc[w]) = stack[w]
    BY DEF Counted
  <2> QED
    BY <2>1 DEF MarksOf, MarksBy
<1> HIDE DEF m, A, B, R
<1>4. MarksOf(w) \ {m} = B \cup R
  BY <1>1, <1>2, <1>3
<1> QED
  BY <1>1, <1>4 DEF m, B, R

\* The marks of a worker on its way, from its stack, what it has put off and
\* what it has in hand.
LEMMA SpreadMarks ==
  ASSUME NEW w, NEW st, NEW here, here # "take", NEW df, NEW h
  PROVE  MarksBy(w, st, here, df, h) = StackMarks(w, st) \cup OffMarks(w, df) \cup HandMarks(w, h)
BY DEF MarksBy, Counted

\* The mark of the base on top is among those of the state, and has its turn.
LEMMA TopTurn ==
  ASSUME Books, Tree, NEW w \in Workers, pc[w] = "spread", ~Exhausted(w)
  PROVE  /\ TopMark(w) \in Marks /\ TopMark(w).entry = Top(w).entry /\ TopMark(w).from = Top(w).next
         /\ TopMark(w).from <= Len(ChildrenOf(pack, TopMark(w).entry))
         /\ Child(w) = ChildrenOf(pack, TopMark(w).entry)[TopMark(w).from]
         /\ Child(w) \in Entries \ Settled /\ ParentOf(pack, Child(w)) = TopMark(w).entry
         /\ ParentOf(pack, Child(w)) # 0
         /\ pack \in Layout /\ Fits(pack, Marks, Settled)
<1> DEFINE m == TopMark(w)
<1>1. TypeOK /\ Placed /\ stack[w] # << >> /\ pack \in Layout
  BY OnItsWay DEF Books
<1>2. /\ m.entry = Top(w).entry /\ m.from = Top(w).next /\ m \in MarksOf(w)
  BY TopMarkFacts
<1>3. m \in Marks
  BY <1>2 DEF Marks, MarksOf
<1>4. Child(w) = ChildrenOf(pack, m.entry)[m.from]
  BY <1>1, <1>2, TopFacts
<1>5. m.from <= Len(ChildrenOf(pack, m.entry))
  BY <1>1, <1>2, ChildFacts
<1>6. Fits(pack, Marks, Settled)
  BY DEF Tree
<1> HIDE DEF m
<1>7. /\ ChildrenOf(pack, m.entry)[m.from] \in Entries \ Settled
      /\ ParentOf(pack, ChildrenOf(pack, m.entry)[m.from]) = m.entry
      /\ m.entry # 0
  BY <1>1, <1>3, <1>5, <1>6, TurnOf
<1> QED
  BY <1>1, <1>2, <1>3, <1>4, <1>5, <1>6, <1>7 DEF m

LEMMA MarksVisitLeaf ==
  ASSUME Books, Tree, NEW w \in Workers, VisitLeaf(w)
  PROVE  IF Child(w) \in Decodable THEN Goes({}, {Child(w)})
                                   ELSE /\ Goes({}, SubtreeOf(pack, Child(w)))
                                        /\ Settled \cap SubtreeOf(pack, Child(w)) = {}
<1> DEFINE v == Visited(w)
           df == deferred[w]
           h == inHand[w]
           here == "spread"
           m == TopMark(w)
           c == Child(w)
           a == Mark(m.at, m.entry, m.from + 1)
           X == {a}
           none == {}
<1>1. pc[w] = "spread" /\ ~Exhausted(w)
  BY DEF VisitLeaf
<1>2. Becomes(w, v, here, df, h)
  BY <1>1, OnItsWay DEF VisitLeaf, Becomes
<1>3. MarksBy(w, v, here, df, h) = (MarksOf(w) \ {m}) \cup X /\ m \in MarksOf(w)
  <2>1. StackMarks(w, v) = StackMarks(w, Front(stack[w])) \cup X
    BY <1>1, VisitedMarks
  <2>2. MarksBy(w, v, here, df, h) = StackMarks(w, v) \cup OffMarks(w, df) \cup HandMarks(w, h)
    <3> HIDE DEF v, df, h
    <3> QED
      BY SpreadMarks
  <2>3. /\ m \in MarksOf(w)
        /\ MarksOf(w) \ {m} = StackMarks(w, Front(stack[w])) \cup OffMarks(w, df) \cup HandMarks(w, h)
    BY <1>1, Below
  <2> HIDE DEF v, df, h, m, X
  <2> QED
    BY <2>1, <2>2, <2>3
<1>4. Replaces(m, X)
  <2> HIDE DEF v, df, h, here, m, X
  <2> QED
    BY <1>2, <1>3, OneMark
<1>5. /\ m \in Marks /\ m.from <= Len(ChildrenOf(pack, m.entry))
      /\ c = ChildrenOf(pack, m.entry)[m.from]
      /\ pack \in Layout /\ Fits(pack, Marks, Settled)
  BY <1>1, TopTurn
<1>6. \A n \in X : n.entry \in none \cup {m.entry}
  BY DEF Mark
<1> DEFINE Y == (Marks \ {m}) \cup X
           T == SubtreeOf(pack, c)
           S1 == Settled \cup {c}
           S2 == Settled \cup T
<1>7. CASE c \in Decodable
  <2>1. ChildrenOf(pack, c) = << >>
    BY <1>7, OfPack DEF VisitLeaf
  <2> HIDE DEF m, c
  <2>2. Fits(pack, Y, S1)
    BY <1>5, <2>1, FitsLeaf
  <2> DEFINE C == {c}
  <2>3. S1 = Settled \cup C
    OBVIOUS
  <2> HIDE DEF X, Y, S1, C, none
  <2>4. Y = (Marks \ {m}) \cup X
    BY DEF Y
  <2>5. Goes(none, C)
    BY <1>4, <1>6, <2>2, <2>3, <2>4, GoesOn
  <2> QED
    BY <1>7, <2>5 DEF none, C, c
<1>8. CASE c \notin Decodable
  <2> HIDE DEF m, c
  <2>1. Fits(pack, Y, S2) /\ Settled \cap T = {}
    BY <1>5, FitsSink
  <2>2. S2 = Settled \cup T
    OBVIOUS
  <2> HIDE DEF X, Y, S2, none, T
  <2>3. Y = (Marks \ {m}) \cup X
    BY DEF Y
  <2>4. Goes(none, T)
    BY <1>4, <1>6, <2>1, <2>2, <2>3, GoesOn
  <2> QED
    BY <1>8, <2>1, <2>4 DEF none, T, c
<1> QED
  BY <1>7, <1>8

\* A base stacked on another, or put off, is one mark more.
LEMMA PushMarks ==
  ASSUME NEW w, NEW st \in Seq(Frame), NEW c \in Entries
  PROVE  StackMarks(w, Append(st, Base(c))) =
           StackMarks(w, st) \cup {Mark(<<w, "stack", Len(st) + 1>>, c, 1)}
<1> DEFINE b == Base(c)
           t == Append(st, b)
<1>1. b \in Frame /\ b.entry = c /\ b.next = 1
  BY DEF Base, Frame
<1> HIDE DEF b
<1>2. t \in Seq(Frame) /\ Len(t) = Len(st) + 1 /\ t[Len(st) + 1] = b /\ \A k \in 1..Len(st) : t[k] = st[k]
  BY <1>1, AppendProperties
<1> HIDE DEF t
<1>3. StackMarks(w, t) =
        StackMarks(w, st) \cup {Mark(<<w, "stack", Len(t)>>, t[Len(t)].entry, t[Len(t)].next)}
  BY <1>2, StackMore
<1> QED
  BY <1>1, <1>2, <1>3 DEF t, b

LEMMA PutOffMarks ==
  ASSUME NEW w, NEW df \in Seq(Entries), NEW c \in Entries
  PROVE  OffMarks(w, Append(df, c)) = OffMarks(w, df) \cup {Mark(<<w, "off", Len(df) + 1>>, c, 1)}
<1> DEFINE t == Append(df, c)
<1>1. t \in Seq(Entries) /\ Len(t) = Len(df) + 1 /\ t[Len(df) + 1] = c /\ \A k \in 1..Len(df) : t[k] = df[k]
  BY AppendProperties
<1> HIDE DEF t
<1>2. OffMarks(w, t) = OffMarks(w, df) \cup {Mark(<<w, "off", Len(t)>>, t[Len(t)], 1)}
  BY <1>1, OffMore
<1> QED
  BY <1>1, <1>2 DEF t

LEMMA MarksVisitBase ==
  ASSUME Books, Tree, NEW w \in Workers, VisitBase(w)
  PROVE  Goes({Child(w)}, {Child(w)})
<1> DEFINE v == Visited(w)
           df == deferred[w]
           h == inHand[w]
           here == "spread"
           m == TopMark(w)
           c == Child(w)
           a == Mark(m.at, m.entry, m.from + 1)
           low == StackMarks(w, Front(stack[w]))
           C == {c}
<1>1. pc[w] = "spread" /\ ~Exhausted(w) /\ TypeOK /\ Placed
  BY DEF VisitBase, Books
<1>2. /\ df \in Seq(Entries) /\ stack[w] # << >>
      /\ inHand' = [inHand EXCEPT ![w] = h] /\ pc' = [pc EXCEPT ![w] = here]
      /\ deferred = [deferred EXCEPT ![w] = df]
  BY <1>1, OnItsWay DEF VisitBase
<1>3. v \in Seq(Frame)
  BY <1>1, <1>2, VisitedFacts
<1>4. StackMarks(w, v) = low \cup {a}
  BY <1>1, VisitedMarks
<1>5. /\ m \in MarksOf(w)
      /\ MarksOf(w) \ {m} = low \cup OffMarks(w, df) \cup HandMarks(w, h)
  BY <1>1, Below
<1>6. /\ m \in Marks /\ m.from <= Len(ChildrenOf(pack, m.entry))
      /\ c = ChildrenOf(pack, m.entry)[m.from] /\ c \in Entries
      /\ pack \in Layout /\ Fits(pack, Marks, Settled)
  BY <1>1, TopTurn
<1>7. \E t, st1, df1 :
        /\ Becomes(w, st1, here, df1, h)
        /\ MarksBy(w, st1, here, df1, h) = (MarksOf(w) \ {m}) \cup {a, Mark(t, c, 1)}
  <2>1. CASE CanTake(Depth(w) + 1, c)
    <3> DEFINE st1 == Append(v, Base(c))
               t == <<w, "stack", Len(v) + 1>>
               b == Mark(t, c, 1)
    <3>1. Becomes(w, st1, here, df, h)
      BY <1>2, <2>1 DEF VisitBase, Becomes
    <3>2. StackMarks(w, st1) = StackMarks(w, v) \cup {b}
      <4> HIDE DEF v, c
      <4> QED
        BY <1>3, <1>6, PushMarks
    <3> HIDE DEF st1, df, h, v, m, c, a, low, t
    <3>3. MarksBy(w, st1, here, df, h) = StackMarks(w, st1) \cup OffMarks(w, df) \cup HandMarks(w, h)
      BY SpreadMarks
    <3> HIDE DEF b
    <3>4. MarksBy(w, st1, here, df, h) = (MarksOf(w) \ {m}) \cup {a, b}
      BY <1>4, <1>5, <3>2, <3>3
    <3> QED
      BY <3>1, <3>4 DEF b
  <2>2. CASE ~CanTake(Depth(w) + 1, c)
    <3> DEFINE df1 == Append(df, c)
               t == <<w, "off", Len(df) + 1>>
               b == Mark(t, c, 1)
    <3>1. Becomes(w, v, here, df1, h)
      BY <1>2, <2>2 DEF VisitBase, Becomes
    <3>2. OffMarks(w, df1) = OffMarks(w, df) \cup {b}
      <4> HIDE DEF df, c
      <4> QED
        BY <1>2, <1>6, PutOffMarks
    <3> HIDE DEF df1, df, h, v, m, c, a, low, t
    <3>3. MarksBy(w, v, here, df1, h) = StackMarks(w, v) \cup OffMarks(w, df1) \cup HandMarks(w, h)
      BY SpreadMarks
    <3> HIDE DEF b
    <3>4. MarksBy(w, v, here, df1, h) = (MarksOf(w) \ {m}) \cup {a, b}
      BY <1>4, <1>5, <3>2, <3>3
    <3> QED
      BY <3>1, <3>4 DEF b
  <2> QED
    BY <2>1, <2>2
<1>8. PICK t, st1, df1 :
        /\ Becomes(w, st1, here, df1, h)
        /\ MarksBy(w, st1, here, df1, h) = (MarksOf(w) \ {m}) \cup {a, Mark(t, c, 1)}
  BY <1>7
<1> DEFINE X == {a, Mark(t, c, 1)}
           Y == (Marks \ {m}) \cup X
           S1 == Settled \cup C
<1>9. Replaces(m, X)
  <2> HIDE DEF df, h, here, m, X
  <2> QED
    BY <1>5, <1>8, OneMark DEF X
<1>10. Fits(pack, Y, S1)
  <2> HIDE DEF m, c
  <2> QED
    BY <1>6, FitsOpen
<1>11. \A n \in X : n.entry \in C \cup {m.entry}
  BY DEF Mark
<1>12. Y = (Marks \ {m}) \cup X /\ S1 = Settled \cup C
  OBVIOUS
<1> HIDE DEF X, Y, S1, C, m
<1>13. Goes(C, C)
  BY <1>9, <1>10, <1>11, <1>12, GoesOn
<1> QED
  BY <1>13 DEF C

LEMMA MarksHandOver ==
  ASSUME Books, Tree, NEW w \in Workers, HandOver(w)
  PROVE  Goes({Child(w)}, {Child(w)})
<1> DEFINE st == stack[w]
           df == deferred[w]
           here == "take"
           m == TopMark(w)
           c == Child(w)
           t == <<w, "hand", 1>>
           b == Mark(t, c, 1)
           low == StackMarks(w, Front(stack[w]))
           off == OffMarks(w, df)
           C == {c}
           X == {b}
           Y == (Marks \ {m}) \cup X
           S1 == Settled \cup C
<1>1. pc[w] = "spread" /\ ~Exhausted(w) /\ IsLast(w) /\ TypeOK /\ Placed
  BY DEF HandOver, Books
<1>2. inHand[w] = NoEntry /\ Becomes(w, st, here, df, c)
  BY <1>1, OnItsWay DEF HandOver, Becomes
<1>3. /\ m \in MarksOf(w)
      /\ MarksOf(w) \ {m} = low \cup off \cup HandMarks(w, inHand[w])
  BY <1>1, Below
<1>4. /\ m \in Marks /\ m.entry = Top(w).entry /\ m.from = Top(w).next
      /\ c = ChildrenOf(pack, m.entry)[m.from] /\ c \in Entries
      /\ pack \in Layout /\ Fits(pack, Marks, Settled)
  BY <1>1, TopTurn
<1>5. m.from = Len(ChildrenOf(pack, m.entry))
  <2>1. stack[w] # << >>
    BY <1>1, OnItsWay
  <2> QED
    BY <1>1, <1>4, <2>1, TopFacts
<1>6. c # NoEntry
  BY <1>4, DeltaWalkAssumption
<1>7. MarksBy(w, st, here, df, c) = (MarksOf(w) \ {m}) \cup X
  <2>1. MarksBy(w, st, here, df, c) = low \cup off \cup HandMarks(w, c)
    BY DEF MarksBy, Counted
  <2>2. HandMarks(w, inHand[w]) = {} /\ HandMarks(w, c) = X
    BY <1>2, <1>6 DEF HandMarks
  <2> HIDE DEF low, off, m, c, X
  <2> QED
    BY <1>3, <2>1, <2>2
<1>8. Replaces(m, X)
  <2> HIDE DEF st, df, here, m, c, X
  <2> QED
    BY <1>2, <1>3, <1>7, OneMark
<1>9. Fits(pack, Y, S1)
  <2> HIDE DEF m, c, t
  <2> QED
    BY <1>4, <1>5, FitsLast
<1>10. \A n \in X : n.entry \in C \cup {m.entry}
  BY DEF Mark
<1>11. Y = (Marks \ {m}) \cup X /\ S1 = Settled \cup C
  OBVIOUS
<1> HIDE DEF X, Y, S1, C, m
<1>12. Goes(C, C)
  BY <1>8, <1>9, <1>10, <1>11, GoesOn
<1> QED
  BY <1>12 DEF C

\* A mark that only moves.
LEMMA MovedMark ==
  ASSUME Tree, pack \in Layout, NEW m, NEW t, Replaces(m, {Mark(t, m.entry, m.from)})
  PROVE  Goes({}, {})
<1> DEFINE X == {Mark(t, m.entry, m.from)}
           Y == (Marks \ {m}) \cup X
           none == {}
<1>1. m \in Marks /\ Replaces(m, X)
  BY DEF Replaces
<1>2. Fits(pack, Y, Settled)
  BY <1>1, FitsMove DEF Tree
<1>3. /\ \A n \in X : n.entry \in none \cup {m.entry}
      /\ Y = (Marks \ {m}) \cup X /\ Settled = Settled \cup none
  BY DEF Mark
<1> HIDE DEF X, Y, none
<1>4. Goes(none, none)
  BY <1>1, <1>2, <1>3, GoesOn
<1> QED
  BY <1>4 DEF none

LEMMA MarksTakeOver ==
  ASSUME Books, Tree, NEW w \in Workers, TakeOver(w)
  PROVE  Goes({}, {})
<1> DEFINE st == stack[w]
           f == Front(st)
           df == deferred[w]
           here == "spread"
           c == inHand[w]
           m == Mark(<<w, "hand", 1>>, c, 1)
           low == StackMarks(w, f)
           off == OffMarks(w, df)
<1>1. pc[w] = "take" /\ TypeOK /\ Placed /\ pack \in Layout
  BY OnItsWay DEF TakeOver, Books
<1>2. /\ st \in Seq(Frame) /\ st # << >> /\ c \in Entries /\ df \in Seq(Entries)
      /\ deferred = [deferred EXCEPT ![w] = df]
  BY <1>1, OnItsWay
<1>3. c # NoEntry
  BY <1>2, DeltaWalkAssumption
<1>4. /\ inHand' = [inHand EXCEPT ![w] = NoEntry] /\ pc' = [pc EXCEPT ![w] = here]
  BY DEF TakeOver
<1>5. /\ f \in Seq(Frame) /\ Len(f) = Len(st) - 1
      /\ \A k \in 1..(Len(st) - 1) : k \in 1..Len(st) /\ f[k] = st[k]
  <2> HIDE DEF st
  <2> QED
    BY <1>2, FrontFacts
<1>6. m \in MarksOf(w) /\ MarksOf(w) \ {m} = low \cup off
  <2>1. MarksOf(w) = low \cup off \cup HandMarks(w, c)
    BY <1>1 DEF MarksOf, MarksBy, Counted
  <2>2. HandMarks(w, c) = {m}
    BY <1>3 DEF HandMarks
  <2>3. m \notin low \cup off
    BY MarkKinds
  <2> HIDE DEF m, low, off, c
  <2> QED
    BY <2>1, <2>2, <2>3
<1>7. HandMarks(w, NoEntry) = {}
  BY DEF HandMarks
<1>8. m.entry = c /\ m.from = 1
  BY DEF Mark
<1>9. \E t, st1, df1 :
        /\ Becomes(w, st1, here, df1, NoEntry)
        /\ MarksBy(w, st1, here, df1, NoEntry) = (MarksOf(w) \ {m}) \cup {Mark(t, c, 1)}
  <2>1. CASE CanTake(Depth(w), c)
    <3> DEFINE st1 == [st EXCEPT ![Len(st)] = Base(c)]
               t == <<w, "stack", Len(st)>>
               b == Mark(t, c, 1)
    <3>1. Becomes(w, st1, here, df, NoEntry)
      <4>1. stack' = [stack EXCEPT ![w] = [@ EXCEPT ![Depth(w)] = Base(c)]] /\ deferred' = deferred
        BY <2>1 DEF TakeOver
      <4>2. stack' = [stack EXCEPT ![w] = st1]
        BY <4>1 DEF Depth
      <4>3. deferred' = [deferred EXCEPT ![w] = df]
        BY <1>2, <4>1
      <4> QED
        BY <1>4, <4>2, <4>3 DEF Becomes
    <3>2. /\ st1 \in Seq(Frame) /\ Len(st1) = Len(st)
          /\ \A k \in 1..(Len(st) - 1) : st1[k] = st[k]
          /\ st1[Len(st)] = Base(c)
      <4>1. \A k \in 1..Len(st) : st[k].next >= 1
        BY <1>1 DEF Placed
      <4> HIDE DEF st, c
      <4> QED
        BY <1>2, <4>1, SwapFacts
    <3> HIDE DEF st1, f
    <3>3. StackMarks(w, st1) =
            StackMarks(w, f) \cup {Mark(<<w, "stack", Len(st1)>>, st1[Len(st1)].entry, st1[Len(st1)].next)}
      <4> HIDE DEF st, c
      <4>1. Len(st) \in Nat /\ 1..Len(f) = 1..(Len(st) - 1)
        BY <1>2, <1>5
      <4>2. Len(st1) = Len(f) + 1 /\ \A k \in 1..Len(f) : st1[k] = f[k]
        <5>1. Len(st1) = Len(f) + 1
          BY <1>5, <3>2, <4>1
        <5>2. ASSUME NEW k \in 1..Len(f) PROVE st1[k] = f[k]
          <6>1. k \in 1..(Len(st) - 1)
            BY <4>1, SMTT(30)
          <6> QED
            BY <1>5, <3>2, <6>1, SMTT(30)
        <5> QED
          BY <5>1, <5>2
      <4>3. f \in Seq(Frame) /\ st1 \in Seq(Frame)
        BY <1>5, <3>2
      <4> QED
        BY <4>2, <4>3, StackMore, SMTT(30)
    <3>4. StackMarks(w, st1) = low \cup {b}
      BY <3>2, <3>3 DEF Base
    <3>5. MarksBy(w, st1, here, df, NoEntry) = StackMarks(w, st1) \cup off \cup HandMarks(w, NoEntry)
      <4> HIDE DEF df
      <4> QED
        BY SpreadMarks
    <3> HIDE DEF b, df, m, c, low, off, t
    <3>6. MarksBy(w, st1, here, df, NoEntry) = (MarksOf(w) \ {m}) \cup {b}
      BY <1>6, <1>7, <3>4, <3>5
    <3> QED
      BY <3>1, <3>6 DEF b
  <2>2. CASE ~CanTake(Depth(w), c)
    <3> DEFINE df1 == Append(df, c)
               t == <<w, "off", Len(df) + 1>>
               b == Mark(t, c, 1)
    <3>1. Becomes(w, f, here, df1, NoEntry)
      BY <1>4, <2>2 DEF TakeOver, Becomes
    <3>2. OffMarks(w, df1) = off \cup {b}
      <4> HIDE DEF df, c
      <4> QED
        BY <1>2, PutOffMarks
    <3>3. MarksBy(w, f, here, df1, NoEntry) = low \cup OffMarks(w, df1) \cup HandMarks(w, NoEntry)
      <4> HIDE DEF df1, f
      <4> QED
        BY SpreadMarks
    <3> HIDE DEF b, df1, m, c, f, low, off, t
    <3>4. MarksBy(w, f, here, df1, NoEntry) = (MarksOf(w) \ {m}) \cup {b}
      BY <1>6, <1>7, <3>2, <3>3
    <3> QED
      BY <3>1, <3>4 DEF b
  <2> QED
    BY <2>1, <2>2
<1>10. PICK t, st1, df1 :
        /\ Becomes(w, st1, here, df1, NoEntry)
        /\ MarksBy(w, st1, here, df1, NoEntry) = (MarksOf(w) \ {m}) \cup {Mark(t, c, 1)}
  BY <1>9
<1> DEFINE X == {Mark(t, c, 1)}
           none == NoEntry
<1>11. Replaces(m, X)
  <2> HIDE DEF here, m, X, c
  <2> QED
    BY <1>6, <1>10, OneMark DEF X
<1>12. X = {Mark(t, m.entry, m.from)}
  BY <1>8
<1> HIDE DEF m, X
<1> QED
  BY <1>1, <1>11, <1>12, MovedMark

LEMMA MarksRebuild ==
  ASSUME Books, Tree, NEW w \in Workers, Rebuild(w)
  PROVE  LET d == Last(deferred[w])
         IN  /\ d \in Entries /\ \E m \in Marks : m.entry = d
             /\ IF Chain(d) \ {0} \subseteq Decodable THEN Goes({}, {})
                                                      ELSE Goes({}, SubtreeOf(pack, d))
<1> DEFINE df == deferred[w]
           f == Front(df)
           d == Last(df)
           m == Mark(<<w, "off", Len(df)>>, d, 1)
           off == OffMarks(w, f)
           bottom == << >>
           none == {}
<1>1. pc[w] = "drain" /\ TypeOK /\ Placed /\ pack \in Layout /\ df # << >>
  BY OnItsWay DEF Rebuild, Books
<1>2. /\ df \in Seq(Entries) /\ inHand[w] = NoEntry /\ stack[w] = bottom
      /\ inHand = [inHand EXCEPT ![w] = NoEntry] /\ stack = [stack EXCEPT ![w] = bottom]
      /\ pc = [pc EXCEPT ![w] = "drain"]
  BY <1>1, OnItsWay
<1>3. /\ f \in Seq(Entries) /\ Len(f) = Len(df) - 1
      /\ \A k \in 1..(Len(df) - 1) : k \in 1..Len(df) /\ f[k] = df[k]
      /\ d \in Entries /\ d = df[Len(df)] /\ Len(df) \in Nat
  <2> HIDE DEF df
  <2> QED
    BY <1>1, <1>2, FrontFacts
<1>4. HandMarks(w, NoEntry) = none /\ StackMarks(w, bottom) = none
  <2>1. 1..Len(bottom) = {}
    OBVIOUS
  <2> QED
    BY <2>1 DEF HandMarks, StackMarks
<1>5. OffMarks(w, df) = off \cup {m} /\ m \notin off
  <2>1. 1..Len(f) = 1..(Len(df) - 1) /\ Len(df) = Len(f) + 1
    BY <1>3
  <2>2. m = Mark(<<w, "off", Len(df)>>, df[Len(df)], 1)
    BY <1>3
  <2> HIDE DEF df, f, m
  <2>3. \A k \in 1..Len(f) : df[k] = f[k]
    BY <1>3, <2>1
  <2> QED
    BY <1>2, <1>3, <2>1, <2>2, <2>3, OffMore
<1>6. m \in MarksOf(w) /\ MarksOf(w) \ {m} = off
  <2>1. MarksOf(w) = StackMarks(w, bottom) \cup OffMarks(w, df) \cup HandMarks(w, NoEntry)
    BY <1>1, <1>2 DEF MarksOf, MarksBy, Counted
  <2> HIDE DEF m, off
  <2> QED
    BY <1>4, <1>5, <2>1
<1>7. inHand' = [inHand EXCEPT ![w] = NoEntry] /\ deferred' = [deferred EXCEPT ![w] = f]
  BY <1>2 DEF Rebuild
<1>8. m.entry = d /\ m.from = 1
  BY DEF Mark
<1>9. m \in Marks
  BY <1>6 DEF Marks, MarksOf
<1>10. CASE Chain(d) \ {0} \subseteq Decodable
  <2> DEFINE st1 == <<Base(d)>>
             here == "spread"
             t == <<w, "stack", 1>>
             X == {Mark(t, d, 1)}
  <2>1. Becomes(w, st1, here, f, NoEntry)
    BY <1>7, <1>10 DEF Rebuild, Becomes
  <2>2. StackMarks(w, st1) = X
    <3> HIDE DEF d
    <3>1. Len(st1) = 1 /\ st1[1].entry = d /\ st1[1].next = 1 /\ 1..1 = {1}
      BY DEF Base
    <3> HIDE DEF st1
    <3> QED
      BY <3>1 DEF StackMarks
  <2>3. MarksBy(w, st1, here, f, NoEntry) = StackMarks(w, st1) \cup off \cup HandMarks(w, NoEntry)
    <3> HIDE DEF st1, f
    <3> QED
      BY SpreadMarks
  <2>4. MarksBy(w, st1, here, f, NoEntry) = (MarksOf(w) \ {m}) \cup X
    <3> HIDE DEF st1, f, m, off, X
    <3> QED
      BY <1>4, <1>6, <2>2, <2>3
  <2>5. Replaces(m, X)
    <3> HIDE DEF st1, f, m, off, X, here
    <3> QED
      BY <1>6, <2>1, <2>4, OneMark
  <2>6. X = {Mark(t, m.entry, m.from)}
    BY <1>8
  <2>7. Goes({}, {})
    <3> HIDE DEF m, X, t
    <3> QED
      BY <1>1, <2>5, <2>6, MovedMark
  <2> QED
    BY <1>3, <1>8, <1>9, <1>10, <2>7
<1>11. CASE ~(Chain(d) \ {0} \subseteq Decodable)
  <2> DEFINE T == SubtreeOf(pack, d)
             here == "drain"
             Y == Marks \ {m}
             S1 == Settled \cup T
  <2>1. Becomes(w, bottom, here, f, NoEntry)
    BY <1>2, <1>7, <1>11 DEF Rebuild, Becomes
  <2>2. MarksBy(w, bottom, here, f, NoEntry) = StackMarks(w, bottom) \cup off \cup HandMarks(w, NoEntry)
    <3> HIDE DEF bottom, f
    <3> QED
      BY SpreadMarks
  <2>3. MarksBy(w, bottom, here, f, NoEntry) = (MarksOf(w) \ {m}) \cup none
    <3> HIDE DEF bottom, f, m, off, none
    <3> QED
      BY <1>4, <1>6, <2>2 DEF none
  <2>4. Replaces(m, none)
    <3> HIDE DEF bottom, f, m, off, none, here
    <3> QED
      BY <1>6, <2>1, <2>3, OneMark
  <2>5. Fits(pack, Y, S1)
    <3>1. Fits(pack, Marks \ {m}, Settled \cup SubtreeOf(pack, m.entry))
      <4> HIDE DEF m
      <4> QED
        BY <1>1, <1>8, <1>9, FitsFail DEF Tree
    <3> QED
      BY <1>8, <3>1
  <2>6. Y = (Marks \ {m}) \cup none /\ S1 = Settled \cup T /\ \A n \in none : n.entry \in none \cup {m.entry}
    OBVIOUS
  <2>7. Goes(none, T)
    <3> HIDE DEF m, Y, S1, T, none
    <3> QED
      BY <2>4, <2>5, <2>6, GoesOn
  <2> QED
    BY <1>3, <1>8, <1>9, <1>11, <2>7
<1> QED
  BY <1>10, <1>11

(***************************************************************************)
(* What is to be had from a pack.                                          *)
(***************************************************************************)

BadOf(p) == {i \in Entries : \/ p.header[i].kind = "unreadable"
                             \/ p.header[i].kind = "delta" /\ ParentOf(p, i) = 0}
ForestOf(p) == {i \in Entries : 0 \in ChainOf(p, i)}
SoundIn(p, r) == {i \in ForestOf(p) : /\ ChainOf(p, i) \cap BadOf(p) = {}
                                      /\ ChainOf(p, i) \ {0} \subseteq p.decodes \ r}

LEMMA OfForest ==
  /\ Bad = BadOf(pack) /\ InForest = ForestOf(pack) /\ Sound = SoundIn(pack, rotten)
  /\ Decodable = pack.decodes \ rotten /\ \A i : Subtree(i) = SubtreeOf(pack, i)
<1>1. Bad = BadOf(pack)
  BY DEF Bad, BadOf, Parent, ParentOf
<1>2. InForest = ForestOf(pack)
  BY DEF InForest, ForestOf, Chain, ChainOf, Parent, ParentOf
<1>3. Decodable = pack.decodes \ rotten
  BY DEF Decodable
<1>4. Sound = SoundIn(pack, rotten)
  <2>1. \A i : Chain(i) = ChainOf(pack, i)
    BY OfPack
  <2> QED
    BY <1>1, <1>2, <1>3, <2>1 DEF Sound, SoundIn
<1>5. \A i : Subtree(i) = SubtreeOf(pack, i)
  BY DEF Subtree, SubtreeOf, Chain, ChainOf, Parent, ParentOf
<1> QED
  BY <1>1, <1>2, <1>3, <1>4, <1>5

\* What stands on an entry that is bad or does not decode is not to be had.
LEMMA SinkFacts ==
  ASSUME NEW p \in Layout, NEW r, NEW c \in ForestOf(p), c \in BadOf(p) \/ c \notin p.decodes \ r
  PROVE  SubtreeOf(p, c) \subseteq ForestOf(p) \ SoundIn(p, r)
<1>1. Entries \subseteq 0..N /\ 0 \notin Entries
  BY DeltaWalkAssumption DEF Entries
<1>2. ASSUME NEW x \in SubtreeOf(p, c) PROVE x \in ForestOf(p) \ SoundIn(p, r)
  <2>1. x \in Entries /\ c \in ChainOf(p, x) /\ c \in Entries /\ 0 \in ChainOf(p, c)
    BY DEF SubtreeOf, ForestOf
  <2>2. ChainOf(p, c) \subseteq ChainOf(p, x)
    BY <1>1, <2>1, ChainWithin
  <2>3. x \in ForestOf(p)
    BY <2>1, <2>2 DEF ForestOf
  <2>4. x \notin SoundIn(p, r)
    BY <1>1, <2>1 DEF SoundIn
  <2> QED
    BY <2>3, <2>4
<1> QED
  BY <1>2

\* An entry that stands on one that is to be had.
LEMMA SoundStep ==
  ASSUME NEW p \in Layout, NEW r, NEW c \in Entries, ParentOf(p, c) # 0, ParentOf(p, c) \in SoundIn(p, r)
  PROVE  c \in ForestOf(p) /\ (c \in p.decodes \ r => c \in SoundIn(p, r))
<1> DEFINE e == ParentOf(p, c)
<1>1. Entries \subseteq 0..N /\ 0 \notin Entries
  BY DeltaWalkAssumption DEF Entries
<1>2. Up(p, c) = e
  BY <1>1 DEF Up
<1>3. ChainOf(p, c) = {c} \cup ChainOf(p, e)
  BY <1>1, <1>2, ChainGrows
<1>4. c \notin BadOf(p)
  BY DEF BadOf, ParentOf
<1>5. 0 \in ChainOf(p, e) /\ ChainOf(p, e) \cap BadOf(p) = {} /\ ChainOf(p, e) \ {0} \subseteq p.decodes \ r
  BY DEF SoundIn, ForestOf
<1> HIDE DEF e
<1>6. c \in ForestOf(p)
  BY <1>3, <1>5 DEF ForestOf
<1>7. c \in p.decodes \ r => c \in SoundIn(p, r)
  <2> DEFINE D == p.decodes \ r
  <2>1. ASSUME c \in D PROVE ChainOf(p, c) \cap BadOf(p) = {} /\ ChainOf(p, c) \ {0} \subseteq D
    BY <1>3, <1>4, <1>5, <2>1
  <2> QED
    BY <1>6, <2>1 DEF SoundIn
<1> QED
  BY <1>6, <1>7

\* An entry that stands on none.
LEMMA RootFacts ==
  ASSUME NEW p \in Layout, NEW r, NEW i \in Entries, ParentOf(p, i) = 0
  PROVE  /\ i \in ForestOf(p)
         /\ i \notin BadOf(p) /\ i \in p.decodes \ r => i \in SoundIn(p, r)
<1>1. Entries \subseteq 0..N /\ 0 \notin Entries
  BY DeltaWalkAssumption DEF Entries
<1>2. Up(p, i) = 0
  BY <1>1 DEF Up
<1>3. ChainOf(p, i) = {i, 0}
  BY <1>1, <1>2, ChainGrows, ChainOfNone
<1>4. 0 \notin BadOf(p)
  BY <1>1 DEF BadOf
<1>5. i \in ForestOf(p)
  BY <1>3 DEF ForestOf
<1>6. i \notin BadOf(p) /\ i \in p.decodes \ r => i \in SoundIn(p, r)
  BY <1>3, <1>4, <1>5 DEF SoundIn
<1> QED
  BY <1>5, <1>6

\* Of the entries that stand on none, one alone stands on itself.
LEMMA NoRootAbove ==
  ASSUME NEW p \in Layout, NEW c \in Entries, NEW x \in SubtreeOf(p, c), ParentOf(p, x) = 0
  PROVE  x = c
BY SubtreeStep DEF SubtreeOf

(***************************************************************************)
(* What is true of the walk.                                               *)
(***************************************************************************)

Began == phase \in {"crc", "walk"} \/ (phase = "over" /\ pack.opens = "yes")
Walked == phase = "walk" \/ (phase = "over" /\ pack.opens = "yes")

\* Of the entries that stand on none, the bad ones are settled before the
\* walk, and the others when they are claimed.
RootsSeen ==
  /\ ~Began => Settled = {}
  /\ Began => \A r \in Entries : ParentOf(pack, r) = 0 =>
                (r \in Settled <=> r \in BadOf(pack) \/ (Walked /\ r <= next))

Once == \A i \in Entries : delivered[i] <= 1

\* In a file that did not change, what was delivered and reported is what is
\* to be had and what is not, and what is left to do is to be had.
Right ==
  rotten = {} =>
    /\ \A i \in Entries :
         /\ delivered[i] + reported[i] <= 1
         /\ delivered[i] > 0 => i \in SoundIn(pack, rotten) \cap pack.hashes
         /\ reported[i] > 0 => i \in ForestOf(pack) \ (SoundIn(pack, rotten) \cap pack.hashes)
    /\ \A m \in Marks : m.entry \in SoundIn(pack, rotten)

\* The inductive invariant of the walk.
Walk == Books /\ Tree /\ RootsSeen /\ Once /\ Right

LEMMA MarksNone ==
  ASSUME Books, \A w \in Workers : pc[w] \in {"idle", "claim", "left"}
  PROVE  Marks = {}
<1>1. ASSUME NEW w \in Workers PROVE MarksOf(w) = {}
  <2> DEFINE none == << >>
  <2>1. stack[w] = none /\ deferred[w] = none /\ inHand[w] = NoEntry /\ pc[w] # "take"
    BY DEF Books, Placed
  <2>2. 1..Len(none) = {}
    OBVIOUS
  <2> HIDE DEF none
  <2>3. MarksOf(w) = StackMarks(w, none) \cup OffMarks(w, none) \cup HandMarks(w, NoEntry)
    BY <2>1 DEF MarksOf, MarksBy, Counted
  <2>4. StackMarks(w, none) = {} /\ OffMarks(w, none) = {} /\ HandMarks(w, NoEntry) = {}
    BY <2>2 DEF StackMarks, OffMarks, HandMarks
  <2> QED
    BY <2>3, <2>4
<1> QED
  BY <1>1 DEF Marks, MarksOf

LEMMA FinishSettles ==
  ASSUME TypeOK, NEW c \in Entries, Finish(c)
  PROVE  /\ Settled' = Settled \cup {c}
         /\ \A i \in Entries : i # c => delivered'[i] = delivered[i] /\ reported'[i] = reported[i]
         /\ c \in pack.hashes => delivered'[c] = delivered[c] + 1 /\ reported'[c] = reported[c]
         /\ c \notin pack.hashes => delivered'[c] = delivered[c] /\ reported'[c] = reported[c] + 1
         /\ delivered[c] \in Nat /\ reported[c] \in Nat
<1>1. delivered \in [Entries -> Nat] /\ reported \in [Entries -> Nat]
  BY DEF TypeOK
<1>2. \/ c \in pack.hashes /\ delivered' = [delivered EXCEPT ![c] = delivered[c] + 1] /\ reported' = reported
      \/ /\ c \notin pack.hashes /\ delivered' = delivered
         /\ reported' = [i \in Entries |-> reported[i] + IF i \in {c} THEN 1 ELSE 0]
  BY DEF Finish, Report
<1>3. /\ \A i \in Entries : i # c => delivered'[i] = delivered[i] /\ reported'[i] = reported[i]
      /\ c \in pack.hashes => delivered'[c] = delivered[c] + 1 /\ reported'[c] = reported[c]
      /\ c \notin pack.hashes => delivered'[c] = delivered[c] /\ reported'[c] = reported[c] + 1
  <2>1. CASE c \in pack.hashes
    BY <1>1, <1>2, <2>1
  <2>2. CASE c \notin pack.hashes
    <3>1. \A i \in Entries : reported'[i] = reported[i] + IF i = c THEN 1 ELSE 0
      BY <1>2, <2>2
    <3> QED
      BY <1>1, <1>2, <2>2, <3>1
  <2> QED
    BY <2>1, <2>2
<1>4. delivered[c] \in Nat /\ reported[c] \in Nat
  BY <1>1
<1>5. \A i : i \in Settled' <=> i \in Entries /\ delivered'[i] + reported'[i] > 0
  BY DEF Settled
<1>6. \A i : i \in Settled <=> i \in Entries /\ delivered[i] + reported[i] > 0
  BY DEF Settled
<1>7. delivered'[c] + reported'[c] > 0
  BY <1>3, <1>4
<1>8. \A i : i \in Settled' <=> i \in Settled \cup {c}
  BY <1>3, <1>5, <1>6, <1>7
<1>9. Settled' = Settled \cup {c}
  <2> DEFINE A == Settled'
             B == Settled \cup {c}
  <2>1. \A i : i \in A <=> i \in B
    BY <1>8
  <2> HIDE DEF A, B
  <2>2. A \subseteq B /\ B \subseteq A
    BY <2>1
  <2>3. A = B
    BY <2>1, <2>2
  <2> QED
    BY <2>3 DEF A, B
<1> QED
  BY <1>3, <1>4, <1>9

LEMMA ReportSettles ==
  ASSUME TypeOK, NEW T, T \subseteq Entries, Report(T)
  PROVE  /\ Settled' = Settled \cup T
         /\ delivered' = delivered
         /\ \A i \in Entries : reported'[i] = reported[i] + IF i \in T THEN 1 ELSE 0
<1>1. delivered \in [Entries -> Nat] /\ reported \in [Entries -> Nat]
  BY DEF TypeOK
<1>2. /\ delivered' = delivered
      /\ \A i \in Entries : reported'[i] = reported[i] + IF i \in T THEN 1 ELSE 0
  BY DEF Report
<1>3. \A i : i \in Settled' <=> i \in Entries /\ delivered'[i] + reported'[i] > 0
  BY DEF Settled
<1>4. \A i : i \in Settled <=> i \in Entries /\ delivered[i] + reported[i] > 0
  BY DEF Settled
<1>5. ASSUME NEW i \in Entries
      PROVE  delivered'[i] + reported'[i] > 0 <=> delivered[i] + reported[i] > 0 \/ i \in T
  <2>1. CASE i \in T
    BY <1>1, <1>2, <2>1
  <2>2. CASE i \notin T
    BY <1>1, <1>2, <2>2
  <2> QED
    BY <2>1, <2>2
<1>6. Settled' = Settled \cup T
  <2> DEFINE A == Settled'
             B == Settled \cup T
  <2>1. \A i : i \in A <=> i \in B
    BY <1>3, <1>4, <1>5
  <2> HIDE DEF A, B
  <2>2. A \subseteq B /\ B \subseteq A
    BY <2>1
  <2>3. A = B
    BY <2>1, <2>2
  <2> QED
    BY <2>3 DEF A, B
<1> QED
  BY <1>2, <1>6

\* What a step that settles T has of the tree after it.
LEMMA TreeGoes ==
  ASSUME NEW E, NEW T, Goes(E, T), pack' = pack, Settled' = Settled \cup T
  PROVE  Tree'
<1>1. Fits(pack, Marks', Settled \cup T)
  BY DEF Goes
<1> DEFINE M == Marks'
           S == Settled'
           p == pack'
<1>2. Fits(p, M, S)
  <2>1. Fits(pack, M, Settled \cup T) /\ p = pack /\ S = Settled \cup T
    BY <1>1
  <2> HIDE DEF M, S, p
  <2> QED
    BY <2>1
<1> QED
  BY <1>2 DEF Tree

\* An entry that was decoded is delivered or reported, for the first time.
LEMMA StepFinish ==
  ASSUME Walk, pack' = pack, rotten' = rotten, NEW c \in Entries \ Settled, Finish(c),
         NEW E, E \subseteq {c}, NEW C, C = {c}, Goes(E, C),
         rotten = {} => c \in SoundIn(pack, rotten)
  PROVE  Tree' /\ Once' /\ Right' /\ Settled' = Settled \cup {c}
<1>1. /\ TypeOK /\ Once /\ Right
      /\ delivered \in [Entries -> Nat] /\ reported \in [Entries -> Nat]
  BY DEF Walk, Books, TypeOK
<1>2. /\ Settled' = Settled \cup {c}
      /\ \A i \in Entries : i # c => delivered'[i] = delivered[i] /\ reported'[i] = reported[i]
      /\ c \in pack.hashes => delivered'[c] = delivered[c] + 1 /\ reported'[c] = reported[c]
      /\ c \notin pack.hashes => delivered'[c] = delivered[c] /\ reported'[c] = reported[c] + 1
  BY <1>1, FinishSettles
<1>3. Tree'
  BY <1>2, TreeGoes
<1>4. delivered[c] = 0 /\ reported[c] = 0
  BY <1>1 DEF Settled
<1>5. Once'
  <2>1. ASSUME NEW i \in Entries PROVE delivered'[i] <= 1
    <3>1. CASE i = c
      BY <1>2, <1>4, <3>1
    <3>2. CASE i # c
      BY <1>1, <1>2, <3>2 DEF Once
    <3> QED
      BY <3>1, <3>2
  <2> QED
    BY <2>1 DEF Once
<1>6. ASSUME rotten = {} PROVE Right'
  <2> DEFINE A == SoundIn(pack, rotten)
             F == ForestOf(pack)
             H == pack.hashes
  <2>1. A \subseteq F /\ c \in A
    BY <1>6 DEF SoundIn
  <2>2. /\ \A i \in Entries : /\ delivered[i] + reported[i] <= 1
                              /\ delivered[i] > 0 => i \in A \cap H
                              /\ reported[i] > 0 => i \in F \ (A \cap H)
        /\ \A m \in Marks : m.entry \in A
    BY <1>1, <1>6 DEF Right
  <2>3. SoundIn(pack', rotten') = A /\ ForestOf(pack') = F /\ pack'.hashes = H
    OBVIOUS
  <2> HIDE DEF A, F, H
  <2>4. ASSUME NEW i \in Entries PROVE /\ delivered'[i] + reported'[i] <= 1
                                       /\ delivered'[i] > 0 => i \in A \cap H
                                       /\ reported'[i] > 0 => i \in F \ (A \cap H)
    <3>1. CASE i # c
      BY <1>2, <2>2, <3>1
    <3>2. CASE i = c /\ c \in H
      <4>1. delivered'[c] = 1 /\ reported'[c] = 0
        BY <1>2, <1>4, <3>2 DEF H
      <4> QED
        BY <2>1, <3>2, <4>1
    <3>3. CASE i = c /\ c \notin H
      <4>1. delivered'[c] = 0 /\ reported'[c] = 1
        BY <1>2, <1>4, <3>3 DEF H
      <4> QED
        BY <2>1, <3>3, <4>1
    <3> QED
      BY <3>1, <3>2, <3>3
  <2>5. \A m \in Marks' : m.entry \in A
    BY <2>1, <2>2 DEF Goes
  <2> QED
    BY <2>3, <2>4, <2>5 DEF Right
<1>7. Right'
  <2>1. CASE rotten = {}
    BY <1>6, <2>1
  <2>2. CASE rotten # {}
    BY <2>2 DEF Right
  <2> QED
    BY <2>1, <2>2
<1> QED
  BY <1>2, <1>3, <1>5, <1>7

\* What stands on an entry that is not to be had is reported.
LEMMA StepReport ==
  ASSUME Walk, pack' = pack, rotten' = rotten, NEW T, T \subseteq Entries, Report(T),
         NEW E, E = {}, Goes(E, T),
         rotten = {} => T \cap Settled = {} /\ T \subseteq ForestOf(pack) \ SoundIn(pack, rotten)
  PROVE  Tree' /\ Once' /\ Right' /\ Settled' = Settled \cup T
<1>1. /\ TypeOK /\ Once /\ Right
      /\ delivered \in [Entries -> Nat] /\ reported \in [Entries -> Nat]
  BY DEF Walk, Books, TypeOK
<1>2. /\ Settled' = Settled \cup T /\ delivered' = delivered
      /\ \A i \in Entries : reported'[i] = reported[i] + IF i \in T THEN 1 ELSE 0
  BY <1>1, ReportSettles
<1>3. Tree'
  BY <1>2, TreeGoes
<1>4. Once'
  BY <1>1, <1>2 DEF Once
<1>5. ASSUME rotten = {} PROVE Right'
  <2> DEFINE A == SoundIn(pack, rotten)
             F == ForestOf(pack)
             H == pack.hashes
  <2>1. T \subseteq F \ A /\ T \cap Settled = {}
    BY <1>5
  <2>2. /\ \A i \in Entries : /\ delivered[i] + reported[i] <= 1
                              /\ delivered[i] > 0 => i \in A \cap H
                              /\ reported[i] > 0 => i \in F \ (A \cap H)
        /\ \A m \in Marks : m.entry \in A
    BY <1>1, <1>5 DEF Right
  <2>3. SoundIn(pack', rotten') = A /\ ForestOf(pack') = F /\ pack'.hashes = H
    OBVIOUS
  <2> HIDE DEF A, F, H
  <2>4. ASSUME NEW i \in Entries PROVE /\ delivered'[i] + reported'[i] <= 1
                                       /\ delivered'[i] > 0 => i \in A \cap H
                                       /\ reported'[i] > 0 => i \in F \ (A \cap H)
    <3>1. CASE i \notin T
      <4>1. delivered'[i] = delivered[i] /\ reported'[i] = reported[i]
        BY <1>1, <1>2, <3>1
      <4> QED
        BY <2>2, <4>1
    <3>2. CASE i \in T
      <4>1. delivered[i] = 0 /\ reported[i] = 0
        BY <1>1, <2>1, <3>2 DEF Settled
      <4>2. delivered'[i] = 0 /\ reported'[i] = 1
        BY <1>2, <3>2, <4>1
      <4> QED
        BY <2>1, <3>2, <4>2
    <3> QED
      BY <3>1, <3>2
  <2>5. \A m \in Marks' : m.entry \in A
    BY <2>2 DEF Goes
  <2> QED
    BY <2>3, <2>4, <2>5 DEF Right
<1>6. Right'
  <2>1. CASE rotten = {}
    BY <1>5, <2>1
  <2>2. CASE rotten # {}
    BY <2>2 DEF Right
  <2> QED
    BY <2>1, <2>2
<1> QED
  BY <1>2, <1>3, <1>4, <1>6

\* A step that settles nothing.
LEMMA StepQuiet ==
  ASSUME Walk, pack' = pack, rotten' = rotten \/ rotten' # {}, delivered' = delivered, reported' = reported,
         NEW E, E = {}, Goes(E, E)
  PROVE  Tree' /\ Once' /\ Right' /\ Settled' = Settled
<1>1. Once /\ Right
  BY DEF Walk
<1>2. Settled' = Settled
  BY DEF Settled
<1>3. Tree'
  <2>1. Settled' = Settled \cup E
    BY <1>2
  <2> QED
    BY <2>1, TreeGoes
<1>4. Once'
  BY <1>1 DEF Once
<1>5. Right'
  <2>1. CASE rotten' # {}
    BY <2>1 DEF Right
  <2>2. CASE rotten' = {}
    <3>1. rotten = {} /\ rotten' = rotten
      BY <2>2
    <3>2. /\ SoundIn(pack', rotten') = SoundIn(pack, rotten)
          /\ ForestOf(pack') = ForestOf(pack) /\ pack'.hashes = pack.hashes
      BY <3>1
    <3> DEFINE A == SoundIn(pack, rotten)
               F == ForestOf(pack)
               H == pack.hashes
    <3>3. /\ \A i \in Entries : /\ delivered[i] + reported[i] <= 1
                                /\ delivered[i] > 0 => i \in A \cap H
                                /\ reported[i] > 0 => i \in F \ (A \cap H)
          /\ \A m \in Marks : m.entry \in A
      BY <1>1, <3>1 DEF Right
    <3> HIDE DEF A, F, H
    <3>4. \A m \in Marks' : m.entry \in A
      BY <3>3 DEF Goes
    <3>5. SoundIn(pack', rotten') = A /\ ForestOf(pack') = F /\ pack'.hashes = H
      BY <3>2 DEF A, F, H
    <3> QED
      BY <3>3, <3>4, <3>5 DEF Right
  <2> QED
    BY <2>1, <2>2
<1> QED
  BY <1>2, <1>3, <1>4, <1>5

\* A step of the walk that settles no entry that stands on none.
LEMMA RootsKept ==
  ASSUME RootsSeen, phase = "walk", UNCHANGED <<phase, pack, next>>, NEW T, Settled' = Settled \cup T,
         \A x \in T : ParentOf(pack, x) = 0 => x \in Settled
  PROVE  RootsSeen'
<1>1. Began /\ Walked /\ Began' /\ Walked'
  BY DEF Began, Walked
<1>2. \A r \in Entries : ParentOf(pack, r) = 0 => (r \in Settled <=> r \in BadOf(pack) \/ r <= next)
  BY <1>1 DEF RootsSeen
<1>3. /\ \A i : ParentOf(pack', i) = ParentOf(pack, i)
      /\ BadOf(pack') = BadOf(pack) /\ next' = next
  OBVIOUS
<1> DEFINE A == Settled'
           B == BadOf(pack)
<1>4. A = Settled \cup T
  OBVIOUS
<1> HIDE DEF A, B
<1>5. \A r \in Entries : ParentOf(pack, r) = 0 => (r \in A <=> r \in B \/ r <= next)
  BY <1>2, <1>4 DEF B
<1> QED
  BY <1>1, <1>3, <1>5 DEF RootsSeen, A, B

LEMMA WalkVisitLeaf ==
  ASSUME Walk, NEW w \in Workers, VisitLeaf(w)
  PROVE  Walk'
<1> DEFINE c == Child(w)
           T == SubtreeOf(pack, c)
           C == {c}
           none == {}
           p == pack
<1>1. Books /\ Tree /\ RootsSeen /\ Right /\ TypeOK
  BY DEF Walk, Books
<1>2. pc[w] = "spread" /\ ~Exhausted(w) /\ UNCHANGED <<pack, rotten, phase, next>>
  BY DEF VisitLeaf
<1>3. /\ c \in Entries \ Settled /\ ParentOf(p, c) # 0 /\ p \in Layout
      /\ TopMark(w) \in Marks /\ ParentOf(p, c) = TopMark(w).entry
  BY <1>1, <1>2, TopTurn
<1>4. phase = "walk" /\ Books'
  BY <1>1, <1>2, OnItsWay, BooksVisitLeaf
<1>5. rotten = {} => ParentOf(p, c) \in SoundIn(p, rotten)
  BY <1>1, <1>3 DEF Right
<1>6. rotten = {} => c \in ForestOf(p) /\ (c \in p.decodes \ rotten => c \in SoundIn(p, rotten))
  <2> HIDE DEF c
  <2> QED
    BY <1>3, <1>5, SoundStep
<1>7. CASE c \in Decodable
  <2>1. Finish(c) /\ Goes(none, C)
    BY <1>1, <1>7, MarksVisitLeaf DEF VisitLeaf
  <2>2. rotten = {} => c \in SoundIn(p, rotten)
    BY <1>6, <1>7, OfForest
  <2>3. none \subseteq {c} /\ C = {c}
    OBVIOUS
  <2> HIDE DEF c, none, C
  <2>4. Tree' /\ Once' /\ Right' /\ Settled' = Settled \cup {c}
    BY <1>2, <1>3, <2>1, <2>2, <2>3, StepFinish
  <2>5. Settled' = Settled \cup C /\ \A x \in C : ParentOf(pack, x) = 0 => x \in Settled
    BY <1>3, <2>3, <2>4
  <2>6. RootsSeen'
    BY <1>1, <1>2, <1>4, <2>5, RootsKept
  <2> QED
    BY <1>4, <2>4, <2>6 DEF Walk
<1>8. CASE c \notin Decodable
  <2>1. Report(T) /\ Goes(none, T) /\ Settled \cap T = {}
    BY <1>1, <1>8, MarksVisitLeaf, OfForest DEF VisitLeaf
  <2>2. rotten = {} => T \cap Settled = {} /\ T \subseteq ForestOf(pack) \ SoundIn(pack, rotten)
    <3>1. c \notin p.decodes \ rotten
      BY <1>8, OfForest
    <3> HIDE DEF c
    <3>2. rotten = {} => T \subseteq ForestOf(pack) \ SoundIn(pack, rotten)
      BY <1>3, <1>6, <3>1, SinkFacts
    <3> QED
      BY <2>1, <3>2
  <2>3. none = {} /\ T \subseteq Entries
    BY DEF SubtreeOf
  <2>4. \A x \in T : ParentOf(pack, x) = 0 => x \in Settled
    <3> HIDE DEF c
    <3> QED
      BY <1>3, NoRootAbove
  <2> HIDE DEF c, none, T
  <2>5. Tree' /\ Once' /\ Right' /\ Settled' = Settled \cup T
    BY <1>2, <2>1, <2>2, <2>3, StepReport
  <2>6. RootsSeen'
    BY <1>1, <1>2, <1>4, <2>4, <2>5, RootsKept
  <2> QED
    BY <1>4, <2>5, <2>6 DEF Walk
<1> QED
  BY <1>7, <1>8

\* A child that is a base itself is finished, and has a mark of its own.
LEMMA WalkOpens ==
  ASSUME Walk, Books', NEW w \in Workers, pc[w] = "spread", ~Exhausted(w), Child(w) \in Decodable,
         Finish(Child(w)), Goes({Child(w)}, {Child(w)}), UNCHANGED <<pack, rotten, phase, next>>
  PROVE  Walk'
<1> DEFINE c == Child(w)
           C == {c}
           p == pack
<1>1. Books /\ Tree /\ RootsSeen /\ Right /\ TypeOK
  BY DEF Walk, Books
<1>2. /\ c \in Entries \ Settled /\ ParentOf(p, c) # 0 /\ p \in Layout
      /\ TopMark(w) \in Marks /\ ParentOf(p, c) = TopMark(w).entry
  BY <1>1, TopTurn
<1>3. phase = "walk"
  BY <1>1, OnItsWay
<1>4. rotten = {} => ParentOf(p, c) \in SoundIn(p, rotten)
  BY <1>1, <1>2 DEF Right
<1>5. c \in p.decodes \ rotten
  BY OfForest
<1>6. Finish(c) /\ Goes(C, C) /\ C = {c} /\ C \subseteq {c}
  OBVIOUS
<1> HIDE DEF c, C
<1>7. rotten = {} => c \in SoundIn(p, rotten)
  BY <1>2, <1>4, <1>5, SoundStep
<1>8. Tree' /\ Once' /\ Right' /\ Settled' = Settled \cup {c}
  BY <1>2, <1>6, <1>7, StepFinish
<1>9. Settled' = Settled \cup C /\ \A x \in C : ParentOf(pack, x) = 0 => x \in Settled
  BY <1>2, <1>6, <1>8
<1>10. RootsSeen'
  BY <1>1, <1>3, <1>9, RootsKept
<1> QED
  BY <1>8, <1>10 DEF Walk

LEMMA WalkVisitBase ==
  ASSUME Walk, NEW w \in Workers, VisitBase(w)
  PROVE  Walk'
<1>1. Books /\ Tree
  BY DEF Walk
<1>2. Books' /\ Goes({Child(w)}, {Child(w)})
  BY <1>1, BooksVisitBase, MarksVisitBase
<1>3. /\ pc[w] = "spread" /\ ~Exhausted(w) /\ Child(w) \in Decodable /\ Finish(Child(w))
      /\ UNCHANGED <<pack, rotten, phase, next>>
  BY DEF VisitBase
<1> QED
  BY <1>2, <1>3, WalkOpens

LEMMA WalkHandOver ==
  ASSUME Walk, NEW w \in Workers, HandOver(w)
  PROVE  Walk'
<1>1. Books /\ Tree
  BY DEF Walk
<1>2. Books' /\ Goes({Child(w)}, {Child(w)})
  BY <1>1, BooksHandOver, MarksHandOver
<1>3. /\ pc[w] = "spread" /\ ~Exhausted(w) /\ Child(w) \in Decodable /\ Finish(Child(w))
      /\ UNCHANGED <<pack, rotten, phase, next>>
  BY DEF HandOver
<1> QED
  BY <1>2, <1>3, WalkOpens

\* A step of a worker that settles nothing.
LEMMA WalkQuiet ==
  ASSUME Walk, Books', phase = "walk", UNCHANGED <<pack, rotten, phase, next, results>>, Goes({}, {})
  PROVE  Walk'
<1> DEFINE none == {}
<1>1. RootsSeen /\ delivered' = delivered /\ reported' = reported /\ Goes(none, none) /\ none = {}
  BY DEF Walk, results
<1> HIDE DEF none
<1>2. Tree' /\ Once' /\ Right' /\ Settled' = Settled
  BY <1>1, StepQuiet
<1>3. Settled' = Settled \cup none /\ \A x \in none : ParentOf(pack, x) = 0 => x \in Settled
  BY <1>1, <1>2
<1>4. RootsSeen'
  BY <1>1, <1>3, RootsKept
<1> QED
  BY <1>2, <1>4 DEF Walk

LEMMA WalkPopBase ==
  ASSUME Walk, NEW w \in Workers, PopBase(w)
  PROVE  Walk'
<1>1. Books /\ Tree /\ pc[w] = "spread"
  BY DEF Walk, PopBase
<1>2. Books' /\ Goes({}, {}) /\ phase = "walk"
  BY <1>1, BooksPopBase, MarksPopBase, OnItsWay
<1>3. UNCHANGED <<pack, rotten, phase, next, results>>
  BY DEF PopBase
<1> QED
  BY <1>2, <1>3, WalkQuiet

LEMMA WalkTakeOver ==
  ASSUME Walk, NEW w \in Workers, TakeOver(w)
  PROVE  Walk'
<1>1. Books /\ Tree /\ pc[w] = "take"
  BY DEF Walk, TakeOver
<1>2. Books' /\ Goes({}, {}) /\ phase = "walk"
  BY <1>1, BooksTakeOver, MarksTakeOver, OnItsWay
<1>3. UNCHANGED <<pack, rotten, phase, next, results>>
  BY DEF TakeOver
<1> QED
  BY <1>2, <1>3, WalkQuiet

LEMMA WalkRebuild ==
  ASSUME Walk, NEW w \in Workers, Rebuild(w)
  PROVE  Walk'
<1> DEFINE d == Last(deferred[w])
           T == SubtreeOf(pack, d)
           none == {}
<1>1. Books /\ Tree /\ Right /\ RootsSeen /\ pc[w] = "drain"
  BY DEF Walk, Rebuild
<1>2. Books' /\ phase = "walk" /\ pack \in Layout
  BY <1>1, BooksRebuild, OnItsWay
<1>3. /\ d \in Entries /\ \E m \in Marks : m.entry = d
      /\ IF Chain(d) \ {0} \subseteq Decodable THEN Goes({}, {}) ELSE Goes({}, T)
  BY <1>1, MarksRebuild
<1>4. UNCHANGED <<pack, rotten, phase, next>>
  BY DEF Rebuild
<1>5. CASE Chain(d) \ {0} \subseteq Decodable
  <2>1. UNCHANGED results
    BY <1>5 DEF Rebuild
  <2> QED
    BY <1>2, <1>3, <1>4, <1>5, <2>1, WalkQuiet
<1>6. CASE ~(Chain(d) \ {0} \subseteq Decodable)
  <2>1. Report(T) /\ Goes(none, T) /\ none = {}
    BY <1>3, <1>6, OfForest DEF Rebuild
  <2>2. rotten # {}
    <3>1. ASSUME rotten = {} PROVE d \in SoundIn(pack, rotten)
      BY <1>1, <1>3, <3>1 DEF Right
    <3>2. d \in SoundIn(pack, rotten) => ChainOf(pack, d) \ {0} \subseteq pack.decodes \ rotten
      BY DEF SoundIn
    <3> QED
      BY <1>6, <3>1, <3>2, OfPack, OfForest
  <2>3. T \subseteq Entries
    BY DEF SubtreeOf
  <2>4. \A x \in T : ParentOf(pack, x) = 0 => x \in Settled
    <3>1. d \in Settled
      BY <1>1, <1>3 DEF Tree, Fits
    <3> HIDE DEF d
    <3> QED
      BY <1>2, <1>3, <3>1, NoRootAbove
  <2> HIDE DEF d, T, none
  <2>5. Tree' /\ Once' /\ Right' /\ Settled' = Settled \cup T
    BY <1>4, <2>1, <2>2, <2>3, StepReport
  <2>6. RootsSeen'
    BY <1>1, <1>2, <1>4, <2>4, <2>5, RootsKept
  <2> QED
    BY <1>2, <2>5, <2>6 DEF Walk
<1> QED
  BY <1>5, <1>6

\* A step that leaves the marks as they are.
LEMMA GoesStill ==
  ASSUME Tree, Marks' = Marks
  PROVE  Goes({}, {})
<1> DEFINE none == {}
           S == Settled \cup none
<1>1. S = Settled /\ Fits(pack, Marks, Settled)
  BY DEF Tree
<1> HIDE DEF S
<1>2. Fits(pack, Marks', S)
  BY <1>1
<1>3. \A m \in Marks' : m.entry \in none \/ \E n \in Marks : m.entry = n.entry
  OBVIOUS
<1> QED
  BY <1>2, <1>3 DEF Goes, S

LEMMA WalkEndChain ==
  ASSUME Walk, NEW w \in Workers, EndChain(w)
  PROVE  Walk'
<1>1. Books /\ Tree /\ pc[w] = "drain"
  BY DEF Walk, EndChain
<1>2. Books' /\ phase = "walk"
  BY <1>1, BooksEndChain, OnItsWay
<1>3. UNCHANGED <<pack, rotten, phase, next, results>> /\ UNCHANGED walks
  BY DEF EndChain
<1>4. \A v \in Workers : pc'[v] # pc[v] => pc[v] # "take" /\ pc'[v] # "take"
  <2>1. pc' = [pc EXCEPT ![w] = "claim"] /\ pc \in [Workers -> Places]
    BY <1>1 DEF EndChain, Books, TypeOK, Places
  <2> QED
    BY <1>1, <2>1
<1>5. Goes({}, {})
  BY <1>1, <1>3, <1>4, MarksSame, GoesStill
<1> QED
  BY <1>2, <1>3, <1>5, WalkQuiet

\* A claim settles an entry that stands on none, when it is not bad.
LEMMA RootsClaimed ==
  ASSUME RootsSeen, phase = "walk", UNCHANGED <<phase, pack>>, next \in Nat, next' = next + 1,
         NEW T, Settled' = Settled \cup T, \A x \in T : ParentOf(pack, x) = 0 => x = next + 1,
         next + 1 \in Entries /\ ParentOf(pack, next + 1) = 0 /\ next + 1 \notin BadOf(pack) => next + 1 \in T
  PROVE  RootsSeen'
<1>1. Began /\ Walked /\ Began' /\ Walked'
  BY DEF Began, Walked
<1>2. \A r \in Entries : ParentOf(pack, r) = 0 => (r \in Settled <=> r \in BadOf(pack) \/ r <= next)
  BY <1>1 DEF RootsSeen
<1>3. /\ \A i : ParentOf(pack', i) = ParentOf(pack, i)
      /\ BadOf(pack') = BadOf(pack) /\ next' = next + 1
  OBVIOUS
<1>4. \A r \in Entries : r <= next + 1 <=> r <= next \/ r = next + 1
  BY DEF Entries
<1> DEFINE A == Settled'
           B == BadOf(pack)
<1>5. A = Settled \cup T
  OBVIOUS
<1> HIDE DEF A
<1>6. ASSUME NEW r \in Entries, ParentOf(pack, r) = 0 PROVE r \in A <=> r \in B \/ r <= next + 1
  <2>1. r \in Settled <=> r \in B \/ r <= next
    BY <1>2, <1>6
  <2>2. r \in T => r = next + 1
    BY <1>6
  <2>3. r = next + 1 /\ r \notin B => r \in T
    BY <1>6
  <2> HIDE DEF B
  <2> QED
    BY <1>4, <1>5, <2>1, <2>2, <2>3
<1> HIDE DEF B
<1>7. \A r \in Entries : ParentOf(pack', r) = 0 => (r \in A <=> r \in BadOf(pack') \/ r <= next')
  BY <1>3, <1>6 DEF B
<1> QED
  BY <1>1, <1>7 DEF RootsSeen, A

LEMMA WalkClaim ==
  ASSUME Walk, NEW w \in Workers, Claim(w)
  PROVE  Walk'
<1> DEFINE i == next + 1
           T == SubtreeOf(pack, i)
           C == {i}
           none == {}
<1>1. Books /\ Tree /\ RootsSeen /\ Right /\ TypeOK
  BY DEF Walk, Books
<1>2. /\ pc[w] = "claim" /\ phase = "walk" /\ next' = i
      /\ UNCHANGED <<pack, rotten, phase, deferred, inHand>>
  BY DEF Claim
<1>3. Books' /\ next \in Nat /\ pack \in Layout /\ pc \in [Workers -> Places]
  BY <1>1, <1>2, BooksClaim, Claiming DEF TypeOK, Places
<1>4. \A x : x \in Roots \ Bad <=> x \in Entries /\ ParentOf(pack, x) = 0 /\ x \notin BadOf(pack)
  BY OfForest, OfPack DEF Roots
<1>5. i \in Roots \ Bad => i \in Entries \ Settled
  <2>1. Began
    BY <1>2 DEF Began
  <2>2. ~(i <= next)
    BY <1>3
  <2> HIDE DEF i
  <2> QED
    BY <1>1, <1>4, <2>1, <2>2 DEF RootsSeen
<1>6. stack' = stack /\ (pc' = pc \/ pc' = [pc EXCEPT ![w] = "left"]) => Marks' = Marks
  <2>1. ASSUME pc' = pc \/ pc' = [pc EXCEPT ![w] = "left"], NEW v \in Workers, pc'[v] # pc[v]
        PROVE  pc[v] # "take" /\ pc'[v] # "take"
    BY <1>2, <1>3, <2>1
  <2> QED
    BY <1>1, <1>2, <2>1, MarksSame DEF walks
<1>7. CASE (next >= N \/ i \notin Roots \ Bad) /\ UNCHANGED results /\ Marks' = Marks
  <2>1. delivered' = delivered /\ reported' = reported /\ none = {} /\ Goes(none, none)
    BY <1>1, <1>7, GoesStill DEF results
  <2> HIDE DEF none
  <2>2. Tree' /\ Once' /\ Right' /\ Settled' = Settled
    BY <1>2, <2>1, StepQuiet
  <2>3. ~(i \in Entries /\ ParentOf(pack, i) = 0 /\ i \notin BadOf(pack))
    <3>1. i \in Entries => ~(next >= N)
      BY <1>3, DeltaWalkAssumption DEF Entries
    <3> HIDE DEF i
    <3> QED
      BY <1>4, <1>7, <3>1
  <2>4. Settled' = Settled \cup none /\ \A x \in none : ParentOf(pack, x) = 0 => x = i
    BY <2>1, <2>2
  <2>5. RootsSeen'
    BY <1>1, <1>2, <1>3, <2>3, <2>4, RootsClaimed
  <2> QED
    BY <1>3, <2>2, <2>5 DEF Walk
<1>8. CASE i \in (Roots \ Bad) \ Decodable /\ Report(Subtree(i)) /\ Marks' = Marks
  <2>1. Report(T) /\ none = {} /\ T \subseteq Entries
    BY <1>8, OfForest DEF SubtreeOf
  <2>2. /\ i \in Entries \ Settled /\ ParentOf(pack, i) = 0
        /\ i \notin pack.decodes \ rotten /\ i \in ForestOf(pack)
    <3> HIDE DEF i
    <3> QED
      BY <1>3, <1>4, <1>5, <1>8, RootFacts, OfForest
  <2> HIDE DEF i
  <2>3. Fits(pack, Marks, Settled \cup T) /\ Settled \cap T = {}
    BY <1>1, <1>3, <2>2, FitsRootSink DEF Tree
  <2>4. T \subseteq ForestOf(pack) \ SoundIn(pack, rotten)
    BY <1>3, <2>2, SinkFacts
  <2>5. \A x \in T : ParentOf(pack, x) = 0 => x = i
    BY <1>3, <2>2, NoRootAbove
  <2>6. i \in T
    BY <1>3, <2>2, SubtreeStep
  <2> HIDE DEF T, none
  <2>7. Goes(none, T)
    <3>1. \A m \in Marks' : m.entry \in none \/ \E n \in Marks : m.entry = n.entry
      BY <1>8
    <3>2. Fits(pack, Marks', Settled \cup T)
      BY <1>8, <2>3
    <3> QED
      BY <3>1, <3>2 DEF Goes
  <2>8. Tree' /\ Once' /\ Right' /\ Settled' = Settled \cup T
    BY <1>2, <2>1, <2>3, <2>4, <2>7, StepReport
  <2>9. RootsSeen'
    BY <1>1, <1>2, <1>3, <2>5, <2>6, <2>8, RootsClaimed DEF i
  <2> QED
    BY <1>3, <2>8, <2>9 DEF Walk
<1>9. CASE i \in (Roots \ Bad) \cap Decodable /\ Finish(i) /\ Goes(C, C)
  <2>1. i \in Entries \ Settled /\ ParentOf(pack, i) = 0 /\ i \in SoundIn(pack, rotten)
    <3> HIDE DEF i
    <3> QED
      BY <1>3, <1>4, <1>5, <1>9, RootFacts, OfForest
  <2>2. C \subseteq {i} /\ C = {i} /\ \A x \in C : ParentOf(pack, x) = 0 => x = i
    OBVIOUS
  <2> HIDE DEF i, C
  <2>3. Tree' /\ Once' /\ Right' /\ Settled' = Settled \cup {i}
    BY <1>2, <1>9, <2>1, <2>2, StepFinish
  <2>4. Settled' = Settled \cup C /\ i \in C
    BY <2>2, <2>3
  <2>5. RootsSeen'
    BY <1>1, <1>2, <1>3, <2>2, <2>4, RootsClaimed DEF i
  <2> QED
    BY <1>3, <2>3, <2>5 DEF Walk
<1>10. CASE i \in (Roots \ Bad) \cap Decodable /\ Finish(i) /\ Children(i) = << >> /\ Marks' = Marks
  <2>1. ChildrenOf(pack, i) = << >> /\ i \in Entries \ Settled /\ ParentOf(pack, i) = 0
    <3> HIDE DEF i
    <3> QED
      BY <1>4, <1>5, <1>10, OfPack
  <2> HIDE DEF i
  <2>2. Fits(pack, Marks, Settled \cup {i})
    BY <1>1, <1>3, <2>1, FitsRootLeaf DEF Tree
  <2>3. Fits(pack, Marks', Settled \cup C)
    <3> DEFINE S == Settled \cup C
    <3>1. S = Settled \cup {i} /\ Fits(pack, Marks, S)
      BY <2>2
    <3> HIDE DEF S
    <3>2. Fits(pack, Marks', S)
      BY <1>10, <3>1
    <3> QED
      BY <3>2 DEF S
  <2>4. \A m \in Marks' : m.entry \in C \/ \E n \in Marks : m.entry = n.entry
    BY <1>10
  <2>5. Goes(C, C)
    <3> HIDE DEF C
    <3> QED
      BY <2>3, <2>4 DEF Goes
  <2> QED
    BY <1>9, <1>10, <2>5 DEF i
<1>11. CASE /\ i \in (Roots \ Bad) \cap Decodable /\ Finish(i)
            /\ pc' = [pc EXCEPT ![w] = "spread"] /\ stack' = [stack EXCEPT ![w] = <<Base(i)>>]
  <2> DEFINE opened == <<Base(i)>>
             here == "spread"
             bottom == << >>
             t == <<w, "stack", 1>>
             b == Mark(t, i, 1)
             X == {b}
  <2>1. i \in Entries \ Settled /\ ParentOf(pack, i) = 0
    <3> HIDE DEF i
    <3> QED
      BY <1>4, <1>5, <1>11
  <2>2. /\ inHand[w] = NoEntry /\ deferred[w] = bottom /\ stack[w] = bottom
        /\ deferred = [deferred EXCEPT ![w] = bottom] /\ inHand = [inHand EXCEPT ![w] = NoEntry]
    BY <1>1, <1>2, Claiming
  <2>3. Becomes(w, opened, here, bottom, NoEntry)
    BY <1>2, <1>11, <2>2 DEF Becomes
  <2>4. StackMarks(w, bottom) = {} /\ OffMarks(w, bottom) = {} /\ HandMarks(w, NoEntry) = {}
    <3>1. 1..Len(bottom) = {}
      OBVIOUS
    <3> QED
      BY <3>1 DEF StackMarks, OffMarks, HandMarks
  <2>5. MarksOf(w) = {}
    <3>1. MarksOf(w) = StackMarks(w, bottom) \cup OffMarks(w, bottom) \cup HandMarks(w, NoEntry)
      BY <1>2, <2>2 DEF MarksOf, MarksBy, Counted
    <3> QED
      BY <2>4, <3>1
  <2>6. StackMarks(w, opened) = X
    <3>1. i \in Nat
      BY <1>3
    <3> HIDE DEF i
    <3>2. Len(opened) = 1 /\ opened[1].entry = i /\ opened[1].next = 1 /\ 1..1 = {1}
      BY DEF Base
    <3> HIDE DEF opened
    <3> QED
      BY <3>2 DEF StackMarks
  <2>7. MarksBy(w, opened, here, bottom, NoEntry) = X
    <3> HIDE DEF opened, bottom, X
    <3>1. MarksBy(w, opened, here, bottom, NoEntry) =
            StackMarks(w, opened) \cup OffMarks(w, bottom) \cup HandMarks(w, NoEntry)
      BY SpreadMarks
    <3> QED
      BY <2>4, <2>6, <3>1
  <2>8. Marks' = Marks \cup X
    <3> HIDE DEF opened, bottom, X, here
    <3>1. Marks' = (Marks \ MarksOf(w)) \cup MarksBy(w, opened, here, bottom, NoEntry)
      BY <1>1, <2>3, MarksChange
    <3> QED
      BY <2>5, <2>7, <3>1
  <2>9. Fits(pack, Marks', Settled \cup C)
    <3>1. Fits(pack, Marks \cup {Mark(t, i, 1)}, Settled \cup {i})
      <4> HIDE DEF i, t
      <4> QED
        BY <1>1, <1>3, <2>1, FitsRoot DEF Tree
    <3> DEFINE Y == Marks \cup {Mark(t, i, 1)}
               S == Settled \cup C
    <3>2. Fits(pack, Y, S) /\ Marks' = Y
      BY <2>8, <3>1
    <3> HIDE DEF Y, S
    <3>3. Fits(pack, Marks', S)
      BY <3>2
    <3> QED
      BY <3>3 DEF S
  <2>10. \A m \in Marks' : m.entry \in C \/ \E n \in Marks : m.entry = n.entry
    <3>1. b.entry = i
      BY DEF Mark
    <3> HIDE DEF b
    <3> QED
      BY <2>8, <3>1
  <2>11. Goes(C, C)
    <3> HIDE DEF C
    <3> QED
      BY <2>9, <2>10 DEF Goes
  <2> QED
    BY <1>9, <1>11, <2>11
<1> HIDE DEF C, T, none
<1>12. \/ next >= N /\ pc' = [pc EXCEPT ![w] = "left"] /\ UNCHANGED <<stack, results>>
       \/ i \notin Roots \ Bad /\ UNCHANGED <<pc, stack, results>>
       \/ i \in (Roots \ Bad) \ Decodable /\ Report(Subtree(i)) /\ UNCHANGED <<pc, stack>>
       \/ /\ i \in (Roots \ Bad) \cap Decodable /\ Finish(i) /\ Children(i) = << >>
          /\ UNCHANGED <<pc, stack>>
       \/ /\ i \in (Roots \ Bad) \cap Decodable /\ Finish(i)
          /\ pc' = [pc EXCEPT ![w] = "spread"] /\ stack' = [stack EXCEPT ![w] = <<Base(i)>>]
  BY DEF Claim
<1> HIDE DEF i
<1> QED
  BY <1>6, <1>7, <1>8, <1>10, <1>11, <1>12

(***************************************************************************)
(* The steps of Verify itself.                                             *)
(***************************************************************************)

\* A step outside of the walk that settles nothing.
LEMMA RootsStill ==
  ASSUME RootsSeen, pack' = pack, Settled' = Settled, Began' <=> Began,
         \A r \in Entries : (Walked' /\ r <= next') <=> (Walked /\ r <= next)
  PROVE  RootsSeen'
<1> DEFINE A == Settled'
           B == BadOf(pack)
           W(r) == Walked /\ r <= next
           V(r) == Walked' /\ r <= next'
<1>1. /\ \A i : ParentOf(pack', i) = ParentOf(pack, i)
      /\ BadOf(pack') = B /\ A = Settled
  OBVIOUS
<1>2. \A r \in Entries : V(r) <=> W(r)
  OBVIOUS
<1>3. /\ ~Began => Settled = {}
      /\ Began => \A r \in Entries : ParentOf(pack, r) = 0 => (r \in Settled <=> r \in B \/ W(r))
  BY DEF RootsSeen
<1> HIDE DEF A, B, W, V
<1>4. Began' => \A r \in Entries : ParentOf(pack', r) = 0 => (r \in A <=> r \in B \/ V(r))
  BY <1>1, <1>2, <1>3
<1>5. ~Began' => A = {}
  BY <1>1, <1>3
<1> QED
  BY <1>1, <1>4, <1>5 DEF RootsSeen, A, V

\* A step that settles nothing and leaves the marks.
LEMMA WalkStill ==
  ASSUME Walk, Books', pack' = pack, rotten' = rotten \/ rotten' # {}, Marks' = Marks,
         delivered' = delivered, reported' = reported, Began' <=> Began,
         \A r \in Entries : (Walked' /\ r <= next') <=> (Walked /\ r <= next)
  PROVE  Walk'
<1> DEFINE none == {}
<1>1. Tree /\ RootsSeen /\ Goes(none, none) /\ none = {}
  BY GoesStill DEF Walk
<1> HIDE DEF none
<1>2. Tree' /\ Once' /\ Right' /\ Settled' = Settled
  BY <1>1, StepQuiet
<1>3. RootsSeen'
  BY <1>1, <1>2, RootsStill
<1> QED
  BY <1>2, <1>3 DEF Walk

LEMMA WalkCheckBatch ==
  ASSUME Walk, NEW w \in Workers, CheckBatch(w)
  PROVE  Walk'
<1>1. /\ Books /\ pc[w] = "claim" /\ phase = "crc"
      /\ UNCHANGED <<pack, rotten, phase, delivered, reported, walks>>
  BY DEF Walk, CheckBatch
<1>2. Books'
  BY <1>1, BooksCheckBatch
<1>3. Began /\ Began' /\ ~Walked /\ ~Walked'
  BY <1>1 DEF Began, Walked
<1>4. Marks' = Marks
  <2>1. pc \in [Workers -> Places]
    BY <1>1 DEF Books, TypeOK, Places
  <2>2. pc' = pc \/ pc' = [pc EXCEPT ![w] = "left"]
    BY DEF CheckBatch
  <2>3. \A v \in Workers : pc'[v] # pc[v] => pc[v] # "take" /\ pc'[v] # "take"
    BY <1>1, <2>1, <2>2
  <2> QED
    BY <1>1, <2>3, MarksSame
<1> QED
  BY <1>1, <1>2, <1>3, <1>4, WalkStill

LEMMA WalkOthers ==
  ASSUME Walk, HashPack \/ Rot \/ UNCHANGED vars
  PROVE  Walk'
<1>1. Books /\ UNCHANGED <<pack, phase, next, pc, walks, delivered, reported>>
  BY DEF Walk, HashPack, Rot, vars, results, walks
<1>2. Books'
  BY <1>1, BooksHashPack, BooksRot, BooksSame
<1>3. rotten' = rotten \/ rotten' # {}
  BY DEF HashPack, Rot, vars
<1>4. Marks' = Marks
  BY <1>1, MarksSame
<1>5. (Began' <=> Began) /\ (Walked' <=> Walked) /\ next' = next
  BY <1>1 DEF Began, Walked
<1> QED
  BY <1>1, <1>2, <1>3, <1>4, <1>5, WalkStill

LEMMA WalkOpenPack ==
  ASSUME Walk, OpenPack
  PROVE  Walk'
<1>1. Books /\ phase = "open" /\ UNCHANGED <<pack, rotten, next, pc, walks, delivered, reported>>
  BY DEF Walk, OpenPack
<1>2. Books'
  BY <1>1, BooksOpenPack
<1>3. Marks' = Marks
  BY <1>1, MarksSame
<1>4. ~Began /\ ~Began' /\ ~Walked /\ ~Walked'
  <2>1. phase' = "layout" \/ (phase' = "over" /\ pack.opens # "yes")
    BY DEF OpenPack
  <2> QED
    BY <1>1, <2>1 DEF Began, Walked
<1> QED
  BY <1>1, <1>2, <1>3, <1>4, WalkStill

LEMMA WalkStartWalk ==
  ASSUME Walk, StartWalk
  PROVE  Walk'
<1>1. /\ Books /\ phase = "crc" /\ phase' = "walk" /\ next' = 0
      /\ \A w \in Workers : pc[w] = "left" /\ pc' = [v \in Workers |-> "claim"]
      /\ UNCHANGED <<pack, rotten, walks, delivered, reported>>
  BY DEF Walk, StartWalk, results
<1>2. Books'
  BY <1>1, BooksStartWalk DEF Walk
<1>3. Marks' = Marks
  <2>1. \A v \in Workers : pc'[v] # pc[v] => pc[v] # "take" /\ pc'[v] # "take"
    BY <1>1
  <2> QED
    BY <1>1, <2>1, MarksSame
<1>4. Began /\ Began' /\ ~Walked /\ Walked'
  BY <1>1 DEF Began, Walked
<1>5. \A r \in Entries : ~(r <= next')
  BY <1>1, DeltaWalkAssumption DEF Entries
<1> QED
  BY <1>1, <1>2, <1>3, <1>4, <1>5, WalkStill

LEMMA WalkJoin ==
  ASSUME Walk, Join
  PROVE  Walk'
<1>1. /\ Books /\ phase = "walk" /\ phase' = "over"
      /\ UNCHANGED <<pack, rotten, next, pc, walks, delivered, reported>>
  BY DEF Walk, Join
<1>2. Books' /\ pack.opens = "yes"
  BY <1>1, BooksJoin DEF Books, Phased
<1>3. Marks' = Marks
  BY <1>1, MarksSame
<1>4. Began /\ Began' /\ Walked /\ Walked' /\ next' = next
  BY <1>1, <1>2 DEF Began, Walked
<1> QED
  BY <1>1, <1>2, <1>3, <1>4, WalkStill

LEMMA WalkReportBad ==
  ASSUME Walk, ReportBad
  PROVE  Walk'
<1> DEFINE T == UNION {Subtree(i) : i \in Bad}
           U == {x \in Entries : \E i \in BadOf(pack) : x \in SubtreeOf(pack, i)}
           none == {}
<1>1. /\ Books /\ TypeOK /\ RootsSeen /\ phase = "layout" /\ phase' = "crc"
      /\ Report(T) /\ UNCHANGED <<pack, rotten, walks>>
      /\ pc' = [w \in Workers |-> "claim"]
  BY DEF Walk, ReportBad, Books
<1>2. Books' /\ pack \in Layout
  BY <1>1, BooksReportBad DEF TypeOK
<1>3. ~Began /\ Began' /\ ~Walked'
  BY <1>1 DEF Began, Walked
<1>4. Settled = {}
  BY <1>1, <1>3 DEF RootsSeen
<1>5. \A w \in Workers : pc[w] = "idle"
  BY <1>1 DEF Books, Phased
<1>6. Marks = none /\ Marks' = Marks
  <2>1. Marks = none
    BY <1>1, <1>5, MarksNone
  <2>2. \A v \in Workers : pc'[v] # pc[v] => pc[v] # "take" /\ pc'[v] # "take"
    BY <1>1, <1>5
  <2>3. Marks' = Marks
    BY <1>1, <2>2, MarksSame
  <2> QED
    BY <2>1, <2>3
<1>7. T = U
  <2>1. T \subseteq Entries
    BY DEF Subtree
  <2>2. \A x : x \in T <=> \E i \in BadOf(pack) : x \in SubtreeOf(pack, i)
    BY OfForest
  <2>3. \A x : x \in T <=> x \in U
    BY <2>1, <2>2
  <2> HIDE DEF T, U
  <2>4. T \subseteq U /\ U \subseteq T
    BY <2>3
  <2> QED
    BY <2>4
<1>8. \A i \in BadOf(pack) : i \in Entries /\ ParentOf(pack, i) = 0
  BY DEF BadOf, ParentOf
<1>9. Fits(pack, none, U)
  <2> DEFINE B == BadOf(pack)
  <2>1. B \subseteq Entries /\ \A i \in B : ParentOf(pack, i) = 0
    BY <1>8
  <2> HIDE DEF B
  <2>2. Fits(pack, {}, {x \in Entries : \E i \in B : x \in SubtreeOf(pack, i)})
    BY <1>2, <2>1, FitsBegin
  <2> QED
    BY <2>2 DEF B
<1>10. U \subseteq ForestOf(pack) \ SoundIn(pack, rotten) /\ U \subseteq Entries
  <2>1. ASSUME NEW x \in U PROVE x \in ForestOf(pack) \ SoundIn(pack, rotten)
    <3>1. PICK i \in BadOf(pack) : x \in SubtreeOf(pack, i)
      OBVIOUS
    <3>2. i \in ForestOf(pack)
      BY <1>2, <1>8, RootFacts
    <3> QED
      BY <1>2, <3>1, <3>2, SinkFacts
  <2> QED
    BY <2>1
<1>11. \A r \in Entries : ParentOf(pack, r) = 0 => (r \in U <=> r \in BadOf(pack))
  <2>1. ASSUME NEW r \in Entries, ParentOf(pack, r) = 0, r \in U PROVE r \in BadOf(pack)
    <3>1. PICK i \in BadOf(pack) : r \in SubtreeOf(pack, i)
      BY <2>1
    <3> QED
      BY <1>2, <1>8, <2>1, <3>1, NoRootAbove
  <2>2. ASSUME NEW r \in BadOf(pack) PROVE r \in U
    <3>1. r \in SubtreeOf(pack, r) /\ r \in Entries
      BY <1>2, <1>8, SubtreeStep
    <3> QED
      BY <3>1
  <2> QED
    BY <2>1, <2>2
<1> HIDE DEF T, U, none
<1>12. Report(U) /\ none = {}
  BY <1>1, <1>7 DEF none
<1>13. Goes(none, U)
  <2> DEFINE S == Settled \cup U
  <2>1. S = U /\ Fits(pack, Marks', U)
    BY <1>4, <1>6, <1>9
  <2> HIDE DEF S
  <2>2. Fits(pack, Marks', S)
    BY <2>1
  <2>3. \A m \in Marks' : m.entry \in none \/ \E n \in Marks : m.entry = n.entry
    BY <1>6
  <2> QED
    BY <2>2, <2>3 DEF Goes, S
<1>14. Tree' /\ Once' /\ Right' /\ Settled' = Settled \cup U
  BY <1>1, <1>4, <1>10, <1>12, <1>13, StepReport
<1>15. RootsSeen'
  <2> DEFINE A == Settled'
  <2>1. A = U /\ pack' = pack
    BY <1>1, <1>4, <1>14
  <2> HIDE DEF A
  <2>2. \A r \in Entries : ParentOf(pack, r) = 0 => (r \in A <=> r \in BadOf(pack))
    BY <1>11, <2>1
  <2>3. /\ \A i : ParentOf(pack', i) = ParentOf(pack, i)
        /\ BadOf(pack') = BadOf(pack)
    BY <2>1
  <2> QED
    BY <1>3, <2>2, <2>3 DEF RootsSeen, A
<1> QED
  BY <1>2, <1>14, <1>15 DEF Walk

LEMMA WalkInit == Init => Walk
<1> SUFFICES ASSUME Init PROVE Walk
  OBVIOUS
<1>1. Books
  BY BooksInit
<1>2. \A i \in Entries : delivered[i] = 0 /\ reported[i] = 0
  BY DEF Init
<1>3. Settled = {}
  BY <1>2 DEF Settled
<1>4. Marks = {}
  <2>1. \A w \in Workers : pc[w] = "idle"
    BY DEF Init
  <2> QED
    BY <1>1, <2>1, MarksNone
<1>5. Tree
  <2> DEFINE none == {}
  <2>1. Fits(pack, none, none)
    <3>1. \A x : x \notin none
      OBVIOUS
    <3>2. \A x \in Entries : ParentOf(pack, x) # 0 =>
            (x \in none <=> /\ ParentOf(pack, x) \in none
                            /\ ~ \E m \in none : m.entry = ParentOf(pack, x) /\ WaitsFrom(pack, x, m.from))
      BY <3>1
    <3>3. none \subseteq Entries
      OBVIOUS
    <3> HIDE DEF none
    <3> QED
      BY <3>1, <3>2, <3>3 DEF Fits
  <2> QED
    BY <1>3, <1>4, <2>1 DEF Tree
<1>6. RootsSeen
  <2>1. ~Began
    BY DEF Init, Began
  <2> QED
    BY <1>3, <2>1 DEF RootsSeen
<1>7. Once /\ Right
  BY <1>2, <1>4 DEF Once, Right
<1> QED
  BY <1>1, <1>5, <1>6, <1>7 DEF Walk

LEMMA WalkStep == Walk /\ [Next]_vars => Walk'
<1> SUFFICES ASSUME Walk, [Next]_vars PROVE Walk'
  OBVIOUS
<1>1. CASE OpenPack
  BY <1>1, WalkOpenPack
<1>2. CASE HashPack \/ Rot \/ UNCHANGED vars
  BY <1>2, WalkOthers
<1>3. CASE Join
  BY <1>3, WalkJoin
<1>4. CASE ReportBad
  BY <1>4, WalkReportBad
<1>5. CASE StartWalk
  BY <1>5, WalkStartWalk
<1>6. CASE Rest
  BY <1>6, WalkOthers DEF Rest
<1>7. ASSUME NEW w \in Workers, Work(w) PROVE Walk'
  <2>1. CASE CheckBatch(w)
    BY <2>1, WalkCheckBatch
  <2>2. CASE Claim(w)
    BY <2>2, WalkClaim
  <2>3. CASE PopBase(w)
    BY <2>3, WalkPopBase
  <2>4. CASE VisitLeaf(w)
    BY <2>4, WalkVisitLeaf
  <2>5. CASE VisitBase(w)
    BY <2>5, WalkVisitBase
  <2>6. CASE HandOver(w)
    BY <2>6, WalkHandOver
  <2>7. CASE TakeOver(w)
    BY <2>7, WalkTakeOver
  <2>8. CASE Rebuild(w)
    BY <2>8, WalkRebuild
  <2>9. CASE EndChain(w)
    BY <2>9, WalkEndChain
  <2> QED
    BY <1>7, <2>1, <2>2, <2>3, <2>4, <2>5, <2>6, <2>7, <2>8, <2>9 DEF Work
<1> QED
  BY <1>1, <1>2, <1>3, <1>4, <1>5, <1>6, <1>7 DEF Next

(***************************************************************************)
(* The verdict.                                                            *)
(***************************************************************************)

NoneReported == \A i \in Entries : reported[i] = 0
Claimed == {i \in Entries : i <= next}

\* What verifyObjects is going to return, and the entries checkCRCs has found,
\* at every moment.
Verdict ==
  /\ phase = "open" => mismatch = {} /\ sums = "none"
  /\ phase = "layout" => mismatch = {}
  /\ phase = "crc" => mismatch = Claimed \ pack.crc
  /\ Walked => mismatch = Entries \ pack.crc
  /\ Began \/ phase = "layout" =>
       (good <=> pack.idxSum /\ mismatch = {} /\ (phase = "over" => sums = "match") /\ NoneReported)
  /\ phase = "over" /\ pack.opens # "yes" => ~good
  /\ phase = "over" => sums # "hashing"

\* A step reports nothing and finds nothing, or it does both.
Judged == \/ (good' <=> good) /\ (NoneReported' <=> NoneReported)
          \/ ~good' /\ ~NoneReported'

LEMMA ReportJudged ==
  ASSUME TypeOK, NEW T, T \subseteq Entries, Report(T)
  PROVE  Judged /\ mismatch' = mismatch
<1>1. mismatch' = mismatch /\ (good' <=> good /\ T = {})
  BY DEF Report
<1>2. \A i \in Entries : reported'[i] = reported[i] + IF i \in T THEN 1 ELSE 0
  BY ReportSettles
<1>3. reported \in [Entries -> Nat]
  BY DEF TypeOK
<1>4. CASE T = {}
  <2>1. \A i \in Entries : reported'[i] = reported[i]
    BY <1>2, <1>3, <1>4
  <2>2. NoneReported' <=> NoneReported
    BY <2>1 DEF NoneReported
  <2> QED
    BY <1>1, <1>4, <2>2 DEF Judged
<1>5. CASE T # {}
  <2>1. PICK i \in T : TRUE
    BY <1>5
  <2>2. reported'[i] = reported[i] + 1 /\ reported[i] \in Nat /\ i \in Entries
    BY <1>2, <1>3, <2>1
  <2>3. reported'[i] # 0
    BY <2>2
  <2>4. ~NoneReported'
    BY <2>2, <2>3 DEF NoneReported
  <2> QED
    BY <1>1, <1>5, <2>4 DEF Judged
<1> QED
  BY <1>4, <1>5

LEMMA FinishJudged ==
  ASSUME TypeOK, NEW c \in Entries, Finish(c)
  PROVE  Judged /\ mismatch' = mismatch
<1>1. CASE c \in pack.hashes
  <2>1. UNCHANGED <<reported, mismatch, good>>
    BY <1>1 DEF Finish
  <2>2. NoneReported' <=> NoneReported
    BY <2>1 DEF NoneReported
  <2>3. good' <=> good
    BY <2>1
  <2> QED
    BY <2>1, <2>2, <2>3 DEF Judged
<1>2. CASE c \notin pack.hashes
  <2> DEFINE C == {c}
  <2>1. Report(C) /\ C \subseteq Entries
    BY <1>2 DEF Finish
  <2> HIDE DEF C
  <2> QED
    BY <2>1, ReportJudged
<1> QED
  BY <1>1, <1>2

LEMMA StillJudged ==
  ASSUME UNCHANGED results
  PROVE  Judged /\ mismatch' = mismatch
<1>1. UNCHANGED <<reported, mismatch, good>>
  BY DEF results
<1>2. NoneReported' <=> NoneReported
  BY <1>1 DEF NoneReported
<1>3. good' <=> good
  BY <1>1
<1> QED
  BY <1>1, <1>2, <1>3 DEF Judged

LEMMA VerdictWalk ==
  ASSUME Verdict, phase = "walk", UNCHANGED <<phase, pack>>, Judged /\ mismatch' = mismatch
  PROVE  Verdict'
<1>1. phase' = "walk" /\ pack' = pack
  OBVIOUS
<1>2. mismatch' = Entries \ pack'.crc /\ mismatch' = mismatch
  BY DEF Verdict, Walked
<1>3. good <=> pack.idxSum /\ mismatch = {} /\ NoneReported
  BY DEF Verdict, Began
<1>4. good' <=> pack'.idxSum /\ mismatch' = {} /\ NoneReported'
  <2>1. pack'.idxSum <=> pack.idxSum
    BY <1>1
  <2>2. mismatch' = {} <=> mismatch = {}
    BY <1>2
  <2> QED
    BY <1>3, <2>1, <2>2 DEF Judged
<1> QED
  BY <1>1, <1>2, <1>4 DEF Verdict, Began, Walked

LEMMA VerdictWork ==
  ASSUME Walk, Verdict, NEW w \in Workers, Work(w), ~CheckBatch(w)
  PROVE  Verdict'
<1>1. Books /\ TypeOK /\ Placed /\ Tree
  BY DEF Walk, Books
<1>2. phase = "walk" /\ UNCHANGED <<phase, pack>>
  <2>1. CASE pc[w] \in {"spread", "take", "drain"}
    <3>1. phase = "walk"
      BY <1>1, <2>1, OnItsWay
    <3> QED
      BY <3>1 DEF Work, Claim, PopBase, VisitLeaf, VisitBase, HandOver, TakeOver, Rebuild, EndChain
  <2>2. CASE pc[w] \notin {"spread", "take", "drain"}
    <3>1. Claim(w)
      BY <2>2 DEF Work, PopBase, VisitLeaf, VisitBase, HandOver, TakeOver, Rebuild, EndChain
    <3> QED
      BY <3>1 DEF Claim
  <2> QED
    BY <2>1, <2>2
<1>3. \A i : Subtree(i) \subseteq Entries
  BY DEF Subtree
<1>4. (VisitLeaf(w) \/ VisitBase(w) \/ HandOver(w)) => Child(w) \in Entries
  <2>1. VisitLeaf(w) \/ VisitBase(w) \/ HandOver(w) => pc[w] = "spread" /\ ~Exhausted(w)
    BY DEF VisitLeaf, VisitBase, HandOver
  <2> QED
    BY <1>1, <2>1, TopTurn
<1>5. \/ UNCHANGED results
      \/ \E T : T \subseteq Entries /\ Report(T)
      \/ \E c \in Entries : Finish(c)
  <2>1. CASE Claim(w)
    <3>1. \A i : i \in Roots \ Bad => i \in Entries
      BY DEF Roots
    <3>2. \/ UNCHANGED results
          \/ Report(Subtree(next + 1))
          \/ next + 1 \in Roots \ Bad /\ Finish(next + 1)
      BY <2>1 DEF Claim
    <3> QED
      BY <1>3, <3>1, <3>2
  <2>2. CASE VisitLeaf(w)
    <3>1. Finish(Child(w)) \/ Report(Subtree(Child(w)))
      BY <2>2 DEF VisitLeaf
    <3> QED
      BY <1>3, <1>4, <2>2, <3>1
  <2>3. CASE VisitBase(w) \/ HandOver(w)
    <3>1. Finish(Child(w))
      BY <2>3 DEF VisitBase, HandOver
    <3> QED
      BY <1>4, <2>3, <3>1
  <2>4. CASE PopBase(w) \/ TakeOver(w) \/ EndChain(w)
    BY <2>4 DEF PopBase, TakeOver, EndChain
  <2>5. CASE Rebuild(w)
    <3>1. UNCHANGED results \/ Report(Subtree(Last(deferred[w])))
      BY <2>5 DEF Rebuild
    <3> QED
      BY <1>3, <3>1
  <2> QED
    BY <2>1, <2>2, <2>3, <2>4, <2>5 DEF Work
<1>6. Judged /\ mismatch' = mismatch
  <2>1. CASE UNCHANGED results
    BY <2>1, StillJudged
  <2>2. ASSUME NEW T, T \subseteq Entries, Report(T) PROVE Judged /\ mismatch' = mismatch
    BY <1>1, <2>2, ReportJudged
  <2>3. ASSUME NEW c \in Entries, Finish(c) PROVE Judged /\ mismatch' = mismatch
    BY <1>1, <2>3, FinishJudged
  <2> QED
    BY <1>5, <2>1, <2>2, <2>3
<1> QED
  BY <1>2, <1>6, VerdictWalk

LEMMA VerdictCheckBatch ==
  ASSUME Walk, Verdict, NEW w \in Workers, CheckBatch(w)
  PROVE  Verdict'
<1> DEFINE wrong == {i \in Entries : next < i /\ i <= next + Batch} \ pack.crc
<1>1. /\ phase = "crc" /\ UNCHANGED <<pack, phase, reported>> /\ next' = next + Batch
      /\ mismatch' = mismatch \cup wrong /\ (good' <=> good /\ wrong = {})
  BY DEF CheckBatch
<1>2. next \in Nat /\ Batch \in Nat
  BY DeltaWalkAssumption DEF Walk, Books, TypeOK
<1>3. mismatch = Claimed \ pack.crc
  BY <1>1 DEF Verdict
<1>4. Claimed' = Claimed \cup {i \in Entries : next < i /\ i <= next + Batch}
  <2>1. \A i \in Entries : i <= next + Batch <=> i <= next \/ (next < i /\ i <= next + Batch)
    BY <1>2 DEF Entries
  <2>2. \A i : i \in Claimed' <=> i \in Claimed \cup {j \in Entries : next < j /\ j <= next + Batch}
    BY <1>1, <2>1 DEF Claimed
  <2> DEFINE A == Claimed'
             B == Claimed \cup {j \in Entries : next < j /\ j <= next + Batch}
  <2>3. \A i : i \in A <=> i \in B
    BY <2>2
  <2> HIDE DEF A, B
  <2>4. A \subseteq B /\ B \subseteq A
    BY <2>3
  <2>5. A = B
    BY <2>4
  <2> QED
    BY <2>5 DEF A, B
<1>5. mismatch' = Claimed' \ pack.crc
  <2> DEFINE A == Claimed'
             B == {i \in Entries : next < i /\ i <= next + Batch}
  <2>1. mismatch' = (Claimed \ pack.crc) \cup (B \ pack.crc) /\ A = Claimed \cup B
    BY <1>1, <1>3, <1>4
  <2> HIDE DEF A, B
  <2>2. mismatch' = A \ pack.crc
    BY <2>1
  <2> QED
    BY <2>2 DEF A
<1>6. good <=> pack.idxSum /\ mismatch = {} /\ NoneReported
  BY <1>1 DEF Verdict, Began
<1>7. NoneReported' <=> NoneReported
  BY <1>1 DEF NoneReported
<1>8. mismatch' = {} <=> mismatch = {} /\ wrong = {}
  <2> HIDE DEF wrong
  <2> QED
    BY <1>1
<1>9. good' <=> pack'.idxSum /\ mismatch' = {} /\ NoneReported'
  <2>1. pack'.idxSum <=> pack.idxSum
    BY <1>1
  <2> HIDE DEF wrong
  <2> QED
    BY <1>1, <1>6, <1>7, <1>8, <2>1
<1>10. phase' = "crc" /\ mismatch' = Claimed' \ pack'.crc
  BY <1>1, <1>5
<1> QED
  BY <1>9, <1>10 DEF Verdict, Began, Walked

LEMMA VerdictVerify ==
  ASSUME Walk, Verdict, OpenPack \/ HashPack \/ Join \/ ReportBad \/ StartWalk \/ Rot \/ UNCHANGED vars
  PROVE  Verdict'
<1>1. Books /\ TypeOK /\ Phased /\ RootsSeen
  BY DEF Walk, Books
<1>2. pack' = pack /\ (pack'.idxSum <=> pack.idxSum) /\ pack'.crc = pack.crc
  BY DEF OpenPack, HashPack, Join, ReportBad, StartWalk, Rot, vars
<1>3. CASE OpenPack
  <2>1. UNCHANGED <<mismatch, reported, delivered>> /\ phase = "open"
    BY <1>3 DEF OpenPack
  <2>2. mismatch' = {} /\ ~Began
    BY <2>1 DEF Verdict, Began
  <2>3. NoneReported'
    <3>1. Settled = {}
      BY <1>1, <2>2 DEF RootsSeen
    <3>2. \A i \in Entries : delivered[i] \in Nat /\ reported[i] \in Nat
      BY <1>1 DEF TypeOK
    <3>3. \A i \in Entries : ~(delivered[i] + reported[i] > 0)
      BY <3>1 DEF Settled
    <3>4. \A i \in Entries : reported[i] = 0
      BY <3>2, <3>3
    <3> QED
      BY <2>1, <3>4 DEF NoneReported
  <2>4. CASE pack.opens # "yes"
    <3>1. phase' = "over" /\ ~good' /\ sums' = sums
      BY <1>3, <2>4 DEF OpenPack
    <3>2. sums' # "hashing"
      BY <2>1, <3>1 DEF Verdict
    <3> QED
      BY <1>2, <2>1, <2>2, <2>4, <3>1, <3>2 DEF Verdict, Began, Walked
  <2>5. CASE pack.opens = "yes"
    <3>1. phase' = "layout" /\ (good' <=> pack.idxSum)
      BY <1>3, <2>5 DEF OpenPack
    <3> QED
      BY <1>2, <2>2, <2>3, <3>1 DEF Verdict, Began, Walked
  <2> QED
    BY <2>4, <2>5
<1>4. CASE ReportBad
  <2> DEFINE T == UNION {Subtree(i) : i \in Bad}
  <2>1. phase = "layout" /\ phase' = "crc" /\ next' = 0 /\ Report(T) /\ T \subseteq Entries
    BY <1>4 DEF ReportBad, Subtree
  <2> HIDE DEF T
  <2>2. Judged /\ mismatch' = mismatch
    BY <1>1, <2>1, ReportJudged
  <2>3. mismatch = {} /\ (good <=> pack.idxSum /\ NoneReported)
    BY <2>1 DEF Verdict
  <2>4. good' <=> pack'.idxSum /\ mismatch' = {} /\ NoneReported'
    BY <1>2, <2>2, <2>3 DEF Judged
  <2>5. Claimed' = {}
    BY <2>1, DeltaWalkAssumption DEF Claimed, Entries
  <2>6. mismatch' = Claimed' \ pack'.crc
    BY <2>2, <2>3, <2>5
  <2> QED
    BY <2>1, <2>4, <2>6 DEF Verdict, Began, Walked
<1>5. CASE StartWalk
  <2>1. phase = "crc" /\ phase' = "walk" /\ UNCHANGED results /\ \A w \in Workers : pc[w] = "left"
    BY <1>5 DEF StartWalk
  <2>2. next >= N
    <3>1. PICK w \in Workers : TRUE
      BY DeltaWalkAssumption
    <3> QED
      BY <1>1, <2>1, <3>1 DEF Phased
  <2>3. Claimed = Entries
    <3>1. \A i \in Entries : i <= next
      BY <1>1, <2>2, DeltaWalkAssumption DEF TypeOK, Entries
    <3> QED
      BY <3>1 DEF Claimed
  <2>4. mismatch = Entries \ pack.crc /\ (good <=> pack.idxSum /\ mismatch = {} /\ NoneReported)
    BY <2>1, <2>3 DEF Verdict, Began
  <2>5. Judged /\ mismatch' = mismatch /\ (good' <=> good) /\ (NoneReported' <=> NoneReported)
    BY <2>1, StillJudged DEF results, NoneReported
  <2>6. good' <=> pack'.idxSum /\ mismatch' = {} /\ NoneReported'
    BY <1>2, <2>4, <2>5
  <2>7. mismatch' = Entries \ pack'.crc
    BY <1>2, <2>4, <2>5
  <2> QED
    BY <2>1, <2>6, <2>7 DEF Verdict, Began, Walked
<1>6. CASE Join
  <2>1. /\ phase = "walk" /\ phase' = "over" /\ sums # "hashing" /\ sums' = sums
        /\ (good' <=> good /\ sums = "match") /\ UNCHANGED <<mismatch, reported>>
    BY <1>6 DEF Join
  <2>2. pack.opens = "yes"
    BY <1>1, <2>1 DEF Phased
  <2>3. mismatch = Entries \ pack.crc /\ (good <=> pack.idxSum /\ mismatch = {} /\ NoneReported)
    BY <2>1 DEF Verdict, Began, Walked
  <2>4. (NoneReported' <=> NoneReported) /\ mismatch' = mismatch /\ (sums' = "match" <=> sums = "match")
    BY <2>1 DEF NoneReported
  <2>5. good' <=> pack'.idxSum /\ mismatch' = {} /\ sums' = "match" /\ NoneReported'
    BY <1>2, <2>1, <2>3, <2>4
  <2>6. mismatch' = Entries \ pack'.crc
    BY <1>2, <2>3, <2>4
  <2> QED
    BY <1>2, <2>1, <2>2, <2>5, <2>6 DEF Verdict, Began, Walked
<1>7. CASE HashPack \/ Rot \/ UNCHANGED vars
  <2>1. /\ UNCHANGED <<phase, next, mismatch, reported>>
        /\ (good' <=> good) /\ (sums' = sums \/ sums = "hashing")
    BY <1>7 DEF HashPack, Rot, vars, results
  <2>2. (NoneReported' <=> NoneReported) /\ Claimed' = Claimed
    BY <2>1 DEF NoneReported, Claimed
  <2>3. phase = "over" => sums' = sums
    BY <2>1 DEF Verdict
  <2>4. (Began' <=> Began) /\ (Walked' <=> Walked)
    BY <1>2, <2>1 DEF Began, Walked
  <2>5. (sums' = "match" <=> sums = "match") \/ phase # "over"
    BY <2>3
  <2>6. Began' \/ phase' = "layout" =>
          (good' <=> pack'.idxSum /\ mismatch' = {} /\ (phase' = "over" => sums' = "match") /\ NoneReported')
    <3>1. Began \/ phase = "layout" =>
          (good <=> pack.idxSum /\ mismatch = {} /\ (phase = "over" => sums = "match") /\ NoneReported)
      BY DEF Verdict
    <3>2. (phase' = "over" <=> phase = "over") /\ (phase' = "layout" <=> phase = "layout")
          /\ (mismatch' = {} <=> mismatch = {})
      BY <2>1
    <3>3. (phase' = "over" => sums' = "match") <=> (phase = "over" => sums = "match")
      BY <2>3, <3>2
    <3>4. pack'.idxSum <=> pack.idxSum
      BY <1>2
    <3>5. (Began' \/ phase' = "layout") <=> (Began \/ phase = "layout")
      BY <2>4, <3>2
    <3>6. good' <=> good
      BY <2>1
    <3>7. NoneReported' <=> NoneReported
      BY <2>2
    <3> DEFINE a == phase' = "over" => sums' = "match"
               b == phase = "over" => sums = "match"
               c == Began' \/ phase' = "layout"
               d == Began \/ phase = "layout"
               e == mismatch' = {}
               f == mismatch = {}
    <3>8. (a <=> b) /\ (c <=> d) /\ (e <=> f) /\ (d => (good <=> pack.idxSum /\ f /\ b /\ NoneReported))
      BY <3>1, <3>2, <3>3, <3>5
    <3> HIDE DEF a, b, c, d, e, f
    <3>9. c => (good' <=> pack'.idxSum /\ e /\ a /\ NoneReported')
      BY <3>4, <3>6, <3>7, <3>8
    <3> QED
      BY <3>9 DEF a, c, e
  <2>7. /\ phase' = "open" => mismatch' = {} /\ sums' = "none"
        /\ phase' = "layout" => mismatch' = {}
        /\ phase' = "crc" => mismatch' = Claimed' \ pack'.crc
        /\ Walked' => mismatch' = Entries \ pack'.crc
    <3>1. phase = "open" => sums' = sums
      BY <2>1 DEF Verdict
    <3> QED
      BY <1>2, <2>1, <2>2, <2>4, <3>1 DEF Verdict
  <2>8. phase' = "over" => sums' # "hashing"
    BY <2>1, <2>3 DEF Verdict
  <2>9. phase' = "over" /\ pack'.opens # "yes" => ~good'
    <3>1. phase' = phase /\ pack' = pack
      BY <1>2, <2>1
    <3>2. phase = "over" /\ pack.opens # "yes" => ~good
      BY DEF Verdict
    <3>3. phase' = "over" /\ pack'.opens # "yes" => phase = "over" /\ pack.opens # "yes"
      BY <3>1
    <3> QED
      BY <2>1, <3>2, <3>3
  <2> QED
    BY <2>6, <2>7, <2>8, <2>9 DEF Verdict
<1> QED
  BY <1>3, <1>4, <1>5, <1>6, <1>7

LEMMA VerdictInit == Init => Verdict
<1> SUFFICES ASSUME Init PROVE Verdict
  OBVIOUS
<1>1. phase = "open" /\ mismatch = {} /\ sums = "none"
  BY DEF Init
<1> QED
  BY <1>1 DEF Verdict, Began, Walked

LEMMA VerdictStep == Walk /\ Verdict /\ [Next]_vars => Verdict'
<1> SUFFICES ASSUME Walk, Verdict, [Next]_vars PROVE Verdict'
  OBVIOUS
<1>1. CASE OpenPack \/ HashPack \/ Join \/ ReportBad \/ StartWalk \/ Rot \/ UNCHANGED vars
  BY <1>1, VerdictVerify
<1>2. CASE Rest
  BY <1>2, VerdictVerify DEF Rest
<1>3. ASSUME NEW w \in Workers, Work(w) PROVE Verdict'
  <2>1. CASE CheckBatch(w)
    BY <2>1, VerdictCheckBatch
  <2>2. CASE ~CheckBatch(w)
    BY <1>3, <2>2, VerdictWork
  <2> QED
    BY <2>1, <2>2
<1> QED
  BY <1>1, <1>2, <1>3 DEF Next

\* When the verification is over, nothing is left to do, and everything in the
\* forest is settled.
LEMMA AllSettled ==
  ASSUME Walk, Over, pack.opens = "yes"
  PROVE  InForest \subseteq Settled
<1>1. Books /\ TypeOK /\ Phased /\ Tree /\ RootsSeen /\ pack \in Layout /\ phase = "over"
  BY DEF Walk, Books, TypeOK, Over
<1>2. \A w \in Workers : pc[w] = "left"
  BY <1>1 DEF Phased
<1>3. Marks = {}
  BY <1>1, <1>2, MarksNone
<1>4. next >= N /\ next \in Nat
  <2>1. PICK w \in Workers : TRUE
    BY DeltaWalkAssumption
  <2> QED
    BY <1>1, <1>2, <2>1 DEF Phased, TypeOK
<1>5. \A r \in Entries : ParentOf(pack, r) = 0 => r \in Settled
  <2>1. Began /\ Walked
    BY <1>1 DEF Began, Walked
  <2>2. \A r \in Entries : r <= next
    BY <1>4, DeltaWalkAssumption DEF Entries
  <2> QED
    BY <1>1, <2>1, <2>2 DEF RootsSeen
<1>6. \A x \in Entries : ParentOf(pack, x) # 0 => (x \in Settled <=> ParentOf(pack, x) \in Settled)
  BY <1>1, <1>3 DEF Tree, Fits
<1>7. \A x \in Entries : (ParentOf(pack, x) = 0 \/ ParentOf(pack, x) \in Settled) => x \in Settled
  BY <1>5, <1>6
<1>8. ASSUME NEW x \in InForest PROVE x \in Settled
  <2>1. x \in Entries /\ 0 \in ChainOf(pack, x)
    BY OfForest DEF ForestOf
  <2> QED
    BY <1>1, <1>7, <2>1, ForestReached
<1> QED
  BY <1>8

LEMMA PassedOver == Walk /\ Verdict => NothingPassedOver
<1> SUFFICES ASSUME Walk, Verdict PROVE NothingPassedOver
  OBVIOUS
<1>1. \A i \in Entries : delivered[i] <= 1
  BY DEF Walk, Once
<1>2. Over /\ pack.opens = "yes" => \A i \in InForest : delivered[i] + reported[i] > 0
  BY AllSettled DEF Settled
<1>3. ASSUME Over
      PROVE  good = /\ pack.opens = "yes" /\ pack.idxSum /\ sums = "match"
                    /\ mismatch = {} /\ Entries \subseteq pack.crc
                    /\ \A i \in Entries : reported[i] = 0
  <2> DEFINE rest == /\ pack.opens = "yes" /\ pack.idxSum /\ sums = "match"
                     /\ mismatch = {} /\ Entries \subseteq pack.crc
                     /\ \A i \in Entries : reported[i] = 0
  <2>1. good \in BOOLEAN /\ phase = "over"
    BY <1>3 DEF Walk, Books, TypeOK, Over
  <2>2. CASE pack.opens # "yes"
    <3>1. ~good /\ ~rest /\ rest \in BOOLEAN
      BY <2>1, <2>2 DEF Verdict
    <3> HIDE DEF rest
    <3>2. good = rest
      BY <2>1, <3>1
    <3> QED
      BY <3>2 DEF rest
  <2>3. CASE pack.opens = "yes"
    <3>1. Walked /\ Began
      BY <2>1, <2>3 DEF Walked, Began
    <3>2. mismatch = Entries \ pack.crc
      BY <3>1 DEF Verdict
    <3>3. good <=> pack.idxSum /\ mismatch = {} /\ sums = "match" /\ NoneReported
      BY <2>1, <3>1 DEF Verdict
    <3>4. mismatch = {} <=> Entries \subseteq pack.crc
      BY <3>2
    <3>5. good <=> rest
      BY <2>3, <3>3, <3>4 DEF NoneReported
    <3>6. rest \in BOOLEAN
      OBVIOUS
    <3> HIDE DEF rest
    <3>7. good = rest
      BY <2>1, <3>5, <3>6
    <3> QED
      BY <3>7 DEF rest
  <2> QED
    BY <2>2, <2>3
<1> QED
  BY <1>1, <1>2, <1>3 DEF NothingPassedOver

LEMMA Exact == Walk => ResultExact
<1> SUFFICES ASSUME Walk, Over, rotten = {}, pack.opens = "yes", NEW i \in Entries
             PROVE  /\ delivered[i] = IF i \in Sound \cap pack.hashes THEN 1 ELSE 0
                    /\ reported[i] = IF i \in InForest \ (Sound \cap pack.hashes) THEN 1 ELSE 0
  BY DEF ResultExact
<1> DEFINE F == InForest
           A == Sound \cap pack.hashes
           d == delivered[i]
           r == reported[i]
<1>1. d \in Nat /\ r \in Nat
  BY DEF Walk, Books, TypeOK
<1>2. d + r <= 1 /\ (d > 0 => i \in A) /\ (r > 0 => i \in F \ A)
  BY OfForest DEF Walk, Right
<1>3. i \in F => d + r > 0
  BY AllSettled DEF Settled
<1>4. A \subseteq F
  BY DEF Sound
<1> HIDE DEF F, A, d, r
<1>5. d = IF i \in A THEN 1 ELSE 0
  BY <1>1, <1>2, <1>3, <1>4
<1>6. r = IF i \in F \ A THEN 1 ELSE 0
  BY <1>1, <1>2, <1>3, <1>4
<1> QED
  BY <1>5, <1>6 DEF F, A, d, r

\* No object is delivered twice and none of the forest is passed over, whoever
\* claims it, whatever is put off and whenever the file goes bad; and the pack
\* passes only when every hash and checksum matched (Verify, walkChain, rebuild).
THEOREM NonePassedOver == Spec => []NothingPassedOver
<1>1. Init => Walk /\ Verdict
  BY WalkInit, VerdictInit
<1>2. Walk /\ Verdict /\ [Next]_vars => Walk' /\ Verdict'
  BY WalkStep, VerdictStep
<1>3. Walk /\ Verdict => NothingPassedOver
  BY PassedOver
<1> QED
  BY <1>1, <1>2, <1>3, PTL DEF Spec

\* Whatever the budget and however the workers share it, each object that is to
\* be had and has its name is delivered once, and each other one reported once,
\* in a pack that does not change (Verify).
THEOREM WalkIsExact == Spec => []ResultExact
<1>1. Init => Walk
  BY WalkInit
<1>2. Walk /\ [Next]_vars => Walk'
  BY WalkStep
<1>3. Walk => ResultExact
  BY Exact
<1> QED
  BY <1>1, <1>2, <1>3, PTL DEF Spec
=============================================================================
