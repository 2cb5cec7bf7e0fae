-------------------------- MODULE NavHistoryProofs --------------------------
(***************************************************************************)
(* Theorems about NavHistory: what the chart of a vault may be trusted     *)
(* for, for any number of tabs and vaults, any transactions and any limit  *)
(* on what a request lists.                                                *)
(***************************************************************************)
EXTENDS NavHistory, SequenceTheorems, SumsProofs

-----------------------------------------------------------------------------
(* A set of numbers in order.                                              *)

IsAscending(S, s) ==
  /\ s \in [1 .. Cardinality(S) -> S]
  /\ \A i, j \in 1 .. Cardinality(S) : i < j => s[i] < s[j]

LEMMA AscendingExists ==
  ASSUME NEW n \in Nat, NEW S \in SUBSET (1 .. n)
  PROVE  \E s : IsAscending(S, s)
<1> DEFINE N == {m \in Nat : \A R \in SUBSET (1 .. m) : \E s : IsAscending(R, s)}
<1>1. 0 \in N
  <2> SUFFICES ASSUME NEW R \in SUBSET (1 .. 0) PROVE \E s : IsAscending(R, s)
    OBVIOUS
  <2>1. Cardinality(R) = 0
    <3>1. R = {}
      OBVIOUS
    <3> QED  BY <3>1, FS_EmptySet
  <2>2. \A i \in 1 .. 0 : FALSE
    OBVIOUS
  <2> DEFINE s == [i \in 1 .. Cardinality(R) |-> i]
  <2>3. s \in [1 .. Cardinality(R) -> R]
    BY <2>1, <2>2
  <2> HIDE DEF s
  <2>4. IsAscending(R, s)
    BY <2>1, <2>2, <2>3 DEF IsAscending
  <2> QED  BY <2>4
<1>2. ASSUME NEW m \in N PROVE m + 1 \in N
  <2> SUFFICES ASSUME NEW R \in SUBSET (1 .. m + 1) PROVE \E s : IsAscending(R, s)
    OBVIOUS
  <2>1. m \in Nat
    OBVIOUS
  <2>2. CASE m + 1 \notin R
    <3>1. R \in SUBSET (1 .. m)
      BY <2>1, <2>2
    <3> QED  BY <3>1
  <2>3. CASE m + 1 \in R
    <3> DEFINE T == R \ {m + 1}
               c == Cardinality(R)
    <3>1. T \in SUBSET (1 .. m)
      BY <2>1
    <3>2. PICK r : IsAscending(T, r)
      BY <3>1
    <3>3. IsFiniteSet(R)
      <4>1. IsFiniteSet(1 .. m + 1)
        BY <2>1, FS_Interval
      <4> QED  BY <4>1, FS_Subset
    <3>4. c \in Nat /\ c # 0
      BY <2>3, <3>3, FS_CardinalityType, FS_EmptySet
    <3>5. Cardinality(T) = c - 1
      BY <2>3, <3>3, FS_RemoveElement
    <3> HIDE DEF T, c
    <3> DEFINE s == [i \in 1 .. c |-> IF i = c THEN m + 1 ELSE r[i]]
    <3>6. \A i \in 1 .. c : i # c => i \in 1 .. Cardinality(T)
      BY <3>4, <3>5
    <3>7. \A i \in 1 .. c : i # c => r[i] \in T
      BY <3>2, <3>6 DEF IsAscending
    <3>8. s \in [1 .. c -> R]
      BY <2>3, <3>7 DEF T
    <3>9. ASSUME NEW i \in 1 .. c, NEW j \in 1 .. c, i < j PROVE s[i] < s[j]
      <4>1. i # c /\ s[i] = r[i]
        BY <3>4, <3>9
      <4>2. CASE j = c
        <5>1. s[j] = m + 1 /\ r[i] \in 1 .. m
          BY <3>1, <3>7, <4>1, <4>2
        <5> QED  BY <2>1, <4>1, <5>1
      <4>3. CASE j # c
        <5>1. s[j] = r[j]
          BY <4>3
        <5>2. r[i] < r[j]
          BY <3>2, <3>6, <3>9, <4>1, <4>3 DEF IsAscending
        <5> QED  BY <4>1, <5>1, <5>2
      <4> QED  BY <4>2, <4>3
    <3> HIDE DEF s
    <3> QED  BY <3>8, <3>9 DEF IsAscending, c
  <2> QED  BY <2>2, <2>3
<1> HIDE DEF N
<1>3. N = Nat
  BY <1>1, <1>2, AllNumbers DEF N
<1> QED
  BY <1>3 DEF N

\* Ascending lists exactly the numbers of a set, smallest first.
LEMMA Ascends ==
  ASSUME NEW n \in Nat, NEW S \in SUBSET (1 .. n)
  PROVE  LET s == Ascending(S) IN
         /\ s \in Seq(S) /\ Len(s) \in Nat /\ \A i \in 1 .. Len(s) : s[i] \in S
         /\ \A i, j \in 1 .. Len(s) : i < j => s[i] < s[j]
         /\ \A x \in S : \E i \in 1 .. Len(s) : s[i] = x
<1> DEFINE s == Ascending(S)
           c == Cardinality(S)
<1>1. IsAscending(S, s)
  <2>1. \E r \in [1 .. c -> S] : \A i, j \in 1 .. c : i < j => r[i] < r[j]
    BY AscendingExists DEF IsAscending
  <2> QED  BY <2>1 DEF Ascending, IsAscending
<1> HIDE DEF s
<1>2. IsFiniteSet(S) /\ c \in Nat
  <2>1. IsFiniteSet(1 .. n)
    BY FS_Interval
  <2>2. IsFiniteSet(S)
    BY <2>1, FS_Subset
  <2> QED  BY <2>2, FS_CardinalityType
<1>3. s \in [1 .. c -> S] /\ \A i, j \in 1 .. c : i < j => s[i] < s[j]
  BY <1>1 DEF IsAscending
<1> HIDE DEF c
<1>4. s \in Seq(S) /\ Len(s) = c
  BY <1>2, <1>3
<1>5. s \in Injection(1 .. c, S)
  <2>1. ASSUME NEW i \in 1 .. c, NEW j \in 1 .. c, s[i] = s[j] PROVE i = j
    <3>1. s[i] \in Int /\ s[j] \in Int
      <4>1. s[i] \in S /\ s[j] \in S
        BY <1>3
      <4>2. \A x \in S : x \in Int
        OBVIOUS
      <4> QED  BY <4>1, <4>2
    <3>2. ~ (i < j) /\ ~ (j < i)
      BY <1>3, <2>1, <3>1
    <3> QED  BY <1>2, <3>2
  <2> QED  BY <1>3, <2>1 DEF Injection, IsInjective
<1>6. Cardinality(1 .. c) = c
  BY <1>2, FS_Interval
<1>7. s \in Surjection(1 .. c, S)
  BY <1>2, <1>5, <1>6, FS_Injection DEF c
<1>8. \A x \in S : \E i \in 1 .. c : s[i] = x
  BY <1>7 DEF Surjection
<1> QED
  BY <1>2, <1>3, <1>4, <1>8 DEF s

-----------------------------------------------------------------------------
(* The merge of two charts.                                                *)

InTime(s) == \A i, j \in DOMAIN s : i < j => s[i].tx < s[j].tx

\* A chart in time has one point for a transaction.
LEMMA OnePoint ==
  ASSUME NEW P, \A p \in P : p.tx \in Nat, NEW s \in Seq(P), InTime(s),
         NEW p \in ToSet(s), NEW q \in ToSet(s), p.tx = q.tx
  PROVE  p = q
<1>1. PICK i \in DOMAIN s : p = s[i]
  BY DEF ToSet
<1>2. PICK j \in DOMAIN s : q = s[j]
  BY DEF ToSet
<1>3. i \in Nat /\ j \in Nat
  OBVIOUS
<1>4. s[i] \in P /\ s[j] \in P
  OBVIOUS
<1>5. s[i].tx \in Nat /\ s[j].tx \in Nat
  BY <1>4
<1>6. ~ (i < j) /\ ~ (j < i)
  BY <1>1, <1>2, <1>5 DEF InTime
<1> QED
  BY <1>1, <1>2, <1>3, <1>6

Points(base, fresh) == ToSet(fresh) \cup {p \in ToSet(base) : p.tx \notin Txs(fresh)}

\* What is merged: the points fetched, and the old ones of other transactions,
\* by time.
LEMMA Merges ==
  ASSUME NEW n \in Nat, NEW P, \A p \in P : p.tx \in 1 .. n,
         NEW base \in Seq(P), NEW fresh \in Seq(P), InTime(base), InTime(fresh)
  PROVE  LET m == Merged(base, fresh) IN
         /\ m \in Seq(P) /\ InTime(m)
         /\ ToSet(m) = Points(base, fresh)
         /\ Txs(m) = Txs(base) \cup Txs(fresh)
<1> DEFINE m == Merged(base, fresh)
           points == Points(base, fresh)
           T == {p.tx : p \in points}
           times == Ascending(T)
<1>1. m = [i \in 1 .. Len(times) |-> CHOOSE p \in points : p.tx = times[i]]
  BY DEF Merged, Points
<1>2. \A p \in ToSet(base) \cup ToSet(fresh) : p \in P
  BY DEF ToSet
<1>3. \A p \in points : p \in P
  BY <1>2 DEF Points
<1>4. \A p \in ToSet(fresh) : p.tx \in Txs(fresh)
  BY DEF ToSet, Txs
<1>5. \A p \in points, q \in points : p.tx = q.tx => p = q
  <2>0. \A p \in P : p.tx \in Nat
    OBVIOUS
  <2> SUFFICES ASSUME NEW p \in points, NEW q \in points, p.tx = q.tx PROVE p = q
    OBVIOUS
  <2>1. CASE p \in ToSet(fresh) /\ q \in ToSet(fresh)
    BY <2>0, <2>1, OnePoint
  <2>2. CASE p \in ToSet(base) /\ q \in ToSet(base)
    BY <2>0, <2>2, OnePoint
  <2>3. CASE p \in ToSet(fresh) /\ q \notin ToSet(fresh)
    BY <1>4, <2>3 DEF Points
  <2>4. CASE p \notin ToSet(fresh) /\ q \in ToSet(fresh)
    BY <1>4, <2>4 DEF Points
  <2> QED  BY <2>1, <2>2, <2>3, <2>4 DEF Points
<1>6. T \in SUBSET (1 .. n)
  BY <1>3
<1> HIDE DEF points, m
<1>7. /\ Len(times) \in Nat /\ \A i \in 1 .. Len(times) : times[i] \in T
      /\ \A i, j \in 1 .. Len(times) : i < j => times[i] < times[j]
      /\ \A x \in T : \E i \in 1 .. Len(times) : times[i] = x
  BY <1>6, Ascends
<1> HIDE DEF times
<1>8. \A i \in 1 .. Len(times) : m[i] \in points /\ m[i].tx = times[i]
  <2> TAKE i \in 1 .. Len(times)
  <2>1. \E p \in points : p.tx = times[i]
    BY <1>7
  <2>2. m[i] = CHOOSE p \in points : p.tx = times[i]
    BY <1>1
  <2> QED  BY <2>1, <2>2
<1>9. m \in Seq(P) /\ Len(m) = Len(times) /\ DOMAIN m = 1 .. Len(times)
  <2>1. \A i \in 1 .. Len(times) : m[i] \in P
    BY <1>3, <1>8
  <2>2. DOMAIN m = 1 .. Len(times) /\ m = [i \in 1 .. Len(times) |-> m[i]]
    BY <1>1
  <2> QED  BY <1>7, <2>1, <2>2
<1>10. InTime(m)
  BY <1>7, <1>8, <1>9 DEF InTime
<1>11. ToSet(m) = points
  <2>1. ASSUME NEW p \in points PROVE p \in ToSet(m)
    <3>1. PICK i \in 1 .. Len(times) : times[i] = p.tx
      BY <1>7
    <3>2. m[i] = p
      BY <1>5, <1>8, <3>1
    <3> QED  BY <1>9, <3>2 DEF ToSet
  <2>2. \A p \in ToSet(m) : p \in points
    BY <1>8, <1>9 DEF ToSet
  <2> QED  BY <2>1, <2>2
<1>12. Txs(m) = Txs(base) \cup Txs(fresh)
  <2>1. Txs(m) = {p.tx : p \in ToSet(m)}
    BY DEF Txs, ToSet
  <2>2. Txs(base) = {p.tx : p \in ToSet(base)} /\ Txs(fresh) = {p.tx : p \in ToSet(fresh)}
    BY DEF Txs, ToSet
  <2> QED  BY <1>11, <2>1, <2>2 DEF points, Points
<1> QED
  BY <1>9, <1>10, <1>11, <1>12 DEF m, points

-----------------------------------------------------------------------------
(* The walk.  The accumulator after each transaction is a function that is *)
(* defined by recursion; that it exists is an induction.                   *)

Started == [supply |-> 0, out |-> << >>]

\* What the accumulator is after the nth signature.
Walked(f, n, sigs, failed, known, whole) ==
  f[n] = IF n = 0 THEN Started ELSE Visit(f[n - 1], sigs[n], failed, known, whole)

IsWalk(f, sigs, failed, known, whole) ==
  f = [n \in 0 .. Len(sigs) |->
         IF n = 0 THEN [supply |-> 0, out |-> << >>]
         ELSE Visit(f[n - 1], sigs[n], failed, known, whole)]

LEMMA WalkExists ==
  ASSUME NEW sigs, Len(sigs) \in Nat, NEW failed, NEW known, NEW whole
  PROVE  \E f : IsWalk(f, sigs, failed, known, whole)
<1> DEFINE L == Len(sigs)
           W(f, n) == Walked(f, n, sigs, failed, known, whole)
           V(a, n) == Visit(a, sigs[n], failed, known, whole)
           N == {m \in Nat : \E f : \A n \in 0 .. L : n <= m => W(f, n)}
<1>0. \A f, n : W(f, n) <=> f[n] = IF n = 0 THEN Started ELSE V(f[n - 1], n)
  BY DEF Walked
<1> HIDE DEF W, V
<1>1. 0 \in N
  <2> DEFINE f == [n \in 0 .. L |-> Started]
  <2>1. \A n \in 0 .. L : n <= 0 => f[n] = Started /\ n = 0
    OBVIOUS
  <2> HIDE DEF f
  <2>2. \A n \in 0 .. L : n <= 0 => W(f, n)
    BY <1>0, <2>1
  <2> QED  BY <2>2
<1>2. ASSUME NEW m \in N PROVE m + 1 \in N
  <2>1. m \in Nat
    OBVIOUS
  <2>2. PICK f : \A n \in 0 .. L : n <= m => W(f, n)
    OBVIOUS
  <2> DEFINE g == [n \in 0 .. L |-> IF n = 0 THEN Started ELSE V(f[n - 1], n)]
  <2>3. \A n \in 0 .. L : g[n] = IF n = 0 THEN Started ELSE V(f[n - 1], n)
    OBVIOUS
  <2> HIDE DEF g
  <2>4. \A n \in 0 .. L : n <= m => g[n] = f[n]
    BY <1>0, <2>2, <2>3
  <2>5. ASSUME NEW n \in 0 .. L, n <= m + 1, n # 0 PROVE g[n - 1] = f[n - 1]
    <3>1. n - 1 \in 0 .. L /\ n - 1 <= m
      BY <2>1, <2>5
    <3> QED  BY <2>4, <3>1
  <2>6. \A n \in 0 .. L : n <= m + 1 => W(g, n)
    BY <1>0, <2>3, <2>5
  <2> QED  BY <2>1, <2>6
<1> HIDE DEF N
<1>3. N = Nat
  BY <1>1, <1>2, AllNumbers DEF N
<1>4. PICK f : \A n \in 0 .. L : n <= L => W(f, n)
  BY <1>3 DEF N
<1> DEFINE g == [n \in 0 .. L |-> f[n]]
<1>5. \A n \in 0 .. L : g[n] = f[n] /\ (n # 0 => g[n - 1] = f[n - 1])
  <2>1. \A n \in 0 .. L : n # 0 => n - 1 \in 0 .. L
    OBVIOUS
  <2> QED  BY <2>1
<1>6. g = [n \in 0 .. L |-> g[n]]
  OBVIOUS
<1> HIDE DEF g
<1>7. \A n \in 0 .. L : g[n] = IF n = 0 THEN Started ELSE V(g[n - 1], n)
  BY <1>0, <1>4, <1>5
<1>8. g = [n \in 0 .. L |-> IF n = 0 THEN Started ELSE V(g[n - 1], n)]
  BY <1>6, <1>7
<1> QED
  BY <1>8 DEF V, Started, IsWalk

\* The walk, step by step.
LEMMA Walking ==
  ASSUME NEW sigs, Len(sigs) \in Nat, NEW failed, NEW known, NEW whole
  PROVE  \E f : /\ Walk(sigs, failed, known, whole) = f[Len(sigs)].out
                /\ f[0] = Started
                /\ \A n \in 1 .. Len(sigs) :
                     f[n] = Visit(f[n - 1], sigs[n], failed, known, whole)
<1> DEFINE f == CHOOSE f : IsWalk(f, sigs, failed, known, whole)
<1>1. IsWalk(f, sigs, failed, known, whole)
  BY WalkExists
<1>2. Walk(sigs, failed, known, whole) = f[Len(sigs)].out
  BY DEF Walk, IsWalk
<1> HIDE DEF f
<1>3. \A n \in 0 .. Len(sigs) :
        f[n] = IF n = 0 THEN Started ELSE Visit(f[n - 1], sigs[n], failed, known, whole)
  BY <1>1 DEF Started, IsWalk
<1>4. 0 \in 0 .. Len(sigs) /\ \A n \in 1 .. Len(sigs) : n \in 0 .. Len(sigs) /\ n # 0
  OBVIOUS
<1> QED
  BY <1>2, <1>3, <1>4

LEMMA MintedType == \A k : Minted(k) \in {-1, 0, 1}
  BY DEF Minted

PointOf(n, whole) == [tx : 1 .. n, supply : Nat, whole : {whole}]

\* The supply after a transaction, kept from going below zero.
Running(a, i, known) ==
  LET k == chain[i].kind
      u == a.supply + IF known /\ MovesShares(k) THEN Minted(k) ELSE 0
  IN  IF u < 0 THEN 0 ELSE u

\* What a transaction adds to the walk.
LEMMA Visits ==
  ASSUME NEW n \in Nat, NEW whole, NEW a \in [supply : Nat, out : Seq(PointOf(n, whole))],
         NEW i \in 1 .. n, NEW failed, NEW known \in BOOLEAN
  PROVE  LET b == Visit(a, i, failed, known, whole)
             k == chain[i].kind
             sees == known /\ MovesShares(k)
             p == [tx |-> i, supply |-> b.supply, whole |-> whole]
         IN  \/ /\ k = "failed" \/ i \in failed \/ (~ sees /\ a.out = << >>)
                /\ b = a
             \/ /\ ~ (~ known /\ a.out = << >>)
                /\ b.supply \in Nat /\ b.supply = Running(a, i, known)
                /\ p \in PointOf(n, whole)
                /\ b = [supply |-> b.supply, out |-> Append(a.out, p)]
<1> DEFINE k == chain[i].kind
           sees == known /\ MovesShares(k)
           u == a.supply + IF sees THEN Minted(k) ELSE 0
           s == IF u < 0 THEN 0 ELSE u
           p == [tx |-> i, supply |-> s, whole |-> whole]
           b == Visit(a, i, failed, known, whole)
           skips == k = "failed" \/ i \in failed \/ (~ sees /\ a.out = << >>)
<1>1. b = IF skips THEN a ELSE [supply |-> s, out |-> Append(a.out, p)]
  BY DEF Visit
<1>2. a.supply \in Nat /\ u \in Int
  <2>1. a.supply \in Nat
    OBVIOUS
  <2>2. (IF sees THEN Minted(k) ELSE 0) \in Int
    BY MintedType
  <2> QED  BY <2>1, <2>2
<1> HIDE DEF u
<1>3. s \in Nat /\ s = Running(a, i, known)
  <2>1. s = Running(a, i, known)
    BY DEF Running, u
  <2> QED  BY <1>2, <2>1
<1> HIDE DEF s
<1>4. p \in PointOf(n, whole)
  BY <1>3 DEF PointOf
<1>5. CASE skips
  <2>1. b = a
    BY <1>1, <1>5
  <2> QED  BY <1>5, <2>1
<1>6. CASE ~ skips
  <2>1. b = [supply |-> s, out |-> Append(a.out, p)]
    BY <1>1, <1>6
  <2>2. b.supply = s
    BY <2>1
  <2>3. ~ (~ known /\ a.out = << >>)
    BY <1>6
  <2> QED  BY <1>3, <1>4, <2>1, <2>2, <2>3
<1> QED
  BY <1>5, <1>6

\* A chart stays in time with a later transaction at its end.
LEMMA AppendsInTime ==
  ASSUME NEW P, NEW s \in Seq(P), NEW p \in P, InTime(s), \A q \in P : q.tx \in Nat,
         \A q \in ToSet(s) : q.tx < p.tx
  PROVE  LET r == Append(s, p) IN
         r \in Seq(P) /\ InTime(r) /\ ToSet(r) = ToSet(s) \cup {p}
<1> DEFINE r == Append(s, p)
<1>1. /\ r \in Seq(P) /\ Len(s) \in Nat /\ Len(r) = Len(s) + 1
      /\ DOMAIN r = 1 .. Len(s) + 1 /\ DOMAIN s = 1 .. Len(s)
      /\ r[Len(s) + 1] = p
      /\ \A i \in 1 .. Len(s) : r[i] = s[i]
  BY AppendProperties
<1> HIDE DEF r
<1>2. InTime(r)
  <2> SUFFICES ASSUME NEW i \in 1 .. Len(s) + 1, NEW j \in 1 .. Len(s) + 1, i < j
               PROVE  r[i].tx < r[j].tx
    BY <1>1 DEF InTime
  <2>1. i \in 1 .. Len(s) /\ r[i] = s[i]
    BY <1>1
  <2>2. CASE j = Len(s) + 1
    BY <1>1, <2>1, <2>2 DEF ToSet
  <2>3. CASE j # Len(s) + 1
    <3>1. j \in 1 .. Len(s) /\ r[j] = s[j]
      BY <1>1, <2>3
    <3> QED  BY <1>1, <2>1, <3>1 DEF InTime
  <2> QED  BY <2>2, <2>3
<1>3. ToSet(r) = ToSet(s) \cup {p}
  <2>1. ToSet(r) = {r[i] : i \in 1 .. Len(s) + 1} /\ ToSet(s) = {s[i] : i \in 1 .. Len(s)}
    BY <1>1 DEF ToSet
  <2>2. \A i \in 1 .. Len(s) + 1 : i = Len(s) + 1 \/ i \in 1 .. Len(s)
    BY <1>1
  <2>3. Len(s) + 1 \in 1 .. Len(s) + 1 /\ \A i \in 1 .. Len(s) : i \in 1 .. Len(s) + 1
    BY <1>1
  <2> QED  BY <1>1, <2>1, <2>2, <2>3
<1> QED
  BY <1>1, <1>2, <1>3 DEF r

LEMMA TxsOf == \A s : Txs(s) = {p.tx : p \in ToSet(s)}
  BY DEF Txs, ToSet

\* What the walk keeps up as it goes: its points are of the transactions visited,
\* in their order; without the share mint there are none, with it and with every
\* answer there is one for each transaction that moves shares.
Trodden(a, m, n, sigs, failed, known, whole) ==
  /\ a \in [supply : Nat, out : Seq(PointOf(n, whole))]
  /\ InTime(a.out)
  /\ \A p \in ToSet(a.out) : \E j \in 1 .. m : p.tx = sigs[j]
  /\ ~ known => a.out = << >>
  /\ known /\ failed = {} =>
       \A j \in 1 .. m : MovesShares(chain[sigs[j]].kind) => sigs[j] \in Txs(a.out)

LEMMA Treads ==
  ASSUME NEW n \in Nat, NEW sigs, Len(sigs) \in Nat,
         \A i \in 1 .. Len(sigs) : sigs[i] \in 1 .. n,
         \A i, j \in 1 .. Len(sigs) : i < j => sigs[i] < sigs[j],
         NEW failed, NEW known \in BOOLEAN, NEW whole, NEW m \in Nat, m < Len(sigs),
         NEW a, Trodden(a, m, n, sigs, failed, known, whole)
  PROVE  Trodden(Visit(a, sigs[m + 1], failed, known, whole), m + 1,
                 n, sigs, failed, known, whole)
<1> DEFINE x == sigs[m + 1]
           b == Visit(a, x, failed, known, whole)
           k == chain[x].kind
           P == PointOf(n, whole)
<1>1. m + 1 \in 1 .. Len(sigs) /\ x \in 1 .. n
  OBVIOUS
<1>2. a \in [supply : Nat, out : Seq(P)] /\ a.out \in Seq(P)
  BY DEF Trodden
<1>3. \A j \in 1 .. m + 1 : j = m + 1 \/ j \in 1 .. m
  OBVIOUS
<1>4. \A j \in 1 .. m : j \in 1 .. m + 1
  OBVIOUS
<1> DEFINE p == [tx |-> x, supply |-> b.supply, whole |-> whole]
<1>5. \/ /\ k = "failed" \/ x \in failed \/ (~ (known /\ MovesShares(k)) /\ a.out = << >>)
         /\ b = a
      \/ /\ ~ (~ known /\ a.out = << >>)
         /\ b.supply \in Nat /\ p \in P
         /\ b = [supply |-> b.supply, out |-> Append(a.out, p)]
  <2> HIDE DEF x
  <2>1. x \in 1 .. n /\ a \in [supply : Nat, out : Seq(PointOf(n, whole))]
    BY <1>1, <1>2
  <2> HIDE DEF k
  <2>2. k = chain[x].kind
    BY DEF k
  <2> QED  BY <2>1, <2>2, Visits
<1>6. k = "failed" => ~ MovesShares(k)
  BY DEF MovesShares
<1>7. CASE /\ b = a
           /\ \/ k = "failed" \/ x \in failed
              \/ ~ (known /\ MovesShares(k)) /\ a.out = << >>
  <2>1. \A q \in ToSet(a.out) : \E j \in 1 .. m + 1 : q.tx = sigs[j]
    BY <1>4 DEF Trodden
  <2>2. known /\ failed = {} => ~ MovesShares(k)
    BY <1>6, <1>7
  <2>3. known /\ failed = {} =>
          \A j \in 1 .. m + 1 : MovesShares(chain[sigs[j]].kind) => sigs[j] \in Txs(a.out)
    BY <1>3, <2>2 DEF Trodden
  <2> HIDE DEF b, x
  <2> QED  BY <1>2, <1>7, <2>1, <2>3 DEF Trodden, x, b
<1>8. CASE /\ ~ (~ known /\ a.out = << >>)
           /\ b.supply \in Nat /\ p \in P
           /\ b = [supply |-> b.supply, out |-> Append(a.out, p)]
  <2> DEFINE r == Append(a.out, p)
             u == b.supply
  <2>1. p.tx = x /\ p \in P /\ u \in Nat
    BY <1>8
  <2>2. b = [supply |-> u, out |-> r]
    BY <1>8
  <2> HIDE DEF b, p, u
  <2>3. \A q \in ToSet(a.out) : q.tx < p.tx
    <3> TAKE q \in ToSet(a.out)
    <3>1. PICK j \in 1 .. m : q.tx = sigs[j]
      BY DEF Trodden
    <3>2. j \in 1 .. Len(sigs) /\ j < m + 1
      OBVIOUS
    <3> QED  BY <1>1, <2>1, <3>1, <3>2
  <2>4. \A q \in P : q.tx \in Nat
    BY DEF PointOf
  <2>5. r \in Seq(P) /\ InTime(r) /\ ToSet(r) = ToSet(a.out) \cup {p}
    <3>1. InTime(a.out)
      BY DEF Trodden
    <3> HIDE DEF P, x
    <3> QED  BY <1>2, <2>1, <2>3, <2>4, <3>1, AppendsInTime
  <2> HIDE DEF r
  <2>6. \A q \in ToSet(r) : \E j \in 1 .. m + 1 : q.tx = sigs[j]
    <3>1. m + 1 \in 1 .. m + 1
      OBVIOUS
    <3> QED  BY <1>4, <2>1, <2>5, <3>1 DEF Trodden
  <2>7. Txs(r) = Txs(a.out) \cup {x}
    BY <2>1, <2>5, TxsOf
  <2>8. known /\ failed = {} =>
          \A j \in 1 .. m + 1 : MovesShares(chain[sigs[j]].kind) => sigs[j] \in Txs(r)
    BY <1>3, <2>7 DEF Trodden
  <2>9. known
    BY <1>8 DEF Trodden
  <2>10. b.out = r /\ b \in [supply : Nat, out : Seq(P)]
    BY <2>1, <2>2, <2>5
  <2> HIDE DEF x
  <2> QED  BY <2>5, <2>6, <2>8, <2>9, <2>10 DEF Trodden, x, b, P
<1> QED
  BY <1>5, <1>7, <1>8

LEMMA Walks ==
  ASSUME NEW n \in Nat, NEW S \in SUBSET (1 .. n), NEW failed, NEW known \in BOOLEAN,
         NEW whole
  PROVE  LET w == Walk(Chrono(S), failed, known, whole) IN
         /\ w \in Seq(PointOf(n, whole)) /\ InTime(w) /\ Txs(w) \subseteq S
         /\ known \/ Txs(w) = {}
         /\ known /\ failed = {} =>
              \A i \in S : MovesShares(chain[i].kind) => i \in Txs(w)
<1> DEFINE sigs == Chrono(S)
           w == Walk(sigs, failed, known, whole)
           L == Len(sigs)
           K(a, m) == Trodden(a, m, n, sigs, failed, known, whole)
<1>1. /\ L \in Nat /\ \A i \in 1 .. L : sigs[i] \in S
      /\ \A i, j \in 1 .. L : i < j => sigs[i] < sigs[j]
      /\ \A x \in S : \E i \in 1 .. L : sigs[i] = x
  BY Ascends DEF Chrono
<1> HIDE DEF sigs
<1>2. \A i \in 1 .. L : sigs[i] \in 1 .. n
  BY <1>1
<1>3. PICK f : /\ w = f[L].out /\ f[0] = Started
               /\ \A m \in 1 .. L : f[m] = Visit(f[m - 1], sigs[m], failed, known, whole)
  <2> HIDE DEF sigs
  <2>1. Len(sigs) \in Nat
    BY <1>1
  <2> QED  BY <2>1, Walking, SMTT(20)
<1> DEFINE N == {m \in Nat : m <= L => K(f[m], m)}
<1>4. 0 \in N
  <2>1. << >> \in Seq(PointOf(n, whole)) /\ ToSet(<< >>) = {} /\ InTime(<< >>)
    BY DEF ToSet, InTime
  <2>2. \A j \in 1 .. 0 : FALSE
    OBVIOUS
  <2>3. Started \in [supply : Nat, out : Seq(PointOf(n, whole))] /\ Started.out = << >>
    BY <2>1 DEF Started
  <2> QED  BY <1>3, <2>1, <2>2, <2>3 DEF Trodden
<1>5. ASSUME NEW m \in N PROVE m + 1 \in N
  <2>1. m \in Nat
    OBVIOUS
  <2> SUFFICES ASSUME m + 1 <= L PROVE K(f[m + 1], m + 1)
    BY <2>1
  <2>2. m < L /\ m + 1 \in 1 .. L /\ (m + 1) - 1 = m
    BY <1>1, <2>1
  <2>3. K(f[m], m)
    BY <2>2
  <2> HIDE DEF N
  <2>4. f[m + 1] = Visit(f[m], sigs[m + 1], failed, known, whole)
    BY <1>3, <2>2
  <2>5. /\ Len(sigs) \in Nat /\ \A i \in 1 .. Len(sigs) : sigs[i] \in 1 .. n
        /\ \A i, j \in 1 .. Len(sigs) : i < j => sigs[i] < sigs[j]
    BY <1>1, <1>2
  <2> DEFINE a == f[m]
  <2>6. Trodden(a, m, n, sigs, failed, known, whole)
    BY <2>3
  <2> HIDE DEF a
  <2>7. Trodden(Visit(a, sigs[m + 1], failed, known, whole), m + 1,
                n, sigs, failed, known, whole)
    BY <2>1, <2>2, <2>5, <2>6, Treads, SMTT(20)
  <2> QED  BY <2>4, <2>7 DEF a
<1> HIDE DEF N
<1>6. N = Nat
  BY <1>4, <1>5, AllNumbers DEF N
<1>7. K(f[L], L)
  BY <1>1, <1>6 DEF N
<1> HIDE DEF w
<1>8. Txs(w) \subseteq S
  <2>1. \A p \in ToSet(w) : p.tx \in S
    BY <1>1, <1>3, <1>7 DEF Trodden
  <2> QED  BY <2>1, TxsOf
<1>9. known /\ failed = {} => \A i \in S : MovesShares(chain[i].kind) => i \in Txs(w)
  BY <1>1, <1>3, <1>7 DEF Trodden
<1>10. known \/ Txs(w) = {}
  <2>1. known \/ w = << >>
    BY <1>3, <1>7 DEF Trodden
  <2> QED  BY <2>1 DEF Txs
<1> QED
  BY <1>3, <1>7, <1>8, <1>9, <1>10 DEF Trodden, w, sigs

-----------------------------------------------------------------------------
(* The supply of a chain, that the actions may lengthen.                   *)

Tx == [of : Vault, kind : Kind]

Made(c, v, k, n) == Cardinality({i \in 1 .. n : c[i] = [of |-> v, kind |-> k]})
Supply(c, v, n) == Made(c, v, "mint", n) - Made(c, v, "burn", n)

LEMMA SupplyIs == \A v, n : SupplyAt(v, n) = Supply(chain, v, n)
  BY DEF SupplyAt, Supply, Made

LEMMA MadeType == \A c, v, k : \A n \in Nat : Made(c, v, k, n) \in Nat
<1> TAKE c, v, k
<1> TAKE n \in Nat
<1> DEFINE S == {i \in 1 .. n : c[i] = [of |-> v, kind |-> k]}
<1>1. IsFiniteSet(1 .. n) /\ S \in SUBSET (1 .. n)
  BY FS_Interval
<1> HIDE DEF S
<1>2. IsFiniteSet(S)
  BY <1>1, FS_Subset
<1> QED
  BY <1>2, FS_CardinalityType DEF Made, S

LEMMA SupplyType ==
  ASSUME NEW c, NEW v, NEW n \in Nat
  PROVE  Supply(c, v, n) \in Int
<1>1. Made(c, v, "mint", n) \in Nat /\ Made(c, v, "burn", n) \in Nat
  BY MadeType
<1> QED
  BY <1>1 DEF Supply

\* It depends on the transactions up to there.
LEMMA SupplySame ==
  ASSUME NEW c, NEW d, NEW v, NEW n \in Nat, \A i \in 1 .. n : c[i] = d[i]
  PROVE  Supply(c, v, n) = Supply(d, v, n)
<1>1. \A k : {i \in 1 .. n : c[i] = [of |-> v, kind |-> k]}
             = {i \in 1 .. n : d[i] = [of |-> v, kind |-> k]}
  OBVIOUS
<1>2. \A k : Made(c, v, k, n) = Made(d, v, k, n)
  BY <1>1 DEF Made
<1> QED
  BY <1>2 DEF Supply

\* From one of the vault's transactions to the next.
LEMMA SupplyMoves ==
  ASSUME NEW c \in Seq(Tx), NEW v, NEW b \in 1 .. Len(c), NEW a \in 0 .. b - 1,
         \A i \in a + 1 .. b - 1 : c[i].of # v, c[b].of = v
  PROVE  Supply(c, v, b) = Supply(c, v, a) + Minted(c[b].kind)
<1> DEFINE At(n, k) == {i \in 1 .. n : c[i] = [of |-> v, kind |-> k]}
           kind == c[b].kind
<1>1. a \in Nat /\ b \in Nat /\ c[b] = [of |-> v, kind |-> kind] /\ kind \in Kind
  <2>1. c[b] \in Tx
    OBVIOUS
  <2> QED  BY <2>1 DEF Tx
<1>2. ASSUME NEW k
      PROVE  Made(c, v, k, b) = Made(c, v, k, a) + IF kind = k THEN 1 ELSE 0
  <2>0. IsFiniteSet(1 .. a) /\ At(a, k) \in SUBSET (1 .. a)
    <3>1. a \in Int
      BY <1>1
    <3>2. IsFiniteSet(1 .. a)
      BY <3>1, FS_Interval
    <3> QED  BY <3>2
  <2>1. IsFiniteSet(At(a, k)) /\ Made(c, v, k, a) \in Nat
    <3>1. Made(c, v, k, a) \in Nat
      BY <1>1, MadeType
    <3> HIDE DEF At
    <3>2. IsFiniteSet(At(a, k))
      BY <2>0, FS_Subset
    <3> QED  BY <3>1, <3>2
  <2>2. \A i \in 1 .. b : i \in 1 .. a \/ i \in a + 1 .. b - 1 \/ i = b
    OBVIOUS
  <2>3. \A i \in a + 1 .. b - 1 : c[i] # [of |-> v, kind |-> k]
    OBVIOUS
  <2>4. b \notin 1 .. a /\ b \in 1 .. b /\ \A i \in 1 .. a : i \in 1 .. b
    OBVIOUS
  <2>5. CASE kind = k
    <3>1. At(b, k) = At(a, k) \cup {b} /\ b \notin At(a, k)
      BY <1>1, <2>2, <2>3, <2>4, <2>5
    <3>2. Cardinality(At(b, k)) = Cardinality(At(a, k)) + 1
      BY <2>1, <3>1, FS_AddElement
    <3> QED  BY <2>5, <3>2 DEF Made
  <2>6. CASE kind # k
    <3>1. c[b] # [of |-> v, kind |-> k]
      BY <2>6
    <3>2. At(b, k) = At(a, k)
      BY <2>2, <2>3, <2>4, <3>1
    <3>3. Made(c, v, k, b) = Made(c, v, k, a)
      BY <3>2 DEF Made
    <3> QED  BY <2>1, <2>6, <3>3
  <2> QED  BY <2>5, <2>6
<1>3. Made(c, v, "mint", a) \in Nat /\ Made(c, v, "burn", a) \in Nat
  BY <1>1, MadeType
<1>4. /\ Made(c, v, "mint", b) = Made(c, v, "mint", a) + IF kind = "mint" THEN 1 ELSE 0
      /\ Made(c, v, "burn", b) = Made(c, v, "burn", a) + IF kind = "burn" THEN 1 ELSE 0
  BY <1>2
<1> HIDE DEF kind
<1>5. Minted(kind) = (IF kind = "mint" THEN 1 ELSE 0) - (IF kind = "burn" THEN 1 ELSE 0)
  BY DEF Minted
<1> QED
  BY <1>3, <1>4, <1>5 DEF Supply, kind

LEMMA MintedMoves == \A k : ~ MovesShares(k) => Minted(k) = 0
  BY DEF MovesShares, Minted

-----------------------------------------------------------------------------
(* A walk over all of a vault's transactions, with every answer and the    *)
(* share mint, has the supply of the chain at each of its points.          *)

\* Where the walk is after m transactions.
Place(sigs, m) == IF m = 0 THEN 0 ELSE sigs[m]

\* Every answer comes and the share mint is known.
AllCome(failed, known) == failed = {} /\ known

Tracks(a, v, n, whole, i) ==
  /\ a \in [supply : Nat, out : Seq(PointOf(n, whole))]
  /\ a.supply = Supply(chain, v, i)
  /\ \A p \in ToSet(a.out) : p.supply = Supply(chain, v, p.tx)

\* One transaction further.
LEMMA TracksOn ==
  ASSUME chain \in Seq(Tx), NEW v, NEW failed, NEW known \in BOOLEAN,
         AllCome(failed, known),
         NEW whole, NEW x \in 1 .. Len(chain),
         NEW i \in 0 .. x - 1, \A j \in i + 1 .. x - 1 : chain[j].of # v,
         chain[x].of = v, Supply(chain, v, x) >= 0,
         NEW a, Tracks(a, v, Len(chain), whole, i)
  PROVE  Tracks(Visit(a, x, failed, known, whole), v, Len(chain), whole, x)
<1> DEFINE n == Len(chain)
           P == PointOf(n, whole)
           b == Visit(a, x, failed, known, whole)
           k == chain[x].kind
           u == a.supply + IF MovesShares(k) THEN Minted(k) ELSE 0
           p == [tx |-> x, supply |-> b.supply, whole |-> whole]
<1>1. n \in Nat /\ a \in [supply : Nat, out : Seq(P)]
  BY DEF Tracks
<1>2. a.supply \in Nat /\ a.out \in Seq(P)
  BY <1>1
<1>3. Supply(chain, v, x) = a.supply + Minted(k)
  BY SupplyMoves DEF Tracks
<1>4. \/ /\ ~ MovesShares(k)
         /\ b = a
      \/ /\ b.supply \in Nat /\ b.supply = Running(a, x, known)
         /\ p \in P
         /\ b = [supply |-> b.supply, out |-> Append(a.out, p)]
  <2>1. \/ /\ k = "failed" \/ x \in failed \/ (~ (known /\ MovesShares(k)) /\ a.out = << >>)
           /\ b = a
        \/ /\ b.supply \in Nat /\ b.supply = Running(a, x, known)
           /\ p \in P
           /\ b = [supply |-> b.supply, out |-> Append(a.out, p)]
    BY <1>1, Visits
  <2>2. k = "failed" => ~ MovesShares(k)
    BY DEF MovesShares
  <2> HIDE DEF b, k, p
  <2> QED  BY <2>1, <2>2 DEF AllCome
<1>5. Minted(k) \in {-1, 0, 1} /\ (~ MovesShares(k) => Minted(k) = 0)
  BY MintedType, MintedMoves
<1>6. Running(a, x, known) = Supply(chain, v, x)
  <2>1. u = Supply(chain, v, x) /\ u \in Int /\ u >= 0
    BY <1>2, <1>3, <1>5
  <2>2. Running(a, x, known) = IF u < 0 THEN 0 ELSE u
    BY DEF Running, AllCome
  <2>3. (IF u < 0 THEN 0 ELSE u) = u
    <3> HIDE DEF u
    <3> QED  BY <2>1
  <2> HIDE DEF u
  <2> QED  BY <2>1, <2>2, <2>3
<1> HIDE DEF k
<1>7. CASE ~ MovesShares(k) /\ b = a
  <2>1. a.supply = Supply(chain, v, x)
    BY <1>2, <1>3, <1>5, <1>7
  <2> HIDE DEF b
  <2> QED  BY <1>1, <1>7, <2>1 DEF Tracks, b
<1>8. CASE /\ b.supply \in Nat /\ b.supply = Running(a, x, known)
           /\ p \in P
           /\ b = [supply |-> b.supply, out |-> Append(a.out, p)]
  <2> DEFINE s == b.supply
             r == Append(a.out, p)
  <2>1. s \in Nat /\ s = Supply(chain, v, x) /\ p \in P /\ b = [supply |-> s, out |-> r]
    BY <1>6, <1>8
  <2>2. p.tx = x /\ p.supply = s
    OBVIOUS
  <2> HIDE DEF b, s, p
  <2>3. /\ r \in Seq(P) /\ Len(a.out) \in Nat
        /\ DOMAIN r = 1 .. Len(a.out) + 1 /\ DOMAIN a.out = 1 .. Len(a.out)
        /\ r[Len(a.out) + 1] = p
        /\ \A j \in 1 .. Len(a.out) : r[j] = a.out[j]
    <3> HIDE DEF P
    <3> QED  BY <1>2, <2>1, AppendProperties
  <2> HIDE DEF r
  <2>4. ASSUME NEW q \in ToSet(r) PROVE q.supply = Supply(chain, v, q.tx)
    <3>1. PICK j \in 1 .. Len(a.out) + 1 : q = r[j]
      BY <2>3 DEF ToSet
    <3>2. CASE j = Len(a.out) + 1
      BY <2>1, <2>2, <2>3, <3>1, <3>2
    <3>3. CASE j # Len(a.out) + 1
      <4>1. j \in 1 .. Len(a.out) /\ q = a.out[j]
        BY <2>3, <3>1, <3>3
      <4>2. q \in ToSet(a.out)
        BY <2>3, <4>1 DEF ToSet
      <4> QED  BY <4>2 DEF Tracks
    <3> QED  BY <3>2, <3>3
  <2>5. b.supply = Supply(chain, v, x) /\ b.out = r /\ b \in [supply : Nat, out : Seq(P)]
    BY <2>1, <2>3
  <2> QED  BY <2>4, <2>5 DEF Tracks, b, P
<1> QED
  BY <1>4, <1>7, <1>8

LEMMA WholeWalk ==
  ASSUME chain \in Seq(Tx), NEW v, NEW failed, NEW known \in BOOLEAN,
         AllCome(failed, known),
         NEW whole, \A n \in 0 .. Len(chain) : Supply(chain, v, n) >= 0
  PROVE  LET w == Walk(Chrono(Listed(v, 0)), failed, known, whole) IN
         \A p \in ToSet(w) : p.supply = Supply(chain, v, p.tx)
<1> DEFINE S == Listed(v, 0)
           sigs == Chrono(S)
           w == Walk(sigs, failed, known, whole)
           L == Len(sigs)
           n == Len(chain)
           K(a, m) == Tracks(a, v, n, whole, Place(sigs, m))
<1>1. n \in Nat /\ S \in SUBSET (1 .. n)
  BY DEF Listed
<1>2. \A i \in 1 .. n : i \in S <=> chain[i].of = v
  BY DEF Listed
<1> HIDE DEF S
<1>3. /\ L \in Nat /\ \A i \in 1 .. L : sigs[i] \in S
      /\ \A i, j \in 1 .. L : i < j => sigs[i] < sigs[j]
      /\ \A x \in S : \E i \in 1 .. L : sigs[i] = x
  BY <1>1, Ascends DEF Chrono
<1> HIDE DEF sigs
<1>4. \A i \in 1 .. L : sigs[i] \in 1 .. n
  BY <1>1, <1>3
<1>5. PICK f : /\ w = f[L].out /\ f[0] = Started
               /\ \A m \in 1 .. L : f[m] = Visit(f[m - 1], sigs[m], failed, known, whole)
  BY <1>3, Walking
<1> DEFINE N == {m \in Nat : m <= L => K(f[m], m)}
<1>6. 0 \in N
  <2>1. << >> \in Seq(PointOf(n, whole)) /\ ToSet(<< >>) = {}
    BY DEF ToSet
  <2>2. Supply(chain, v, 0) = 0
    <3>1. \A k : {i \in 1 .. 0 : chain[i] = [of |-> v, kind |-> k]} = {}
      OBVIOUS
    <3>2. \A k : Made(chain, v, k, 0) = 0
      BY <3>1, FS_EmptySet DEF Made
    <3> QED  BY <3>2 DEF Supply
  <2>3. Started \in [supply : Nat, out : Seq(PointOf(n, whole))]
        /\ Started.out = << >> /\ Started.supply = 0
    BY <2>1 DEF Started
  <2> QED  BY <1>5, <2>1, <2>2, <2>3 DEF Tracks, Place
<1>7. ASSUME NEW m \in N PROVE m + 1 \in N
  <2>1. m \in Nat
    OBVIOUS
  <2> SUFFICES ASSUME m + 1 <= L PROVE K(f[m + 1], m + 1)
    BY <2>1
  <2>2. m + 1 \in 1 .. L /\ (m + 1) - 1 = m /\ (m # 0 => m \in 1 .. L)
    BY <1>3, <2>1
  <2>3. K(f[m], m)
    BY <1>3, <2>1
  <2> HIDE DEF N
  <2>4. f[m + 1] = Visit(f[m], sigs[m + 1], failed, known, whole)
    BY <1>5, <2>2
  <2> DEFINE x == sigs[m + 1]
             i == Place(sigs, m)
  <2>5. x \in 1 .. n /\ chain[x].of = v
    BY <1>2, <1>3, <1>4, <2>2
  <2>6. i \in 0 .. x - 1
    <3>1. CASE m = 0
      BY <2>5, <3>1 DEF Place
    <3>2. CASE m # 0
      <4>1. sigs[m] \in 1 .. n /\ m < m + 1
        BY <1>4, <2>1, <2>2, <3>2
      <4>2. sigs[m] < x
        BY <1>3, <2>2, <3>2, <4>1
      <4> QED  BY <2>5, <3>2, <4>1, <4>2 DEF Place
    <3> QED  BY <3>1, <3>2
  <2>7. ASSUME NEW j \in i + 1 .. x - 1, chain[j].of = v PROVE FALSE
    <3>1. j \in 1 .. n /\ j < x /\ i < j
      BY <1>1, <2>5, <2>6
    <3>2. PICK l \in 1 .. L : sigs[l] = j
      BY <1>2, <1>3, <2>7, <3>1
    <3>3. ~ (m + 1 < l) /\ l # m + 1
      BY <1>3, <2>2, <2>5, <3>1, <3>2
    <3>4. l <= m /\ m # 0
      BY <1>3, <2>1, <3>3
    <3>5. sigs[l] <= sigs[m]
      <4>1. CASE l = m
        BY <1>4, <2>2, <3>4, <4>1
      <4>2. CASE l # m
        <5>1. l < m /\ m \in 1 .. L
          BY <1>3, <2>1, <2>2, <3>4, <4>2
        <5>2. sigs[l] < sigs[m] /\ sigs[l] \in Int /\ sigs[m] \in Int
          BY <1>3, <1>4, <5>1
        <5> QED  BY <5>2
      <4> QED  BY <4>1, <4>2
    <3>6. i = sigs[m] /\ sigs[m] \in Int
      BY <1>4, <2>2, <3>4 DEF Place
    <3> QED  BY <3>1, <3>2, <3>5, <3>6
  <2>8. Place(sigs, m + 1) = x
    BY <2>1 DEF Place
  <2>9. Supply(chain, v, x) >= 0
    BY <1>1, <2>5
  <2> HIDE DEF x, i
  <2>10. Tracks(f[m], v, n, whole, i)
    BY <2>3 DEF i
  <2>11. Tracks(Visit(f[m], x, failed, known, whole), v, n, whole, x)
    BY <2>5, <2>6, <2>7, <2>9, <2>10, TracksOn
  <2> QED  BY <2>4, <2>8, <2>11 DEF x
<1> HIDE DEF N
<1>8. N = Nat
  BY <1>6, <1>7, AllNumbers DEF N
<1>9. K(f[L], L)
  BY <1>3, <1>8 DEF N
<1> QED
  BY <1>5, <1>9 DEF Tracks, sigs, S

-----------------------------------------------------------------------------
(* Charts of a chain.                                                      *)

PointIn(n) == [tx : 1 .. n, supply : Nat, whole : BOOLEAN]

\* A chart of the chain so far, and one that says nothing false of it.
IsChart(s, c) ==
  /\ s \in Seq(PointIn(Len(c))) /\ InTime(s)
  /\ \A p \in ToSet(s) : p.whole => p.supply = Supply(c, c[p.tx].of, p.tx)

\* A chart of a vault, without a gap before its end.
Full(s, c, v) ==
  /\ \A p \in ToSet(s) : c[p.tx].of = v
  /\ \A i \in 1 .. LastTx(s) :
       c[i].of = v /\ MovesShares(c[i].kind) => i \in Txs(s)

LEMMA NoChart == \A c, v : IsChart(<< >>, c) /\ Full(<< >>, c, v)
<1> TAKE c, v
<1>1. /\ << >> \in Seq(PointIn(Len(c))) /\ InTime(<< >>)
      /\ ToSet(<< >>) = {} /\ LastTx(<< >>) = 0
  BY DEF InTime, ToSet, LastTx
<1>2. \A i \in 1 .. 0 : FALSE
  OBVIOUS
<1> QED
  BY <1>1, <1>2 DEF IsChart, Full

\* The last of a chart is its newest.
LEMMA LastIsNewest ==
  ASSUME NEW n \in Nat, NEW s \in Seq(PointIn(n)), InTime(s)
  PROVE  /\ LastTx(s) \in 0 .. n
         /\ LastTx(s) # 0 => LastTx(s) \in Txs(s)
         /\ \A x \in Txs(s) : x \in 1 .. LastTx(s)
<1>1. \A i \in DOMAIN s : s[i] \in PointIn(n) /\ s[i].tx \in 1 .. n
  <2>1. \A i \in DOMAIN s : s[i] \in PointIn(n)
    OBVIOUS
  <2> QED  BY <2>1 DEF PointIn
<1>2. Len(s) \in Nat /\ DOMAIN s = 1 .. Len(s) /\ (s = << >> <=> Len(s) = 0)
  OBVIOUS
<1>3. CASE s = << >>
  <2>1. LastTx(s) = 0 /\ Txs(s) = {}
    BY <1>2, <1>3 DEF LastTx, Txs
  <2> QED  BY <2>1
<1>4. CASE s # << >>
  <2>1. Len(s) \in DOMAIN s /\ LastTx(s) = s[Len(s)].tx
    BY <1>2, <1>4 DEF LastTx
  <2>2. LastTx(s) \in 1 .. n /\ LastTx(s) \in Txs(s)
    BY <1>1, <2>1 DEF Txs
  <2>3. ASSUME NEW x \in Txs(s) PROVE x \in 1 .. LastTx(s)
    <3>1. PICK i \in DOMAIN s : x = s[i].tx
      BY DEF Txs
    <3>2. i = Len(s) \/ i < Len(s)
      BY <1>2
    <3>3. x = LastTx(s) \/ x < LastTx(s)
      BY <2>1, <3>1, <3>2 DEF InTime
    <3> QED  BY <1>1, <2>2, <3>1, <3>3
  <2> QED  BY <2>2, <2>3
<1> QED
  BY <1>3, <1>4

\* A chart stays what it is as the chain grows.
LEMMA ChainGrows ==
  ASSUME NEW c \in Seq(Tx), NEW e \in Tx, NEW s, IsChart(s, c)
  PROVE  /\ IsChart(s, Append(c, e))
         /\ \A v : Full(s, c, v) => Full(s, Append(c, e), v)
<1> DEFINE d == Append(c, e)
           n == Len(c)
<1>1. n \in Nat /\ Len(d) = n + 1 /\ \A i \in 1 .. n : d[i] = c[i]
  OBVIOUS
<1> HIDE DEF d
<1>2. s \in Seq(PointIn(n)) /\ InTime(s)
  BY DEF IsChart
<1>3. \A p \in PointIn(n) : p.tx \in 1 .. n /\ p \in PointIn(n + 1)
  <2>1. \A i \in 1 .. n : i \in 1 .. n + 1
    BY <1>1
  <2> QED  BY <2>1 DEF PointIn
<1>4. s \in Seq(PointIn(n + 1))
  <2>1. PointIn(n) \subseteq PointIn(n + 1)
    BY <1>3
  <2> HIDE DEF n
  <2>2. \A i \in 1 .. Len(s) : s[i] \in PointIn(n + 1)
    BY <1>2, <2>1
  <2> QED  BY <1>2, <2>2
<1>5. \A p \in ToSet(s) : p \in PointIn(n) /\ p.tx \in 1 .. n
  <2>1. \A p \in ToSet(s) : p \in PointIn(n)
    BY <1>2 DEF ToSet
  <2> QED  BY <1>3, <2>1
<1>6. ASSUME NEW v, NEW i \in 1 .. n PROVE Supply(d, v, i) = Supply(c, v, i)
  <2>1. i \in Nat /\ \A j \in 1 .. i : c[j] = d[j]
    BY <1>1
  <2> QED  BY <2>1, SupplySame
<1>7. IsChart(s, d)
  <2> SUFFICES ASSUME NEW p \in ToSet(s), p.whole
               PROVE  p.supply = Supply(d, d[p.tx].of, p.tx)
    BY <1>1, <1>2, <1>4 DEF IsChart
  <2>1. p.tx \in 1 .. n /\ p.supply = Supply(c, c[p.tx].of, p.tx)
    BY <1>5 DEF IsChart
  <2>2. d[p.tx] = c[p.tx]
    BY <1>1, <2>1
  <2> QED  BY <1>6, <2>1, <2>2
<1>8. ASSUME NEW v, Full(s, c, v) PROVE Full(s, d, v)
  <2>1. LastTx(s) \in 0 .. n
    BY <1>1, <1>2, LastIsNewest
  <2>2. \A i \in 1 .. LastTx(s) : i \in 1 .. n
    BY <1>1, <2>1
  <2> QED  BY <1>1, <1>5, <1>8, <2>2 DEF Full
<1> QED
  BY <1>7, <1>8 DEF d

-----------------------------------------------------------------------------
(* A fetch that is answered.                                               *)

\* Points that are said to be whole come of a walk over everything.
ByRight(whole, v, since, sigs, failed, known) ==
  /\ whole \in BOOLEAN
  /\ whole => since = 0 /\ sigs = Listed(v, since) /\ AllCome(failed, known)

LEMMA Loads ==
  ASSUME chain \in Seq(Tx), NEW v \in Vault,
         \A n \in 0 .. Len(chain) : Supply(chain, v, n) >= 0,
         NEW base, IsChart(base, chain), NEW since \in Nat,
         NEW sigs \in SUBSET Listed(v, since), NEW failed, NEW known \in BOOLEAN,
         NEW whole,
         ByRight(whole, v, since, sigs, failed, known)
  PROVE  LET m == Merged(base, Walk(Chrono(sigs), failed, known, whole)) IN
         /\ IsChart(m, chain)
         /\ (/\ Full(base, chain, v)
             /\ since = LastTx(base) /\ sigs = Listed(v, since) /\ failed = {})
              => Full(m, chain, v)
<1> DEFINE n == Len(chain)
           fresh == Walk(Chrono(sigs), failed, known, whole)
           m == Merged(base, fresh)
           P == PointIn(n)
<1>1. n \in Nat /\ sigs \in SUBSET (1 .. n) /\ \A i \in sigs : chain[i].of = v
  BY DEF Listed
<1>2. /\ fresh \in Seq(PointOf(n, whole)) /\ InTime(fresh) /\ Txs(fresh) \subseteq sigs
      /\ known \/ Txs(fresh) = {}
      /\ known /\ failed = {} =>
           \A i \in sigs : MovesShares(chain[i].kind) => i \in Txs(fresh)
  <2> HIDE DEF n
  <2> QED  BY <1>1, Walks
<1> HIDE DEF fresh
<1>3. \A p \in PointOf(n, whole) : p \in P /\ p.whole = whole
  BY DEF PointOf, PointIn, ByRight
<1>4. \A p \in ToSet(fresh) : p \in PointOf(n, whole) /\ p.tx \in Txs(fresh)
  BY <1>2 DEF ToSet, Txs
<1>5. base \in Seq(P) /\ InTime(base) /\ fresh \in Seq(P)
  <2>1. base \in Seq(P) /\ InTime(base)
    BY DEF IsChart
  <2>2. PointOf(n, whole) \subseteq P
    BY <1>3
  <2> HIDE DEF P, n
  <2>3. \A i \in 1 .. Len(fresh) : fresh[i] \in P
    BY <1>2, <2>2
  <2> QED  BY <1>2, <2>1, <2>3
<1>6. \A p \in P : p.tx \in 1 .. n
  BY DEF PointIn
<1>7. /\ m \in Seq(P) /\ InTime(m)
      /\ ToSet(m) = Points(base, fresh)
      /\ Txs(m) = Txs(base) \cup Txs(fresh)
  <2> HIDE DEF P, n
  <2> QED  BY <1>1, <1>2, <1>5, <1>6, Merges
<1> HIDE DEF m
<1>8. \A p \in ToSet(m) : p \in ToSet(fresh) \/ p \in ToSet(base)
  BY <1>7 DEF Points
<1>9. IsChart(m, chain)
  <2> SUFFICES ASSUME NEW p \in ToSet(m), p.whole
               PROVE  p.supply = Supply(chain, chain[p.tx].of, p.tx)
    BY <1>7 DEF IsChart
  <2>1. CASE p \in ToSet(base)
    BY <2>1 DEF IsChart
  <2>2. CASE p \in ToSet(fresh)
    <3>1. p.whole = whole /\ p.tx \in sigs
      BY <1>2, <1>3, <1>4, <2>2
    <3>2. since = 0 /\ sigs = Listed(v, since) /\ AllCome(failed, known)
      BY <3>1 DEF ByRight
    <3>3. sigs = Listed(v, 0)
      BY <3>2
    <3>4. \A q \in ToSet(Walk(Chrono(Listed(v, 0)), failed, known, whole)) :
            q.supply = Supply(chain, v, q.tx)
      BY <3>2, WholeWalk
    <3>5. p.supply = Supply(chain, v, p.tx)
      BY <2>2, <3>3, <3>4 DEF fresh
    <3> QED  BY <1>1, <3>1, <3>5
  <2> QED  BY <1>8, <2>1, <2>2
<1>10. ASSUME Full(base, chain, v), since = LastTx(base), sigs = Listed(v, since),
              failed = {}
       PROVE  Full(m, chain, v)
  <2>1. \A p \in ToSet(m) : chain[p.tx].of = v
    BY <1>1, <1>2, <1>4, <1>8, <1>10 DEF Full
  <2>2. /\ LastTx(m) \in 0 .. n
        /\ LastTx(m) # 0 => LastTx(m) \in Txs(m)
    BY <1>1, <1>7, LastIsNewest
  <2>3. /\ LastTx(base) \in 0 .. n
        /\ \A x \in Txs(base) : x \in 1 .. LastTx(base)
    BY <1>1, <1>5, LastIsNewest
  <2>4. ASSUME NEW i \in 1 .. LastTx(m), chain[i].of = v, MovesShares(chain[i].kind)
        PROVE  i \in Txs(m)
    <3>1. i \in 1 .. n
      BY <1>1, <2>2
    <3>2. CASE i \in 1 .. LastTx(base)
      <4>1. i \in Txs(base)
        BY <1>10, <2>4, <3>2 DEF Full
      <4> QED  BY <1>7, <4>1
    <3>3. CASE i \notin 1 .. LastTx(base)
      <4>1. i > LastTx(base)
        BY <2>3, <3>1, <3>3
      <4>2. i \in sigs
        BY <1>10, <2>4, <3>1, <4>1 DEF Listed
      <4>3. known
        <5> SUFFICES ASSUME ~ known PROVE FALSE
          OBVIOUS
        <5>1. Txs(fresh) = {}
          BY <1>2
        <5>2. LastTx(m) \in Txs(base)
          BY <1>7, <2>2, <5>1
        <5>3. LastTx(m) \in 1 .. LastTx(base)
          BY <2>3, <5>2
        <5> QED  BY <2>2, <2>3, <4>1, <5>3
      <4>4. i \in Txs(fresh)
        BY <1>2, <1>10, <2>4, <4>2, <4>3
      <4> QED  BY <1>7, <4>4
    <3> QED  BY <3>2, <3>3
  <2> QED  BY <2>1, <2>4 DEF Full
<1> QED
  BY <1>9, <1>10 DEF m, fresh

-----------------------------------------------------------------------------
(* The inductive invariant: the cache and every tab's chart are charts of  *)
(* the chain, and as long as nothing was lost in a browser that has shown  *)
(* one vault, full ones.                                                   *)

NavTyped ==
  /\ chain \in Seq(Tx) /\ Len(chain) <= MaxTx
  /\ series = [t \in Tab |-> series[t]]
  /\ shown \in [Tab -> Vault \cup {None}]
  /\ info \in [Tab -> BOOLEAN] /\ loading \in [Tab -> BOOLEAN]
  /\ lossy \in BOOLEAN /\ visited \subseteq Vault

\* No vault burns what it has not minted.
Solvent == \A v \in Vault : \A n \in 0 .. Len(chain) : Supply(chain, v, n) >= 0

Pages ==
  \A t \in Tab : /\ shown[t] = None \/ shown[t] \in visited
                 /\ loading[t] => shown[t] # None

Charts == IsChart(cache, chain) /\ \A t \in Tab : IsChart(series[t], chain)

Filled ==
  ~ lossy => \A v \in Vault : visited \subseteq {v} =>
    Full(cache, chain, v) /\ \A t \in Tab : Full(series[t], chain, v)

NavInv == NavTyped /\ Solvent /\ Pages /\ Charts /\ Filled

LEMMA NavInit == Init => NavInv
<1> SUFFICES ASSUME Init PROVE NavInv
  OBVIOUS
<1>1. NavTyped
  <2>1. chain \in Seq(Tx) /\ Len(chain) <= MaxTx
    <3>1. chain = << >> /\ Len(<< >>) = 0 /\ MaxTx \in Nat
      BY NavAssumption DEF Init
    <3>2. << >> \in Seq(Tx)
      BY EmptySeq
    <3> QED  BY <3>1, <3>2
  <2>2. series = [t \in Tab |-> series[t]]
    BY DEF Init
  <2>3. /\ shown \in [Tab -> Vault \cup {None}]
        /\ info \in [Tab -> BOOLEAN] /\ loading \in [Tab -> BOOLEAN]
        /\ lossy \in BOOLEAN /\ visited \subseteq Vault
    BY DEF Init
  <2> QED  BY <2>1, <2>2, <2>3 DEF NavTyped
<1>2. Solvent
  <2> SUFFICES ASSUME NEW v \in Vault, NEW n \in 0 .. Len(chain)
               PROVE  Supply(chain, v, n) >= 0
    BY DEF Solvent
  <2>1. n = 0
    BY DEF Init
  <2>2. \A k : {i \in 1 .. n : chain[i] = [of |-> v, kind |-> k]} = {}
    BY <2>1
  <2>3. \A k : Made(chain, v, k, n) = 0
    BY <2>2, FS_EmptySet DEF Made
  <2> QED  BY <2>3 DEF Supply
<1>3. Pages
  BY DEF Init, Pages
<1>4. cache = << >> /\ \A t \in Tab : series[t] = << >>
  BY DEF Init
<1>5. Charts /\ Filled
  BY <1>4, NoChart DEF Charts, Filled
<1> QED
  BY <1>1, <1>2, <1>3, <1>5 DEF NavInv

LEMMA EmitKeeps ==
  ASSUME NavInv, NEW v \in Vault, NEW k \in Kind, Emit(v, k)
  PROVE  NavInv'
<1> DEFINE e == [of |-> v, kind |-> k]
           n == Len(chain)
<1>1. /\ chain \in Seq(Tx) /\ e \in Tx /\ n \in Nat /\ n < MaxTx /\ MaxTx \in Nat
      /\ chain' = Append(chain, e)
      /\ k \in {"burn", "escrow"} => SupplyAt(v, n) > 0
      /\ UNCHANGED <<cache, shown, info, series, loading, lossy, visited>>
  BY NavAssumption DEF Emit, NavInv, NavTyped, Tx, browser
<1>2. /\ chain' \in Seq(Tx) /\ Len(chain') = n + 1
      /\ chain'[n + 1] = e /\ \A i \in 1 .. n : chain'[i] = chain[i]
  BY <1>1
<1>3. e.of = v /\ e.kind = k
  OBVIOUS
<1> HIDE DEF e
<1>4. NavTyped'
  BY <1>1, <1>2 DEF NavInv, NavTyped
<1>5. ASSUME NEW w \in Vault, NEW i \in 0 .. n + 1 PROVE Supply(chain', w, i) >= 0
  <2>1. \A j \in 0 .. n : Supply(chain', w, j) = Supply(chain, w, j)
    <3> TAKE j \in 0 .. n
    <3>1. j \in Nat /\ \A l \in 1 .. j : chain'[l] = chain[l]
      BY <1>1, <1>2
    <3> QED  BY <3>1, SupplySame
  <2>2. \A j \in 0 .. n : Supply(chain, w, j) \in Int /\ Supply(chain, w, j) >= 0
    <3>1. \A j \in 0 .. n : j \in Nat
      OBVIOUS
    <3> QED  BY <3>1, SupplyType DEF NavInv, Solvent
  <2>3. CASE i \in 0 .. n
    BY <2>1, <2>2, <2>3
  <2>4. CASE i = n + 1 /\ w = v
    <3>1. n + 1 \in 1 .. Len(chain') /\ n \in 0 .. (n + 1) - 1
      BY <1>1, <1>2
    <3>2. \A j \in n + 1 .. (n + 1) - 1 : chain'[j].of # w
      BY <1>1
    <3>3. Supply(chain', w, n + 1) = Supply(chain', w, n) + Minted(k)
      BY <1>2, <1>3, <2>4, <3>1, <3>2, SupplyMoves
    <3>4. n \in 0 .. n
      BY <1>1
    <3>5. Minted(k) \in {-1, 0, 1} /\ (Minted(k) = -1 => k = "burn")
      BY DEF Minted
    <3>6. k = "burn" => Supply(chain, w, n) > 0
      BY <1>1, <2>4, SupplyIs
    <3> QED  BY <2>1, <2>2, <2>4, <3>3, <3>4, <3>5, <3>6
  <2>5. CASE i = n + 1 /\ w # v
    <3>1. {j \in 1 .. n + 1 : chain'[j] = [of |-> w, kind |-> "mint"]}
            = {j \in 1 .. n : chain[j] = [of |-> w, kind |-> "mint"]}
          /\ {j \in 1 .. n + 1 : chain'[j] = [of |-> w, kind |-> "burn"]}
            = {j \in 1 .. n : chain[j] = [of |-> w, kind |-> "burn"]}
      <4>1. \A j \in 1 .. n + 1 : j = n + 1 \/ j \in 1 .. n
        BY <1>1
      <4>2. \A j \in 1 .. n : j \in 1 .. n + 1
        BY <1>1
      <4>3. \A l : e # [of |-> w, kind |-> l]
        BY <1>3, <2>5
      <4> QED  BY <1>2, <4>1, <4>2, <4>3
    <3>2. Supply(chain', w, n + 1) = Supply(chain, w, n)
      BY <3>1 DEF Supply, Made
    <3>3. n \in 0 .. n
      BY <1>1
    <3> QED  BY <2>2, <2>5, <3>2, <3>3
  <2>6. i \in 0 .. n \/ i = n + 1
    BY <1>1
  <2> QED  BY <2>3, <2>4, <2>5, <2>6
<1>6. Solvent'
  BY <1>2, <1>5 DEF Solvent
<1>7. Pages'
  BY <1>1 DEF NavInv, Pages
<1>8. Charts'
  BY <1>1, ChainGrows DEF NavInv, Charts
<1>9. ASSUME NEW s, IsChart(s, chain), NEW w, Full(s, chain, w) PROVE Full(s, chain', w)
  BY <1>1, <1>9, ChainGrows
<1>10. Filled'
  BY <1>1, <1>9 DEF NavInv, Charts, Filled
<1> QED
  BY <1>4, <1>6, <1>7, <1>8, <1>10 DEF NavInv

LEMMA LoadKeeps ==
  ASSUME NavInv, NEW t \in Tab, Load(t)
  PROVE  NavInv'
<1> DEFINE v == shown[t]
           known == MintKnown(t)
<1>1. /\ chain \in Seq(Tx) /\ Len(chain) \in Nat /\ v \in Vault /\ v \in visited
      /\ IsChart(series[t], chain)
      /\ \A n \in 0 .. Len(chain) : Supply(chain, v, n) >= 0
  <2>1. loading[t] /\ v # None
    BY DEF Load, NavInv, Pages
  <2>2. v \in visited /\ v \in Vault
    BY <2>1 DEF NavInv, NavTyped, Pages
  <2> QED  BY <2>2 DEF NavInv, NavTyped, Solvent, Charts
<1>2. /\ UNCHANGED <<chain, shown, info, visited>>
      /\ loading' = [loading EXCEPT ![t] = FALSE]
      /\ cache' = series'[t]
  BY DEF Load, saveHistoryToCache
<1>3. known \in BOOLEAN
  BY DEF MintKnown, NavInv, NavTyped
<1> HIDE DEF known
<1>4. PICK since \in Since(t) :
        LET all == Listed(v, since)
            sigs == Newest(all)
        IN \E failed \in SUBSET sigs :
             LET whole == since = 0 /\ sigs = all /\ failed = {} /\ known
                 fresh == Walk(Chrono(sigs), failed, known, whole)
             IN /\ series' = [series EXCEPT ![t] = Merged(@, fresh)]
                /\ lossy' = (lossy \/ failed # {} \/ sigs # all)
  BY DEF Load, known
<1> DEFINE all == Listed(v, since)
           sigs == Newest(all)
<1>5. PICK failed \in SUBSET sigs :
        LET whole == since = 0 /\ sigs = all /\ failed = {} /\ known
            fresh == Walk(Chrono(sigs), failed, known, whole)
        IN /\ series' = [series EXCEPT ![t] = Merged(@, fresh)]
           /\ lossy' = (lossy \/ failed # {} \/ sigs # all)
  BY <1>4
<1> DEFINE whole == since = 0 /\ sigs = all /\ failed = {} /\ known
           m == Merged(series[t], Walk(Chrono(sigs), failed, known, whole))
<1>6. sigs \in SUBSET all
  BY DEF Newest
<1>7. /\ LastTx(series[t]) \in Nat
      /\ since = LastTx(series[t])
           \/ (since = 0 /\ LastTx(series[t]) # 0 /\ chain[LastTx(series[t])].of # v)
      /\ LastTx(series[t]) # 0 => LastTx(series[t]) \in Txs(series[t])
  <2>1. series[t] \in Seq(PointIn(Len(chain))) /\ InTime(series[t])
    BY <1>1 DEF IsChart
  <2>2. /\ LastTx(series[t]) \in 0 .. Len(chain)
        /\ LastTx(series[t]) # 0 => LastTx(series[t]) \in Txs(series[t])
    BY <1>1, <2>1, LastIsNewest
  <2> QED  BY <2>2 DEF Since
<1>8. series' = [series EXCEPT ![t] = m] /\ lossy' = (lossy \/ failed # {} \/ sigs # all)
  BY <1>5
<1> HIDE DEF m, sigs, all
<1>9. ByRight(whole, v, since, sigs, failed, known)
  <2>1. all = Listed(v, since)
    BY DEF all
  <2> QED  BY <1>3, <2>1 DEF ByRight, AllCome
<1> HIDE DEF whole
<1>10. since \in Nat
  BY <1>7
<1>11. /\ IsChart(m, chain)
       /\ (/\ Full(series[t], chain, v)
           /\ since = LastTx(series[t]) /\ sigs = Listed(v, since) /\ failed = {})
            => Full(m, chain, v)
  <2>1. sigs \in SUBSET Listed(v, since)
    BY <1>6 DEF all
  <2> HIDE DEF v
  <2> QED  BY <1>1, <1>3, <1>9, <1>10, <2>1, Loads DEF m
<1>12. series' = [u \in Tab |-> series'[u]]
       /\ \A u \in Tab : series'[u] = IF u = t THEN m ELSE series[u]
  BY <1>8 DEF NavInv, NavTyped
<1>13. cache' = m
  BY <1>2, <1>12
<1>14. NavTyped'
  <2>1. loading' \in [Tab -> BOOLEAN] /\ lossy' \in BOOLEAN
    BY <1>2, <1>8 DEF NavInv, NavTyped
  <2> QED  BY <1>2, <1>12, <2>1 DEF NavInv, NavTyped
<1>15. Solvent' /\ Pages'
  BY <1>2 DEF NavInv, NavTyped, Solvent, Pages
<1>16. Charts'
  BY <1>2, <1>11, <1>12, <1>13 DEF NavInv, Charts
<1>17. Filled'
  <2> SUFFICES ASSUME ~ lossy', NEW w \in Vault, visited \subseteq {w}
               PROVE  Full(m, chain, w) /\ \A u \in Tab : Full(series'[u], chain, w)
    BY <1>2, <1>13 DEF Filled
  <2>1. w = v
    BY <1>1
  <2>2. ~ lossy /\ failed = {} /\ sigs = all
    BY <1>8 DEF NavInv, NavTyped
  <2>3. \A u \in Tab : Full(series[u], chain, v)
    BY <2>1, <2>2 DEF NavInv, Filled
  <2>4. since = LastTx(series[t])
    <3> SUFFICES ASSUME LastTx(series[t]) \in Txs(series[t]),
                        chain[LastTx(series[t])].of # v
                 PROVE  FALSE
      BY <1>7
    <3>1. PICK p \in ToSet(series[t]) : p.tx = LastTx(series[t])
      BY TxsOf
    <3> QED  BY <2>3, <3>1 DEF Full
  <2>5. Full(m, chain, v)
    BY <1>11, <2>2, <2>3, <2>4 DEF all
  <2> QED  BY <1>12, <2>1, <2>3, <2>5
<1> QED
  BY <1>14, <1>15, <1>16, <1>17 DEF NavInv

LEMMA PageKeeps ==
  ASSUME NavInv, NEW t \in Tab,
         LoadFails(t) \/ VaultInfo(t) \/ \E v \in Vault : Open(t, v)
  PROVE  NavInv'
<1>1. CASE LoadFails(t)
  <2>1. /\ UNCHANGED <<chain, cache, shown, info, series, lossy, visited>>
        /\ loading' = [loading EXCEPT ![t] = FALSE]
    BY <1>1 DEF LoadFails
  <2>2. NavTyped' /\ Solvent' /\ Pages'
    BY <2>1 DEF NavInv, NavTyped, Solvent, Pages
  <2>3. Charts' /\ Filled'
    BY <2>1 DEF NavInv, Charts, Filled
  <2> QED  BY <2>2, <2>3 DEF NavInv
<1>2. CASE VaultInfo(t)
  <2>1. /\ UNCHANGED <<chain, cache, shown, series, lossy, visited>>
        /\ shown[t] # None
        /\ info' = [info EXCEPT ![t] = TRUE]
        /\ loading' = [loading EXCEPT ![t] = loading[t] \/ NewMint(t)]
    BY <1>2 DEF VaultInfo
  <2>2. NavTyped' /\ Solvent' /\ Pages'
    <3>1. NewMint(t) \in BOOLEAN
      BY DEF NewMint
    <3>2. info' \in [Tab -> BOOLEAN] /\ loading' \in [Tab -> BOOLEAN]
      BY <2>1, <3>1 DEF NavInv, NavTyped
    <3>3. \A u \in Tab : loading'[u] => loading[u] \/ u = t
      BY <2>1 DEF NavInv, NavTyped
    <3> QED  BY <2>1, <3>2, <3>3 DEF NavInv, NavTyped, Solvent, Pages
  <2>3. Charts' /\ Filled'
    BY <2>1 DEF NavInv, Charts, Filled
  <2> QED  BY <2>2, <2>3 DEF NavInv
<1>3. ASSUME NEW v \in Vault, Open(t, v) PROVE NavInv'
  <2>1. /\ shown' = [shown EXCEPT ![t] = v]
        /\ info' = [info EXCEPT ![t] = FALSE]
        /\ series' = [series EXCEPT ![t] = cache]
        /\ loading' = [loading EXCEPT ![t] = TRUE]
        /\ visited' = visited \cup {v}
        /\ UNCHANGED <<chain, cache, lossy>>
    BY <1>3 DEF Open, loadCachedHistory
  <2>2. /\ series' = [u \in Tab |-> series'[u]]
        /\ \A u \in Tab : series'[u] = IF u = t THEN cache ELSE series[u]
    BY <2>1 DEF NavInv, NavTyped
  <2>3. NavTyped'
    BY <2>1, <2>2 DEF NavInv, NavTyped
  <2>4. Pages'
    <3>1. \A u \in Tab : /\ shown'[u] = IF u = t THEN v ELSE shown[u]
                         /\ loading'[u] => u = t \/ loading[u]
      BY <2>1 DEF NavInv, NavTyped
    <3>2. v # None
      BY NavAssumption
    <3> QED  BY <2>1, <3>1, <3>2 DEF NavInv, Pages
  <2>5. Solvent'
    BY <2>1 DEF NavInv, Solvent
  <2>6. Charts'
    BY <2>1, <2>2 DEF NavInv, Charts
  <2>7. Filled'
    <3>1. \A w : visited' \subseteq {w} => visited \subseteq {w}
      BY <2>1
    <3> QED  BY <2>1, <2>2, <3>1 DEF NavInv, Filled
  <2> QED  BY <2>3, <2>4, <2>5, <2>6, <2>7 DEF NavInv
<1> QED
  BY <1>1, <1>2, <1>3

LEMMA NavInvariant == Spec => []NavInv
<1>1. NavInv /\ [Next]_vars => NavInv'
  <2> SUFFICES ASSUME NavInv, [Next]_vars PROVE NavInv'
    OBVIOUS
  <2>1. ASSUME NEW v \in Vault, NEW k \in Kind, Emit(v, k) PROVE NavInv'
    BY <2>1, EmitKeeps
  <2>2. ASSUME NEW t \in Tab, Load(t) PROVE NavInv'
    BY <2>2, LoadKeeps
  <2>3. ASSUME NEW t \in Tab,
               LoadFails(t) \/ VaultInfo(t) \/ \E v \in Vault : Open(t, v)
        PROVE  NavInv'
    BY <2>3, PageKeeps
  <2>4. CASE UNCHANGED vars
    <3>1. UNCHANGED <<chain, cache, shown, info, series, loading, lossy, visited>>
      BY <2>4 DEF vars, browser
    <3> QED  BY <3>1 DEF NavInv, NavTyped, Solvent, Pages, Charts, Filled
  <2> QED  BY <2>1, <2>2, <2>3, <2>4 DEF Next
<1> QED
  BY <1>1, NavInit, PTL DEF Spec

-----------------------------------------------------------------------------
(* Theorems.                                                               *)

\* What is cached and shown are points of transactions there are, at most one of
\* each and in their order, through merges, other tabs and changes of vault.
THEOREM NavTypes == Spec => []TypeOK
<1>1. NavInv => TypeOK
  <2> SUFFICES ASSUME NavInv PROVE TypeOK
    OBVIOUS
  <2>1. chain \in Seq([of : Vault, kind : Kind])
    BY DEF NavInv, NavTyped, Tx
  <2>2. ASSUME NEW s, IsChart(s, chain)
        PROVE  s \in Seq(Point) /\ \A i, j \in DOMAIN s : i < j => s[i].tx < s[j].tx
    <3>1. /\ s \in Seq(PointIn(Len(chain)))
          /\ \A i, j \in DOMAIN s : i < j => s[i].tx < s[j].tx
      BY <2>2 DEF IsChart, InTime
    <3>2. \A i \in 1 .. Len(chain) : i \in 1 .. MaxTx
      BY NavAssumption DEF NavInv, NavTyped
    <3>3. PointIn(Len(chain)) \subseteq Point
      BY <3>2 DEF PointIn, Point
    <3>4. s \in Seq(Point)
      <4>1. \A i \in 1 .. Len(s) : s[i] \in Point
        BY <3>1, <3>3
      <4> QED  BY <3>1, <4>1
    <3> QED  BY <3>1, <3>4
  <2>3. IsChart(cache, chain) /\ \A t \in Tab : IsChart(series[t], chain)
    BY DEF NavInv, Charts
  <2>4. series \in [Tab -> Seq(Point)]
    BY <2>2, <2>3 DEF NavInv, NavTyped
  <2>5. \A s \in {cache} \cup {series[t] : t \in Tab} :
          \A i, j \in DOMAIN s : i < j => s[i].tx < s[j].tx
    BY <2>2, <2>3
  <2> QED  BY <2>1, <2>2, <2>3, <2>4, <2>5 DEF NavInv, NavTyped, TypeOK
<1> QED
  BY <1>1, NavInvariant, PTL

\* A point fetched with all that came before it says what the supply was, in any
\* tab, whatever it was merged with and however often the vault was changed.
THEOREM WholePointsAreTrue == Spec => []WholeIsTrue
<1>1. NavInv => WholeIsTrue
  <2> SUFFICES ASSUME NavInv, NEW t \in Tab, NEW p \in ToSet(series[t]), p.whole
               PROVE  p.supply = SupplyAt(chain[p.tx].of, p.tx)
    BY DEF WholeIsTrue
  <2>1. p.supply = Supply(chain, chain[p.tx].of, p.tx)
    BY DEF NavInv, Charts, IsChart
  <2> QED  BY <2>1, SupplyIs
<1> QED
  BY <1>1, NavInvariant, PTL

\* In a browser that has shown one vault, the chart has every transaction that
\* moved shares before its newest point, unless a request failed or a listing was
\* cut: no reload, other tab or dropped fetch loses one.
THEOREM NoTransactionMissing == Spec => []ChartComplete
<1>1. NavInv => ChartComplete
  <2> SUFFICES ASSUME NavInv, NEW t \in Tab, ~ lossy, visited = {shown[t]},
                      NEW i \in 1 .. LastTx(series[t]),
                      chain[i].of = shown[t], MovesShares(chain[i].kind)
               PROVE  i \in Txs(series[t])
    BY DEF ChartComplete
  <2>1. shown[t] \in Vault /\ visited \subseteq {shown[t]}
    BY DEF NavInv, NavTyped
  <2>2. Full(series[t], chain, shown[t])
    BY <2>1 DEF NavInv, Filled
  <2> QED  BY <2>2 DEF Full
<1> QED
  BY <1>1, NavInvariant, PTL

=============================================================================
