--------------------------- MODULE RotatorProofs ---------------------------
(***************************************************************************)
(* Theorems about Rotator, for any universe, weights, caps and vaults, any *)
(* cooldown, any length of the clock and any number of faults.             *)
(*                                                                         *)
(* The plan is sums over the tokens and over prefixes of its steps; what   *)
(* they add up to is in SumsProofs.  First the universe and its lists,     *)
(* then rounding and weights, what the plan has to move, its steps, their  *)
(* amounts, and what carrying them out does; at the end the inductive      *)
(* invariant and the theorems.                                             *)
(***************************************************************************)
EXTENDS Rotator, SumsProofs, SequenceTheorems

-----------------------------------------------------------------------------
(* The universe, and the parts of it in its order.                         *)

LEMMA Universe ==
  /\ Len(Order) \in Nat /\ DOMAIN Order = 1..Len(Order)
  /\ \A i \in 1..Len(Order) : Order[i] \in Token
  /\ \A t \in Token : \E i \in 1..Len(Order) : Order[i] = t
  /\ IsFiniteSet(Token)
<1>1. Order \in Seq(Token)
  BY RotatorAssumption
<1>2. Len(Order) \in Nat /\ DOMAIN Order = 1..Len(Order)
  BY <1>1
<1>3. Token = {Order[i] : i \in 1..Len(Order)}
  BY <1>2 DEF Token
<1>4. IsFiniteSet(1..Len(Order))
  BY <1>2, FS_Interval
<1> DEFINE f == [i \in 1..Len(Order) |-> Order[i]]
<1>5. f \in Surjection(1..Len(Order), Token)
  BY <1>3 DEF Surjection
<1>6. IsFiniteSet(Token)
  <2> HIDE DEF f
  <2> QED  BY <1>4, <1>5, FS_Surjection
<1> QED
  BY <1>2, <1>3, <1>6

\* The listing so far, as InOrder's recursion builds it.
IsListing(S, f) ==
  f = [n \in 0..Len(Order) |->
         IF n = 0 THEN << >>
         ELSE IF Order[n] \in S THEN Append(f[n - 1], Order[n]) ELSE f[n - 1]]

\* One step of it.
Listed(S, f, n) ==
  f[n] = IF n = 0 THEN << >>
         ELSE IF Order[n] \in S THEN Append(f[n - 1], Order[n]) ELSE f[n - 1]

LEMMA ListingExists == \A S : \E f : IsListing(S, f)
<1> SUFFICES ASSUME NEW S PROVE \E f : IsListing(S, f)
  OBVIOUS
<1> DEFINE L == Len(Order)
           N == {m \in Nat : \E f : \A n \in 0..L : n <= m => Listed(S, f, n)}
<1>0. L \in Nat
  BY Universe
<1>1. 0 \in N
  <2> DEFINE f == [n \in 0..L |-> << >>]
  <2>1. \A n \in 0..L : n <= 0 => Listed(S, f, n)
    BY <1>0 DEF Listed
  <2> HIDE DEF f
  <2> QED  BY <2>1
<1>2. ASSUME NEW m \in N PROVE m + 1 \in N
  <2>1. m \in Nat
    OBVIOUS
  <2>2. PICK f : \A n \in 0..L : n <= m => Listed(S, f, n)
    OBVIOUS
  <2> DEFINE g == [n \in 0..L |->
                     IF n = 0 THEN << >>
                     ELSE IF Order[n] \in S THEN Append(f[n - 1], Order[n])
                     ELSE f[n - 1]]
  <2>3. \A n \in 0..L : n <= m => g[n] = f[n]
    BY <2>2 DEF Listed
  <2>4. ASSUME NEW n \in 0..L, n <= m + 1, n # 0 PROVE g[n - 1] = f[n - 1]
    <3>1. n - 1 \in 0..L /\ n - 1 <= m
      BY <1>0, <2>1, <2>4
    <3> HIDE DEF g
    <3> QED  BY <2>3, <3>1
  <2>5. \A n \in 0..L :
          g[n] = IF n = 0 THEN << >>
                 ELSE IF Order[n] \in S THEN Append(f[n - 1], Order[n]) ELSE f[n - 1]
    OBVIOUS
  <2> HIDE DEF g
  <2>6. \A n \in 0..L : n <= m + 1 => Listed(S, g, n)
    BY <2>4, <2>5 DEF Listed
  <2> QED  BY <2>1, <2>6
<1> HIDE DEF N
<1>3. N = Nat
  BY <1>1, <1>2, AllNumbers DEF N
<1>4. PICK f : \A n \in 0..L : n <= L => Listed(S, f, n)
  BY <1>0, <1>3 DEF N
<1> DEFINE g == [n \in 0..L |-> f[n]]
<1>5. \A n \in 0..L : g[n] = f[n] /\ (n # 0 => g[n - 1] = f[n - 1])
  BY <1>0
<1>6. g = [n \in 0..L |->
             IF n = 0 THEN << >>
             ELSE IF Order[n] \in S THEN Append(g[n - 1], Order[n]) ELSE g[n - 1]]
  <2>1. \A n \in 0..L :
          g[n] = IF n = 0 THEN << >>
                 ELSE IF Order[n] \in S THEN Append(g[n - 1], Order[n]) ELSE g[n - 1]
    <3> HIDE DEF g
    <3> QED  BY <1>0, <1>4, <1>5 DEF Listed
  <2>2. g = [n \in 0..L |-> g[n]]
    OBVIOUS
  <2> HIDE DEF g
  <2> QED  BY <2>1, <2>2
<1> HIDE DEF g
<1> QED
  BY <1>6 DEF IsListing

LEMMA Listing ==
  ASSUME NEW S
  PROVE  \E f : /\ f[0] = << >> /\ InOrder(S) = f[Len(Order)]
                /\ \A n \in 1..Len(Order) :
                     f[n] = IF Order[n] \in S THEN Append(f[n - 1], Order[n]) ELSE f[n - 1]
<1> DEFINE f == CHOOSE f : IsListing(S, f)
<1>1. IsListing(S, f)
  BY ListingExists
<1>2. InOrder(S) = f[Len(Order)]
  <2>1. InOrder(S) =
          LET g == CHOOSE g : g = [n \in 0..Len(Order) |->
                     IF n = 0 THEN << >>
                     ELSE IF Order[n] \in S THEN Append(g[n - 1], Order[n]) ELSE g[n - 1]]
          IN  g[Len(Order)]
    BY DEF InOrder
  <2> QED  BY <2>1 DEF IsListing
<1> HIDE DEF f
<1>3. Len(Order) \in Nat
  BY Universe
<1>4. \A n \in 0..Len(Order) :
        f[n] = IF n = 0 THEN << >>
               ELSE IF Order[n] \in S THEN Append(f[n - 1], Order[n]) ELSE f[n - 1]
  BY <1>1 DEF IsListing
<1>5. f[0] = << >>
  BY <1>3, <1>4
<1>6. \A n \in 1..Len(Order) : n \in 0..Len(Order) /\ n # 0
  BY <1>3
<1> QED
  BY <1>2, <1>4, <1>5, <1>6

\* InOrder lists exactly the tokens of its set, each once.
LEMMA Ordered ==
  ASSUME NEW S \in SUBSET Token
  PROVE  LET q == InOrder(S) IN
         /\ q \in Seq(S)
         /\ \A t \in S : \E i \in 1..Len(q) : q[i] = t
         /\ \A i, k \in 1..Len(q) : q[i] = q[k] => i = k
<1> DEFINE L == Len(Order)
<1>1. PICK f : /\ f[0] = << >> /\ InOrder(S) = f[L]
               /\ \A n \in 1..L :
                    f[n] = IF Order[n] \in S THEN Append(f[n - 1], Order[n])
                           ELSE f[n - 1]
  BY Listing
<1>2. L \in Nat /\ \A i \in 1..L : Order[i] \in Token
  BY Universe
<1>3. \A i, k \in 1..L : Order[i] = Order[k] => i = k
  BY RotatorAssumption, Universe
<1> DEFINE K(q, n) ==
             /\ q \in Seq(S)
             /\ \A i \in 1..Len(q) : \E j \in 1..n : q[i] = Order[j]
             /\ \A j \in 1..n : Order[j] \in S => \E i \in 1..Len(q) : q[i] = Order[j]
             /\ \A i, k \in 1..Len(q) : q[i] = q[k] => i = k
           N == {n \in Nat : n <= L => K(f[n], n)}
<1>4. 0 \in N
  <2>1. Len(f[0]) = 0 /\ f[0] \in Seq(S)
    BY <1>1
  <2> QED  BY <2>1
<1>5. ASSUME NEW n \in N PROVE n + 1 \in N
  <2> SUFFICES ASSUME n + 1 <= L PROVE K(f[n + 1], n + 1)
    OBVIOUS
  <2>1. n \in Nat /\ n + 1 \in 1..L /\ (n + 1) - 1 = n /\ K(f[n], n)
    BY <1>2
  <2> DEFINE q == f[n]
             x == Order[n + 1]
  <2>2. CASE x \notin S
    <3>1. f[n + 1] = q
      BY <1>1, <2>1, <2>2
    <3>2. \A j \in 1..(n + 1) : Order[j] \in S => j \in 1..n
      BY <2>1, <2>2
    <3>3. \A j \in 1..n : j \in 1..(n + 1)
      BY <2>1
    <3> HIDE DEF q
    <3> QED  BY <2>1, <3>1, <3>2, <3>3 DEF q
  <2>3. CASE x \in S
    <3>1. f[n + 1] = Append(q, x)
      BY <1>1, <2>1, <2>3
    <3> DEFINE r == Append(q, x)
    <3>2. q \in Seq(S) /\ Len(q) \in Nat
      BY <2>1
    <3>3. /\ r \in Seq(S) /\ Len(r) = Len(q) + 1 /\ r[Len(q) + 1] = x
          /\ \A i \in 1..Len(q) : r[i] = q[i]
      BY <2>3, <3>2
    <3>4. \A i \in 1..Len(q) : q[i] # x
      <4> TAKE i \in 1..Len(q)
      <4>1. PICK j \in 1..n : q[i] = Order[j]
        BY <2>1
      <4>2. j \in 1..L /\ j # n + 1
        BY <2>1, <1>2
      <4> QED  BY <1>3, <2>1, <4>1, <4>2
    <3>5. \A i \in 1..Len(r) : i \in 1..Len(q) \/ i = Len(q) + 1
      BY <3>2, <3>3
    <3>6. \A j \in 1..(n + 1) : j \in 1..n \/ j = n + 1
      BY <2>1
    <3>7. /\ n + 1 \in 1..(n + 1) /\ \A j \in 1..n : j \in 1..(n + 1)
          /\ Len(q) + 1 \in 1..Len(r) /\ \A i \in 1..Len(q) : i \in 1..Len(r)
      BY <2>1, <3>2, <3>3
    <3>0. f[n + 1] = r
      BY <3>1
    <3> HIDE DEF r
    <3>8. \A i \in 1..Len(r) : \E j \in 1..(n + 1) : r[i] = Order[j]
      BY <2>1, <3>3, <3>5, <3>7
    <3>9. \A j \in 1..(n + 1) : Order[j] \in S => \E i \in 1..Len(r) : r[i] = Order[j]
      BY <2>1, <3>3, <3>6, <3>7
    <3>10. ASSUME NEW i \in 1..Len(r), NEW k \in 1..Len(r), r[i] = r[k]
           PROVE  i = k
      <4>1. CASE i \in 1..Len(q) /\ k \in 1..Len(q)
        BY <2>1, <3>3, <3>10, <4>1
      <4>2. CASE ~ (i \in 1..Len(q) /\ k \in 1..Len(q))
        BY <3>3, <3>4, <3>5, <3>10, <4>2
      <4> QED  BY <4>1, <4>2
    <3>11. K(r, n + 1)
      BY <3>3, <3>8, <3>9, <3>10
    <3> QED  BY <3>0, <3>11
  <2> QED
    BY <2>2, <2>3
<1> HIDE DEF N
<1>6. N = Nat
  BY <1>4, <1>5, AllNumbers DEF N
<1>7. K(f[L], L)
  BY <1>2, <1>6 DEF N
<1>8. \A t \in S : \E j \in 1..L : Order[j] = t
  BY Universe
<1> QED
  BY <1>1, <1>7, <1>8

\* Two lists of different tokens are together no longer than the universe.
LEMMA OrderedTogether ==
  ASSUME NEW S \in SUBSET Token, NEW R \in SUBSET Token, S \cap R = {}
  PROVE  Len(InOrder(S)) + Len(InOrder(R)) <= Len(Order)
<1> DEFINE L == Len(Order)
<1>1. PICK f : /\ f[0] = << >> /\ InOrder(S) = f[L]
               /\ \A n \in 1..L :
                    f[n] = IF Order[n] \in S THEN Append(f[n - 1], Order[n])
                           ELSE f[n - 1]
  BY Listing
<1>2. PICK g : /\ g[0] = << >> /\ InOrder(R) = g[L]
               /\ \A n \in 1..L :
                    g[n] = IF Order[n] \in R THEN Append(g[n - 1], Order[n])
                           ELSE g[n - 1]
  BY Listing
<1>3. L = Len(Order) /\ L \in Nat
  BY Universe
<1> DEFINE K(n) == /\ f[n] \in Seq(S) /\ g[n] \in Seq(R)
                   /\ Len(f[n]) + Len(g[n]) <= n
           N == {n \in Nat : n <= L => K(n)}
<1> HIDE DEF K, L
<1>4. 0 \in N
  <2>1. f[0] \in Seq(S) /\ g[0] \in Seq(R) /\ Len(f[0]) = 0 /\ Len(g[0]) = 0
    BY <1>1, <1>2
  <2>2. K(0)
    BY <2>1 DEF K
  <2> QED  BY <2>2
<1>5. ASSUME NEW n \in N PROVE n + 1 \in N
  <2> SUFFICES ASSUME n + 1 <= L PROVE K(n + 1)
    OBVIOUS
  <2>1. n \in Nat /\ n + 1 \in 1..L /\ (n + 1) - 1 = n /\ K(n)
    BY <1>3
  <2>0. n \in Nat
    OBVIOUS
  <2> DEFINE x == Order[n + 1]
  <2>2. /\ f[n + 1] = IF x \in S THEN Append(f[n], x) ELSE f[n]
        /\ g[n + 1] = IF x \in R THEN Append(g[n], x) ELSE g[n]
    BY <1>1, <1>2, <2>1
  <2>3. x \notin S \/ x \notin R
    OBVIOUS
  <2>4. Len(f[n]) \in Nat /\ Len(g[n]) \in Nat
    BY <2>1 DEF K
  <2>5. \A q \in Seq(S) : x \in S => Append(q, x) \in Seq(S) /\ Len(Append(q, x)) = Len(q) + 1
    OBVIOUS
  <2>6. \A q \in Seq(R) : x \in R => Append(q, x) \in Seq(R) /\ Len(Append(q, x)) = Len(q) + 1
    OBVIOUS
  <2> HIDE DEF x
  <2>7. f[n] \in Seq(S) /\ g[n] \in Seq(R)
    BY <2>1 DEF K
  <2>8. Len(f[n]) + Len(g[n]) <= n
    BY <2>1 DEF K
  <2>9. f[n + 1] \in Seq(S) /\ g[n + 1] \in Seq(R)
    BY <2>2, <2>5, <2>6, <2>7
  <2>10. \/ Len(f[n + 1]) = Len(f[n]) + 1 /\ Len(g[n + 1]) = Len(g[n])
         \/ Len(f[n + 1]) = Len(f[n]) /\ Len(g[n + 1]) = Len(g[n]) + 1
         \/ Len(f[n + 1]) = Len(f[n]) /\ Len(g[n + 1]) = Len(g[n])
    BY <2>2, <2>3, <2>5, <2>6, <2>7
  <2> DEFINE a == Len(f[n])
             b == Len(g[n])
             c == Len(f[n + 1])
             d == Len(g[n + 1])
  <2>11. /\ a \in Nat /\ b \in Nat /\ a + b <= n
         /\ \/ c = a + 1 /\ d = b
            \/ c = a /\ d = b + 1
            \/ c = a /\ d = b
    BY <2>4, <2>8, <2>10
  <2>12. c + d <= n + 1
    <3> HIDE DEF a, b, c, d
    <3> QED  BY <2>0, <2>11
  <2> QED
    BY <2>9, <2>12 DEF K
<1> HIDE DEF N
<1>6. N = Nat
  BY <1>4, <1>5, AllNumbers DEF N
<1>7. K(L)
  BY <1>3, <1>6 DEF N
<1> QED
  BY <1>1, <1>2, <1>3, <1>7 DEF K

\* What a list adds up to is what its tokens do.
LEMMA OrderedSum ==
  ASSUME NEW S \in SUBSET Token, NEW F \in [Token -> Int]
  PROVE  LET q == InOrder(S) IN
         SumOf([i \in 1..Len(q) |-> F[q[i]]])
           = SumOf([t \in Token |-> IF t \in S THEN F[t] ELSE 0])
<1> DEFINE L == Len(Order)
           H == [t \in Token |-> IF t \in S THEN F[t] ELSE 0]
           Upto(n) == {Order[j] : j \in 1..n}
           Of(q) == SumOf([i \in 1..Len(q) |-> F[q[i]]])
<1>1. PICK f : /\ f[0] = << >> /\ InOrder(S) = f[L]
               /\ \A n \in 1..L :
                    f[n] = IF Order[n] \in S THEN Append(f[n - 1], Order[n])
                           ELSE f[n - 1]
  BY Listing
<1>2. L \in Nat /\ (\A i \in 1..L : Order[i] \in Token) /\ IsFiniteSet(Token)
  BY Universe
<1>3. \A i, k \in 1..L : Order[i] = Order[k] => i = k
  BY RotatorAssumption, Universe
<1>h. H \in [Token -> Int]
  OBVIOUS
<1>p. ASSUME NEW s \in SUBSET Token, NEW x \in Token \ s
      PROVE  Part(H, s) \in Int /\ Part(H, s \cup {x}) = H[x] + Part(H, s)
  <2> HIDE DEF H
  <2> QED  BY <1>2, <1>h, PartAdd
<1> DEFINE K(n) == f[n] \in Seq(S) /\ Of(f[n]) = Part(H, Upto(n))
           N == {n \in Nat : n <= L => K(n)}
<1>4. 0 \in N
  <2>1. f[0] \in Seq(S) /\ 1..Len(f[0]) = {} /\ Upto(0) = {}
    BY <1>1
  <2>2. DOMAIN [i \in 1..Len(f[0]) |-> F[f[0][i]]] = {}
    BY <2>1
  <2>3. Of(f[0]) = 0
    BY <2>2, SumEmpty
  <2>4. Part(H, {}) = 0
    <3> HIDE DEF H
    <3> QED  BY <1>h, PartAll
  <2> QED  BY <2>1, <2>3, <2>4
<1>5. ASSUME NEW n \in N PROVE n + 1 \in N
  <2> SUFFICES ASSUME n + 1 <= L PROVE K(n + 1)
    OBVIOUS
  <2>1. n \in Nat /\ n + 1 \in 1..L /\ (n + 1) - 1 = n /\ K(n)
    BY <1>2
  <2> DEFINE x == Order[n + 1]
             q == f[n]
  <2>2. f[n + 1] = IF x \in S THEN Append(q, x) ELSE q
    BY <1>1, <2>1
  <2>3. /\ Upto(n) \in SUBSET Token /\ Upto(n + 1) = Upto(n) \cup {x}
        /\ x \in Token \ Upto(n)
    <3>1. \A j \in 1..(n + 1) : j \in 1..n \/ j = n + 1
      BY <2>1
    <3>2. \A j \in 1..n : j \in 1..(n + 1) /\ j \in 1..L /\ j # n + 1
      BY <1>2, <2>1
    <3>3. n + 1 \in 1..(n + 1)
      BY <2>1
    <3>4. x \in Token
      BY <1>2, <2>1
    <3>5. \A j \in 1..n : Order[j] # x
      BY <1>3, <2>1, <3>2
    <3> QED  BY <1>2, <3>1, <3>2, <3>3, <3>4, <3>5
  <2>4. Part(H, Upto(n)) \in Int /\ Part(H, Upto(n + 1)) = H[x] + Part(H, Upto(n))
    <3> HIDE DEF H, Upto, x
    <3> QED  BY <1>p, <2>3
  <2>5. CASE x \notin S
    BY <2>1, <2>2, <2>3, <2>4, <2>5
  <2>6. CASE x \in S
    <3> DEFINE r == Append(q, x)
               m == Len(q)
    <3>1. q \in Seq(S) /\ m \in Nat /\ \A i \in 1..m : q[i] \in Token
      BY <2>1
    <3>2. /\ r \in Seq(S) /\ Len(r) = m + 1 /\ r[m + 1] = x
          /\ \A i \in 1..m : r[i] = q[i]
      BY <2>6, <3>1
    <3>3. \A i \in 1..(m + 1) : F[r[i]] \in Int
      BY <3>1, <3>2
    <3> DEFINE A == [i \in 1..(m + 1) |-> F[r[i]]]
               B == [i \in 1..m |-> F[q[i]]]
    <3>4. SumUpTo(A, m + 1) = SumUpTo(A, m) + A[m + 1]
      <4>1. \A i \in 1..(m + 1) : A[i] \in Int
        BY <3>3
      <4> HIDE DEF A, m
      <4> QED  BY <3>1, <4>1, UpToNext
    <3>5. SumUpTo(A, m) = SumUpTo(B, m)
      <4>1. \A i \in 1..m : A[i] = B[i]
        BY <3>1, <3>2
      <4> HIDE DEF A, B, m
      <4> QED  BY <3>1, <4>1, UpToSame
    <3>6. SumUpTo(B, m) = Of(q) /\ SumUpTo(A, m + 1) = Of(r)
      <4>1. [i \in 1..m |-> B[i]] = B /\ [i \in 1..(m + 1) |-> A[i]] = A
        OBVIOUS
      <4>2. SumUpTo(B, m) = SumOf(B) /\ SumUpTo(A, m + 1) = SumOf(A)
        <5> HIDE DEF A, B, m
        <5> QED  BY <4>1 DEF SumUpTo
      <4> QED  BY <3>2, <4>2
    <3>7. A[m + 1] = F[x] /\ H[x] = F[x] /\ F[x] \in Int
      BY <2>3, <2>6, <3>1, <3>2
    <3>8. Of(r) = Of(q) + F[x]
      <4> HIDE DEF A, B, m, r, q, x, Of
      <4> QED  BY <3>4, <3>5, <3>6, <3>7
    <3>9. Of(q) = Part(H, Upto(n)) /\ f[n + 1] = r
      BY <2>1, <2>2, <2>6
    <3> HIDE DEF A, B, m, r, q, x, Of, H, Upto
    <3> QED  BY <2>4, <3>2, <3>7, <3>8, <3>9
  <2> QED
    BY <2>5, <2>6
<1> HIDE DEF N
<1>6. N = Nat
  BY <1>4, <1>5, AllNumbers DEF N
<1>7. Of(f[L]) = Part(H, Upto(L))
  <2>1. L \in N /\ L <= L
    BY <1>2, <1>6
  <2> HIDE DEF H, Upto, Of
  <2> QED  BY <2>1 DEF N
<1>8. Upto(L) = Token
  BY Universe
<1>9. Part(H, Token) = SumOf(H)
  <2> HIDE DEF H
  <2> QED  BY <1>h, PartAll
<1> QED
  BY <1>1, <1>7, <1>8, <1>9

-----------------------------------------------------------------------------
(* Rounding, and the weights of a signal.                                  *)

LEMMA RoundBounds ==
  ASSUME NEW n \in Nat, NEW d \in Nat \ {0}
  PROVE  /\ Round(n, d) \in Nat
         /\ 2 * (d * Round(n, d)) <= 2 * n + d
         /\ 2 * n < 2 * (d * Round(n, d)) + d
<1> DEFINE k == 2 * d
           m == 2 * n + d
           q == m \div k
<1>1. m \in Nat /\ k \in Nat /\ k > 0
  OBVIOUS
<1>2. q \in Nat /\ k * q <= m /\ m < k * q + k
  <2> HIDE DEF m, k
  <2> QED  BY <1>1
<1>3. Round(n, d) = q
  BY DEF Round
<1>4. k * q = 2 * (d * q)
  BY <1>2
<1> QED
  BY <1>2, <1>3, <1>4

\* The weights of main.ts add up to the whole, for what a short takes from
\* its token goes to cash.
LEMMA LongOnlyWhole ==
  ASSUME NEW s \in Signal
  PROVE  LongOnly(s) \in [Token -> Nat] /\ SumOf(LongOnly(s)) = Total
<1> DEFINE W == Weights[s]
           P == [t \in Token |-> Pos(W[t])]
           Q == [t \in Token |-> Pos(-W[t])]
           A == [t \in Token |-> Abs(W[t])]
           Z == [t \in Token |-> 0]
<1>1. /\ W \in [Token -> Int] /\ SumOf(A) = Total /\ Total \in Nat /\ Cash \in Token
      /\ IsFiniteSet(Token)
  BY RotatorAssumption, Universe
<1>2. /\ P \in [Token -> Nat] /\ Q \in [Token -> Nat] /\ A \in [Token -> Nat]
      /\ \A t \in Token : A[t] = 1 * P[t] + 1 * Q[t] /\ 0 <= Q[t]
  BY <1>1 DEF Pos, Abs
<1>3. /\ P \in [Token -> Int] /\ Q \in [Token -> Int] /\ A \in [Token -> Int]
      /\ Z \in [Token -> Int] /\ \A t \in Token : Z[t] = 0 /\ 0 <= Q[t] /\ Z[t] <= Q[t]
  BY <1>2
<1>4. /\ SumOf(P) \in Int /\ SumOf(Q) \in Int
      /\ SumOf(A) = 1 * SumOf(P) + 1 * SumOf(Q)
  <2> HIDE DEF P, Q, A
  <2>1. SumOf(P) \in Int /\ SumOf(Q) \in Int
    BY <1>1, <1>3, SumType
  <2>2. SumOf(A) = 1 * SumOf(P) + 1 * SumOf(Q)
    <3>1. Combines(A, 1, P, 1, Q)
      BY <1>2 DEF Combines
    <3> QED  BY <1>1, <1>3, <3>1, SumLinear
  <2> QED  BY <2>1, <2>2
<1>5. SumOf(Z) = 0 /\ SumOf(Z) <= SumOf(Q)
  <2> HIDE DEF Z, Q
  <2> QED  BY <1>1, <1>3, SumZero, SumMonotone
<1>6. Shorts(s) = SumOf(Q)
  BY DEF Shorts
<1>7. CASE s \in Confident
  <2> DEFINE w == [P EXCEPT ![Cash] = P[Cash] + SumOf(Q)]
  <2>1. LongOnly(s) = w
    BY <1>1, <1>2, <1>4, <1>6, <1>7 DEF LongOnly
  <2>2. P[Cash] + SumOf(Q) \in Nat
    BY <1>1, <1>2, <1>4, <1>5
  <2>3. w \in [Token -> Nat]
    BY <1>1, <1>2, <2>2
  <2>4. SumOf(w) = SumOf(P) + ((P[Cash] + SumOf(Q)) - P[Cash])
    <3> DEFINE v == P[Cash] + SumOf(Q)
    <3>1. v \in Int
      BY <2>2
    <3> HIDE DEF P, Q, v
    <3>2. SumOf([P EXCEPT ![Cash] = v]) = SumOf(P) + (v - P[Cash])
      BY <1>1, <1>3, <3>1, SumUpdate
    <3> QED  BY <3>2 DEF v
  <2>5. P[Cash] \in Int
    BY <1>1, <1>3
  <2>6. SumOf(w) = Total
    <3> HIDE DEF P, Q, A, w
    <3> QED  BY <1>1, <1>4, <2>4, <2>5
  <2> QED  BY <2>1, <2>3, <2>6
<1>8. CASE s \notin Confident
  <2> DEFINE w == [Z EXCEPT ![Cash] = Total]
  <2>1. LongOnly(s) = w
    BY <1>1, <1>8 DEF LongOnly
  <2>2. w \in [Token -> Nat]
    BY <1>1
  <2>3. SumOf(w) = SumOf(Z) + (Total - Z[Cash])
    <3>1. Total \in Int
      BY <1>1
    <3> HIDE DEF Z
    <3> QED  BY <1>1, <1>3, <3>1, SumUpdate
  <2>4. SumOf(w) = Total
    <3>1. Z[Cash] = 0
      BY <1>1, <1>3
    <3> HIDE DEF Z, w
    <3> QED  BY <1>1, <1>5, <2>3, <3>1
  <2> QED  BY <2>1, <2>2, <2>4
<1> QED
  BY <1>7, <1>8

-----------------------------------------------------------------------------
(* What the plan has to move.                                              *)

\* What the chain holds: nothing is lost, and nothing is owed.
Holds == alloc \in [Token -> Nat] /\ idle \in Nat /\ SumOf(alloc) + idle = Nav

\* What main.ts aims at.
Target(w) == w \in [Token -> Nat] /\ SumOf(w) = Total

OverSet(w) == {t \in Token : Delta(w, t) < 0 /\ -Delta(w, t) >= Band * Total}
UnderSet(w) == {t \in Token : Delta(w, t) > 0 /\ Delta(w, t) >= Band * Total}

LEMMA DeltaBounds ==
  ASSUME Holds, NEW w, Target(w), NEW t \in Token
  PROVE  /\ Delta(w, t) \in Int /\ Abs(Delta(w, t)) \in Nat
         /\ -Delta(w, t) <= alloc[t] * Total
         /\ t \in OverSet(w) => Delta(w, t) < 0
         /\ t \in UnderSet(w) => Delta(w, t) > 0
         /\ t \notin OverSet(w) \cup UnderSet(w) =>
              -Delta(w, t) <= Band * Total /\ Delta(w, t) <= Band * Total
<1>1. Nav \in Nat /\ Total \in Nat /\ Band \in Nat
  BY RotatorAssumption
<1>2. w[t] \in Nat /\ alloc[t] \in Nat
  BY DEF Holds, Target
<1> DEFINE a == w[t] * Nav
           b == alloc[t] * Total
           c == Band * Total
<1>3. a \in Nat /\ b \in Nat /\ c \in Nat
  BY <1>1, <1>2
<1>4. Delta(w, t) = a - b
  BY DEF Delta
<1>5. /\ t \in OverSet(w) <=> Delta(w, t) < 0 /\ -Delta(w, t) >= c
      /\ t \in UnderSet(w) <=> Delta(w, t) > 0 /\ Delta(w, t) >= c
  BY DEF OverSet, UnderSet
<1> HIDE DEF a, b, c
<1>6. /\ Delta(w, t) \in Int /\ Abs(Delta(w, t)) \in Nat
      /\ -Delta(w, t) <= b
      /\ t \in OverSet(w) => Delta(w, t) < 0
      /\ t \in UnderSet(w) => Delta(w, t) > 0
      /\ t \notin OverSet(w) \cup UnderSet(w) => -Delta(w, t) <= c /\ Delta(w, t) <= c
  BY <1>3, <1>4, <1>5 DEF Abs
<1> QED
  BY <1>6 DEF b, c

\* What a constant adds up to over the universe.
LEMMA SumConstant ==
  ASSUME NEW c \in Nat
  PROVE  SumOf([t \in Token |-> c]) <= Len(Order) * c
<1> DEFINE C == [t \in Token |-> c]
           q == InOrder(Token)
           F == [i \in 1..Len(q) |-> C[q[i]]]
<1>1. C \in [Token -> Int] /\ Token \in SUBSET Token /\ {} \in SUBSET Token
  OBVIOUS
<1>2. SumOf(F) = SumOf([t \in Token |-> IF t \in Token THEN C[t] ELSE 0])
  <2> HIDE DEF C
  <2> QED  BY <1>1, OrderedSum
<1>3. [t \in Token |-> IF t \in Token THEN C[t] ELSE 0] = C
  OBVIOUS
<1>4. q \in Seq(Token) /\ Len(q) <= Len(Order) /\ Len(q) \in Nat
  <2>1. q \in Seq(Token) /\ InOrder({}) \in Seq({})
    BY <1>1, Ordered
  <2>2. Len(q) + Len(InOrder({})) <= Len(Order)
    BY <1>1, OrderedTogether
  <2>3. Len(q) \in Nat /\ Len(InOrder({})) \in Nat /\ Len(Order) \in Nat
    BY <2>1, Universe
  <2> HIDE DEF q
  <2> QED  BY <2>1, <2>2, <2>3
<1>5. \A i \in 1..Len(q) : F[i] \in Int /\ 1 * F[i] <= 0 * F[i] + c
  <2> TAKE i \in 1..Len(q)
  <2>1. q[i] \in Token
    BY <1>4
  <2>2. F[i] = c
    BY <2>1
  <2> HIDE DEF F
  <2> QED  BY <2>2
<1>6. SumUpTo(F, Len(q)) = SumOf(F)
  <2>1. [i \in 1..Len(q) |-> F[i]] = F
    OBVIOUS
  <2> HIDE DEF F, q
  <2> QED  BY <2>1 DEF SumUpTo
<1>7. SumUpTo(F, Len(q)) <= Len(q) * c
  <2> DEFINE b == Len(q)
  <2>1. /\ b \in Nat /\ Bounded(b, 1, F, 0, F, c) /\ c \in Int
        /\ \A i \in 1..b : F[i] \in Int
    BY <1>4, <1>5 DEF Bounded
  <2> HIDE DEF F, b
  <2>2. \A n \in 0..b : 1 * SumUpTo(F, n) <= 0 * SumUpTo(F, n) + n * c
    BY <2>1, UpToBound
  <2>3. SumUpTo(F, b) \in Int /\ b \in 0..b
    BY <2>1, UpToType
  <2>4. SumUpTo(F, b) <= b * c
    BY <2>1, <2>2, <2>3
  <2> QED  BY <2>4 DEF b
<1>8. Len(q) * c <= Len(Order) * c
  <2> DEFINE b == Len(q)
             L == Len(Order)
  <2>1. b \in Nat /\ L \in Nat /\ b <= L
    BY <1>4, Universe
  <2> HIDE DEF b, L
  <2>2. L * c = b * c + (L - b) * c /\ (L - b) * c \in Nat /\ b * c \in Nat
    BY <2>1
  <2>3. b * c <= L * c
    BY <2>2
  <2> QED  BY <2>3 DEF b, L
<1>9. SumOf(C) <= Len(q) * c /\ SumOf(C) \in Int
  <2>1. SumOf(C) \in Int
    <3> HIDE DEF C
    <3> QED  BY <1>1, Universe, SumType
  <2>2. SumOf(C) = SumUpTo(F, Len(q))
    <3> HIDE DEF C, F, q
    <3> QED  BY <1>2, <1>3, <1>6
  <2> HIDE DEF C, F, q
  <2> QED  BY <1>7, <2>1, <2>2
<1>10. Len(Order) \in Nat /\ Len(Order) * c \in Nat /\ Len(q) * c \in Nat
  BY <1>4, Universe
<1> DEFINE x == Len(Order) * c
           y == Len(q) * c
<1>11. SumOf(C) <= y /\ y <= x /\ SumOf(C) \in Int /\ x \in Nat /\ y \in Nat
  BY <1>8, <1>9, <1>10
<1>12. SumOf(C) <= x
  <2> HIDE DEF C, x, y
  <2> QED  BY <1>11
<1> QED
  BY <1>12

\* All the tokens' deltas together are the idle asset's.
LEMMA DeltasWhole ==
  ASSUME Holds, NEW w, Target(w)
  PROVE  SumOf([t \in Token |-> Delta(w, t)]) = idle * Total
<1> DEFINE D == [t \in Token |-> Delta(w, t)]
<1>1. Nav \in Nat /\ Total \in Nat /\ IsFiniteSet(Token)
  BY RotatorAssumption, Universe
<1>2. /\ w \in [Token -> Int] /\ alloc \in [Token -> Int] /\ idle \in Nat
      /\ SumOf(w) = Total /\ SumOf(alloc) + idle = Nav
  BY DEF Holds, Target
<1>3. D \in [Token -> Int]
  BY DeltaBounds
<1>4. Combines(D, Nav, w, -Total, alloc)
  <2> SUFFICES ASSUME NEW t \in Token
               PROVE  Delta(w, t) = Nav * w[t] + (-Total) * alloc[t]
    BY DEF Combines
  <2>1. w[t] \in Int /\ alloc[t] \in Int
    BY <1>2
  <2>2. Delta(w, t) = w[t] * Nav - alloc[t] * Total
    BY DEF Delta
  <2> QED  BY <1>1, <2>1, <2>2
<1>5. SumOf(D) = Nav * SumOf(w) + (-Total) * SumOf(alloc)
  <2>1. Nav \in Int /\ -Total \in Int
    BY <1>1
  <2> HIDE DEF D
  <2> QED  BY <1>1, <1>2, <1>3, <1>4, <2>1, SumLinear
<1>6. SumOf(alloc) \in Int
  BY <1>1, <1>2, SumType
<1> DEFINE a == SumOf(alloc)
<1>7. a \in Int /\ a + idle = Nav /\ SumOf(D) = Nav * Total + (-Total) * a
  BY <1>2, <1>5, <1>6
<1>8. SumOf(D) = idle * Total
  <2> HIDE DEF D, a
  <2>1. Nav * Total = a * Total + idle * Total
    BY <1>1, <1>2, <1>7
  <2> QED  BY <1>1, <1>2, <1>7, <2>1
<1> QED
  BY <1>8

\* The amounts of a list, as a sum over the universe.
LEMMA SumOverTokens ==
  ASSUME Holds, NEW w, Target(w), NEW S \in SUBSET Token
  PROVE  SumOver(w, InOrder(S))
           = SumOf([t \in Token |-> IF t \in S THEN Abs(Delta(w, t)) ELSE 0])
<1> DEFINE A == [t \in Token |-> Abs(Delta(w, t))]
           q == InOrder(S)
<1>1. A \in [Token -> Int]
  BY DeltaBounds
<1>2. SumOf([i \in 1..Len(q) |-> A[q[i]]])
        = SumOf([t \in Token |-> IF t \in S THEN A[t] ELSE 0])
  <2> HIDE DEF A
  <2> QED  BY <1>1, OrderedSum
<1>3. \A i \in 1..Len(q) : q[i] \in Token
  <2>1. q \in Seq(S)
    BY Ordered
  <2> HIDE DEF q
  <2> QED  BY <2>1
<1>4. [i \in 1..Len(q) |-> A[q[i]]] = [i \in 1..Len(q) |-> Abs(Delta(w, q[i]))]
  BY <1>3
<1>5. [t \in Token |-> IF t \in S THEN A[t] ELSE 0]
        = [t \in Token |-> IF t \in S THEN Abs(Delta(w, t)) ELSE 0]
  OBVIOUS
<1> QED
  BY <1>2, <1>4, <1>5 DEF SumOver

Need(w) == SumOver(w, Under(w))

\* What the deposits want and what there will be.  They fall short of each
\* other by no more than a band for every other token.
LEMMA NeedHave ==
  ASSUME Holds, NEW w, Target(w)
  PROVE  /\ Need(w) \in Nat /\ SumOver(w, Over(w)) \in Nat
         /\ WillHaveIdle(w) \in Nat
         /\ WillHaveIdle(w) = idle * Total + SumOver(w, Over(w))
         /\ \A t \in UnderSet(w) :
              /\ Delta(w, t) <= Need(w)
              /\ Need(w) - WillHaveIdle(w) <= (Len(Order) - 1) * (Band * Total)
<1> DEFINE U == [t \in Token |-> IF t \in UnderSet(w) THEN Abs(Delta(w, t)) ELSE 0]
           O == [t \in Token |-> IF t \in OverSet(w) THEN Abs(Delta(w, t)) ELSE 0]
           D == [t \in Token |-> Delta(w, t)]
           X == [t \in Token |-> U[t] - O[t]]
           V == [t \in Token |-> IF t \in OverSet(w) \cup UnderSet(w) THEN 0
                                 ELSE -Delta(w, t)]
           Z == [t \in Token |-> 0]
           c == Band * Total
           C == [t \in Token |-> c]
<1>1. /\ IsFiniteSet(Token) /\ Band \in Nat /\ Total \in Nat /\ idle \in Nat /\ c \in Nat
      /\ OverSet(w) \in SUBSET Token /\ UnderSet(w) \in SUBSET Token
      /\ idle * Total \in Nat
  <2>1. Band \in Nat /\ Total \in Nat /\ IsFiniteSet(Token)
    BY RotatorAssumption, Universe
  <2>2. idle \in Nat
    BY DEF Holds
  <2>3. OverSet(w) \in SUBSET Token /\ UnderSet(w) \in SUBSET Token
    BY DEF OverSet, UnderSet
  <2> QED  BY <2>1, <2>2, <2>3
<1>2. Need(w) = SumOf(U) /\ SumOver(w, Over(w)) = SumOf(O)
  <2>1. Under(w) = InOrder(UnderSet(w)) /\ Over(w) = InOrder(OverSet(w))
    BY DEF Under, Over, UnderSet, OverSet
  <2> QED  BY <1>1, <2>1, SumOverTokens DEF Need
<1>3. \A t \in Token :
        /\ D[t] \in Int /\ U[t] \in Nat /\ O[t] \in Nat /\ X[t] \in Int /\ V[t] \in Int
        /\ X[t] = U[t] - O[t] /\ V[t] = X[t] - D[t]
        /\ V[t] <= c /\ (t \in UnderSet(w) => V[t] = 0)
  <2> TAKE t \in Token
  <2> DEFINE d == Delta(w, t)
  <2>1. /\ d \in Int /\ Abs(d) \in Nat
        /\ t \in OverSet(w) => d < 0
        /\ t \in UnderSet(w) => d > 0
        /\ t \notin OverSet(w) \cup UnderSet(w) => -d <= c
    BY DeltaBounds
  <2>2. /\ U[t] = IF t \in UnderSet(w) THEN Abs(d) ELSE 0
        /\ O[t] = IF t \in OverSet(w) THEN Abs(d) ELSE 0
        /\ V[t] = IF t \in OverSet(w) \cup UnderSet(w) THEN 0 ELSE -d
        /\ D[t] = d /\ X[t] = U[t] - O[t]
    OBVIOUS
  <2> HIDE DEF U, O, V, D, X, d, c
  <2>3. CASE t \in OverSet(w)
    BY <1>1, <2>1, <2>2, <2>3 DEF Abs
  <2>4. CASE t \in UnderSet(w)
    BY <1>1, <2>1, <2>2, <2>4 DEF Abs
  <2>5. CASE t \notin OverSet(w) \cup UnderSet(w)
    BY <1>1, <2>1, <2>2, <2>5
  <2> QED  BY <2>3, <2>4, <2>5
<1>4. /\ D \in [Token -> Int] /\ U \in [Token -> Int] /\ O \in [Token -> Int]
      /\ X \in [Token -> Int] /\ V \in [Token -> Int] /\ Z \in [Token -> Int]
      /\ C \in [Token -> Int] /\ \A t \in Token : Z[t] = 0 /\ Z[t] <= U[t] /\ Z[t] <= O[t]
  <2>1. \A t \in Token : Z[t] = 0 /\ C[t] \in Int
    BY <1>1
  <2> QED  BY <1>3, <2>1
<1>5. SumOf(D) = idle * Total
  BY DeltasWhole
<1>6. SumOf(X) = 1 * SumOf(U) + (-1) * SumOf(O)
  <2>1. Combines(X, 1, U, -1, O)
    <3>1. DOMAIN X = Token
      OBVIOUS
    <3> HIDE DEF X, U, O
    <3> QED  BY <1>3, <3>1 DEF Combines
  <2>2. -1 \in Int /\ 1 \in Int
    OBVIOUS
  <2> HIDE DEF X, U, O
  <2> QED  BY <1>1, <1>4, <2>1, <2>2, SumLinear
<1>7. SumOf(V) = 1 * SumOf(X) + (-1) * SumOf(D)
  <2>1. Combines(V, 1, X, -1, D)
    <3>1. DOMAIN V = Token
      OBVIOUS
    <3> HIDE DEF X, V, D
    <3> QED  BY <1>3, <3>1 DEF Combines
  <2>2. -1 \in Int /\ 1 \in Int
    OBVIOUS
  <2> HIDE DEF X, V, D
  <2> QED  BY <1>1, <1>4, <2>1, <2>2, SumLinear
<1>8. /\ SumOf(U) \in Int /\ SumOf(O) \in Int /\ SumOf(V) \in Int
      /\ 0 <= SumOf(U) /\ 0 <= SumOf(O)
  <2> HIDE DEF U, O, V, Z
  <2>1. SumOf(Z) = 0
    BY <1>1, <1>4, SumZero
  <2>2. SumOf(Z) <= SumOf(U) /\ SumOf(Z) <= SumOf(O)
    BY <1>1, <1>4, SumMonotone
  <2>3. SumOf(U) \in Int /\ SumOf(O) \in Int /\ SumOf(V) \in Int
    BY <1>1, <1>4, SumType
  <2> QED  BY <2>1, <2>2, <2>3
<1>9. WillHaveIdle(w) = idle * Total + SumOf(O)
  BY <1>2 DEF WillHaveIdle
<1>10. SumOf(V) = Need(w) - WillHaveIdle(w)
  <2> HIDE DEF U, O, V, D, X
  <2> DEFINE y == idle * Total
  <2>1. y \in Nat /\ SumOf(D) = y /\ WillHaveIdle(w) = y + SumOf(O)
    BY <1>1, <1>5, <1>9
  <2> HIDE DEF y
  <2> QED  BY <1>2, <1>6, <1>7, <1>8, <2>1
<1>11. ASSUME NEW t \in UnderSet(w) PROVE SumOf(V) <= (Len(Order) - 1) * c
  <2> DEFINE G == [C EXCEPT ![t] = 0]
  <2>1. t \in Token /\ G \in [Token -> Int] /\ V[t] = 0 /\ C[t] = c
    BY <1>1, <1>3, <1>4
  <2>2. \A u \in Token : V[u] <= G[u]
    <3> TAKE u \in Token
    <3>1. G[u] = IF u = t THEN 0 ELSE c
      BY <1>1
    <3>2. V[u] <= c /\ V[u] \in Int
      BY <1>3
    <3> HIDE DEF G, V
    <3> QED  BY <2>1, <3>1, <3>2
  <2>3. SumOf(V) <= SumOf(G)
    <3> HIDE DEF G, V
    <3> QED  BY <1>1, <1>4, <2>1, <2>2, SumMonotone
  <2>4. SumOf(G) = SumOf(C) + (0 - C[t])
    <3> DEFINE z == 0
    <3>1. z \in Int /\ C \in [Token -> Int] /\ t \in Token
      BY <1>4, <2>1
    <3> HIDE DEF C, z
    <3>2. SumOf([C EXCEPT ![t] = z]) = SumOf(C) + (z - C[t])
      BY <1>1, <3>1, SumUpdate
    <3> QED  BY <3>2 DEF z
  <2>5. SumOf(C) <= Len(Order) * c
    <3> HIDE DEF c
    <3> QED  BY <1>1, SumConstant
  <2>6. SumOf(C) \in Int
    <3> HIDE DEF C
    <3> QED  BY <1>1, <1>4, SumType
  <2> DEFINE L == Len(Order)
             y == L * c
  <2>7. L \in Nat /\ y \in Nat /\ SumOf(C) <= y
    BY <1>1, <2>5, Universe
  <2>8. (L - 1) * c = y - c
    <3> HIDE DEF L, c
    <3> QED  BY <1>1, <2>7
  <2>9. SumOf(V) <= y - c
    <3> HIDE DEF y, c, C, V, G, L
    <3> QED  BY <1>1, <1>8, <2>1, <2>3, <2>4, <2>6, <2>7
  <2> QED  BY <2>8, <2>9
<1>12. WillHaveIdle(w) \in Nat
  <2> DEFINE y == idle * Total
  <2>1. y \in Nat /\ WillHaveIdle(w) = y + SumOf(O)
    BY <1>1, <1>9
  <2> HIDE DEF y, O
  <2> QED  BY <1>8, <2>1
<1>13. Need(w) \in Nat /\ SumOver(w, Over(w)) \in Nat
  <2> HIDE DEF U, O
  <2> QED  BY <1>2, <1>8
<1>14. \A t \in UnderSet(w) :
         Need(w) - WillHaveIdle(w) <= (Len(Order) - 1) * (Band * Total)
  <2> HIDE DEF V
  <2> QED  BY <1>10, <1>11
<1>15. ASSUME NEW t \in UnderSet(w) PROVE Delta(w, t) <= Need(w)
  <2>1. U \in [Token -> Nat] /\ t \in Token
    BY <1>1, <1>3, <1>4
  <2>2. U[t] <= SumOf(U)
    <3> HIDE DEF U
    <3> QED  BY <1>1, <2>1, SumNat
  <2>3. Delta(w, t) \in Int /\ Delta(w, t) > 0
    BY <2>1, DeltaBounds
  <2>4. U[t] = Abs(Delta(w, t))
    BY <2>1
  <2>5. U[t] = Delta(w, t)
    <3> HIDE DEF U
    <3> QED  BY <2>3, <2>4 DEF Abs
  <2> HIDE DEF U
  <2> QED  BY <1>2, <2>2, <2>5
<1> QED
  BY <1>2, <1>9, <1>12, <1>13, <1>14, <1>15

-----------------------------------------------------------------------------
(* Steps.                                                                  *)

Step == [token : Token, amount : Int]

Amounts(q) == [i \in 1..Len(q) |-> q[i].amount]
AmountsOf(q, t) == [i \in 1..Len(q) |-> IF q[i].token = t THEN q[i].amount ELSE 0]

LEMMA AmountsInt ==
  ASSUME NEW q \in Seq(Step)
  PROVE  /\ Len(q) \in Nat
         /\ \A i \in 1..Len(q) : q[i] \in Step /\ q[i].token \in Token /\ q[i].amount \in Int
         /\ \A i \in 1..Len(q) : Amounts(q)[i] = q[i].amount /\ Amounts(q)[i] \in Int
         /\ \A t : \A i \in 1..Len(q) :
              /\ AmountsOf(q, t)[i] = IF q[i].token = t THEN q[i].amount ELSE 0
              /\ AmountsOf(q, t)[i] \in Int
<1>1. Len(q) \in Nat /\ \A i \in 1..Len(q) : q[i] \in Step
  OBVIOUS
<1>2. \A i \in 1..Len(q) : q[i].token \in Token /\ q[i].amount \in Int
  BY <1>1 DEF Step
<1> QED
  BY <1>1, <1>2 DEF Amounts, AmountsOf

LEMMA AsSums ==
  ASSUME NEW q \in Seq(Step), NEW n \in 0..Len(q)
  PROVE  /\ Spends(q, n) = SumUpTo(Amounts(q), n) /\ Spends(q, n) \in Int
         /\ \A t : Moves(q, n, t) = SumUpTo(AmountsOf(q, t), n) /\ Moves(q, n, t) \in Int
<1>1. n \in Nat /\ \A i \in 1..n : i \in 1..Len(q)
  BY AmountsInt
<1>2. \A i \in 1..n : Amounts(q)[i] = q[i].amount /\ Amounts(q)[i] \in Int
  BY <1>1, AmountsInt
<1>3. Spends(q, n) = SumUpTo(Amounts(q), n)
  BY <1>2 DEF Spends, SumUpTo
<1>4. SumUpTo(Amounts(q), n) \in Int
  BY <1>1, <1>2, UpToType
<1>5. ASSUME NEW t
      PROVE  Moves(q, n, t) = SumUpTo(AmountsOf(q, t), n) /\ Moves(q, n, t) \in Int
  <2>1. \A i \in 1..n : /\ AmountsOf(q, t)[i] = IF q[i].token = t THEN q[i].amount ELSE 0
                        /\ AmountsOf(q, t)[i] \in Int
    BY <1>1, AmountsInt
  <2>2. Moves(q, n, t) = SumUpTo(AmountsOf(q, t), n)
    BY <2>1 DEF Moves, SumUpTo
  <2>3. SumUpTo(AmountsOf(q, t), n) \in Int
    BY <1>1, <2>1, UpToType
  <2> QED  BY <2>2, <2>3
<1> QED
  BY <1>3, <1>4, <1>5

LEMMA StepsNext ==
  ASSUME NEW q \in Seq(Step)
  PROVE  /\ Spends(q, 0) = 0 /\ \A t : Moves(q, 0, t) = 0
         /\ \A n \in Nat : n + 1 <= Len(q) =>
              /\ Spends(q, n + 1) = Spends(q, n) + q[n + 1].amount
              /\ \A t : Moves(q, n + 1, t)
                          = Moves(q, n, t) + IF q[n + 1].token = t THEN q[n + 1].amount ELSE 0
<1>1. Spends(q, 0) = 0 /\ \A t : Moves(q, 0, t) = 0
  <2>1. 0 \in 0..Len(q)
    BY AmountsInt
  <2> QED  BY <2>1, AsSums, UpToNone
<1>2. ASSUME NEW n \in Nat, n + 1 <= Len(q)
      PROVE  /\ Spends(q, n + 1) = Spends(q, n) + q[n + 1].amount
             /\ \A t : Moves(q, n + 1, t)
                         = Moves(q, n, t) + IF q[n + 1].token = t THEN q[n + 1].amount ELSE 0
  <2>1. /\ n \in 0..Len(q) /\ n + 1 \in 0..Len(q) /\ n + 1 \in 1..Len(q)
        /\ \A i \in 1..(n + 1) : i \in 1..Len(q)
    BY <1>2, AmountsInt
  <2>2. \A i \in 1..(n + 1) : Amounts(q)[i] \in Int
    BY <2>1, AmountsInt
  <2>3. Spends(q, n + 1) = Spends(q, n) + q[n + 1].amount
    <3>1. SumUpTo(Amounts(q), n + 1) = SumUpTo(Amounts(q), n) + Amounts(q)[n + 1]
      BY <2>2, UpToNext
    <3>2. Amounts(q)[n + 1] = q[n + 1].amount
      BY <2>1, AmountsInt
    <3> QED  BY <2>1, <3>1, <3>2, AsSums
  <2>4. ASSUME NEW t
        PROVE  Moves(q, n + 1, t)
                 = Moves(q, n, t) + IF q[n + 1].token = t THEN q[n + 1].amount ELSE 0
    <3>1. \A i \in 1..(n + 1) : AmountsOf(q, t)[i] \in Int
      BY <2>1, AmountsInt
    <3>2. SumUpTo(AmountsOf(q, t), n + 1)
            = SumUpTo(AmountsOf(q, t), n) + AmountsOf(q, t)[n + 1]
      BY <3>1, UpToNext
    <3>3. AmountsOf(q, t)[n + 1] = IF q[n + 1].token = t THEN q[n + 1].amount ELSE 0
      BY <2>1, AmountsInt
    <3> QED  BY <2>1, <3>2, <3>3, AsSums
  <2> QED  BY <2>3, <2>4
<1> QED
  BY <1>1, <1>2

\* Sequences that begin alike.
LEMMA StepsSame ==
  ASSUME NEW q, NEW r, NEW n \in Nat, \A i \in 1..n : q[i] = r[i]
  PROVE  Spends(q, n) = Spends(r, n) /\ \A t : Moves(q, n, t) = Moves(r, n, t)
<1>1. [i \in 1..n |-> q[i].amount] = [i \in 1..n |-> r[i].amount]
  OBVIOUS
<1>2. ASSUME NEW t PROVE Moves(q, n, t) = Moves(r, n, t)
  <2>1. [i \in 1..n |-> IF q[i].token = t THEN q[i].amount ELSE 0]
          = [i \in 1..n |-> IF r[i].token = t THEN r[i].amount ELSE 0]
    OBVIOUS
  <2> QED  BY <2>1 DEF Moves
<1> QED
  BY <1>1, <1>2 DEF Spends

\* A sequence whose steps from the a-th on are another's.
LEMMA StepsShift ==
  ASSUME NEW q \in Seq(Step), NEW r \in Seq(Step), NEW a \in Nat,
         a + Len(r) = Len(q), \A k \in 1..Len(r) : r[k] = q[a + k]
  PROVE  \A n \in 0..Len(r) :
           /\ Spends(q, a + n) = Spends(q, a) + Spends(r, n)
           /\ \A t : Moves(q, a + n, t) = Moves(q, a, t) + Moves(r, n, t)
<1> DEFINE b == Len(r)
<1>1. b \in Nat /\ Len(q) = a + b
  BY AmountsInt
<1>2. \A i \in 1..(a + b) : i \in 1..Len(q)
  BY <1>1
<1>3. \A k \in 1..b : a + k \in 1..Len(q)
  BY <1>1
<1>4. a \in 0..Len(q) /\ \A n \in 0..b : a + n \in 0..Len(q)
  BY <1>1
<1>5. \A n \in 0..b : SumUpTo(Amounts(q), a + n)
                        = SumUpTo(Amounts(q), a) + SumUpTo(Amounts(r), n)
  <2>1. \A i \in 1..(a + b) : Amounts(q)[i] \in Int
    BY <1>2, AmountsInt
  <2>2. \A k \in 1..b : Amounts(r)[k] = Amounts(q)[a + k]
    BY <1>3, AmountsInt
  <2>3. Continues(Amounts(r), Amounts(q), a, b)
    BY <2>1, <2>2 DEF Continues
  <2> HIDE DEF b
  <2> QED  BY <1>1, <2>3, UpToShift
<1>6. ASSUME NEW t
      PROVE  \A n \in 0..b : SumUpTo(AmountsOf(q, t), a + n)
                        = SumUpTo(AmountsOf(q, t), a) + SumUpTo(AmountsOf(r, t), n)
  <2>1. \A i \in 1..(a + b) : AmountsOf(q, t)[i] \in Int
    BY <1>2, AmountsInt
  <2>2. \A k \in 1..b : AmountsOf(r, t)[k] = AmountsOf(q, t)[a + k]
    BY <1>3, AmountsInt
  <2>3. Continues(AmountsOf(r, t), AmountsOf(q, t), a, b)
    BY <2>1, <2>2 DEF Continues
  <2> HIDE DEF b
  <2> QED  BY <1>1, <2>3, UpToShift
<1> QED
  BY <1>4, <1>5, <1>6, AsSums

\* With one step for a token, that step is all the token gets.
LEMMA MovesOnce ==
  ASSUME NEW q \in Seq(Step), NEW n \in 0..Len(q), NEW t,
         \A i, k \in 1..Len(q) : q[i].token = q[k].token => i = k
  PROVE  /\ \A i \in 1..n : q[i].token = t => Moves(q, n, t) = q[i].amount
         /\ (\A i \in 1..n : q[i].token # t) => Moves(q, n, t) = 0
<1> DEFINE F == [i \in 1..n |-> IF q[i].token = t THEN q[i].amount ELSE 0]
<1>1. /\ n \in Nat /\ IsFiniteSet(1..n) /\ F \in [1..n -> Int]
      /\ \A i \in 1..n : i \in 1..Len(q)
  <2>1. n \in Nat /\ \A i \in 1..n : i \in 1..Len(q)
    BY AmountsInt
  <2>2. IsFiniteSet(1..n)
    BY <2>1, FS_Interval
  <2>3. \A i \in 1..n : q[i].amount \in Int
    BY <2>1, AmountsInt
  <2> QED  BY <2>1, <2>2, <2>3
<1>2. Moves(q, n, t) = SumOf(F)
  BY DEF Moves
<1>3. ASSUME NEW i \in 1..n, q[i].token = t PROVE SumOf(F) = q[i].amount
  <2> DEFINE G == [k \in 1..n \ {i} |-> F[k]]
  <2>1. SumOf(F) = F[i] + SumOf(G)
    <3> DEFINE S == 1..n
    <3>1. IsFiniteSet(S) /\ F \in [S -> Int] /\ i \in S
      BY <1>1
    <3> HIDE DEF F, S
    <3>2. SumOf(F) = F[i] + SumOf([k \in S \ {i} |-> F[k]])
      BY <3>1, SumRemove
    <3> QED  BY <3>2 DEF S
  <2>2. \A k \in 1..n \ {i} : q[k].token # t
    BY <1>1, <1>3
  <2>3. G \in [1..n \ {i} -> Int] /\ \A k \in 1..n \ {i} : G[k] = 0
    BY <1>1, <2>2
  <2>4. IsFiniteSet(1..n \ {i})
    BY <1>1, FS_Subset
  <2>5. SumOf(G) = 0
    <3> HIDE DEF G
    <3> QED  BY <2>3, <2>4, SumZero
  <2>6. F[i] = q[i].amount /\ q[i].amount \in Int
    BY <1>1, <1>3, AmountsInt
  <2> HIDE DEF F, G
  <2> QED  BY <2>1, <2>5, <2>6
<1>4. ASSUME \A i \in 1..n : q[i].token # t PROVE SumOf(F) = 0
  <2>1. \A i \in 1..n : F[i] = 0
    BY <1>4
  <2> HIDE DEF F
  <2> QED  BY <1>1, <2>1, SumZero
<1> QED
  BY <1>2, <1>3, <1>4

\* What idle spends, the strategies get.
LEMMA MovesWhole ==
  ASSUME Holds, NEW q \in Seq(Step), NEW n \in 0..Len(q)
  PROVE  SumOf([t \in Token |-> alloc[t] + Moves(q, n, t)]) = SumOf(alloc) + Spends(q, n)
<1> DEFINE F(m) == [t \in Token |-> alloc[t] + Moves(q, m, t)]
           N == {m \in Nat : m <= Len(q) => SumOf(F(m)) = SumOf(alloc) + Spends(q, m)}
<1>0. /\ IsFiniteSet(Token) /\ alloc \in [Token -> Int] /\ Len(q) \in Nat
      /\ SumOf(alloc) \in Int
  <2>1. IsFiniteSet(Token) /\ alloc \in [Token -> Int] /\ Len(q) \in Nat
    BY Universe, AmountsInt DEF Holds
  <2> QED  BY <2>1, SumType
<1>1. ASSUME NEW m \in Nat, m <= Len(q)
      PROVE  F(m) \in [Token -> Int] /\ SumOf(F(m)) \in Int /\ Spends(q, m) \in Int
  <2>1. m \in 0..Len(q)
    BY <1>0, <1>1
  <2>2. Spends(q, m) \in Int /\ \A t \in Token : Moves(q, m, t) \in Int
    BY <2>1, AsSums
  <2>3. F(m) \in [Token -> Int]
    BY <1>0, <2>2
  <2> HIDE DEF F
  <2> QED  BY <1>0, <2>2, <2>3, SumType
<1>2. 0 \in N
  <2>1. Spends(q, 0) = 0 /\ \A t \in Token : Moves(q, 0, t) = 0
    BY StepsNext
  <2>2. F(0) = alloc
    BY <1>0, <2>1
  <2> QED  BY <1>0, <2>1, <2>2
<1>3. ASSUME NEW m \in N PROVE m + 1 \in N
  <2> SUFFICES ASSUME m + 1 <= Len(q)
               PROVE  SumOf(F(m + 1)) = SumOf(alloc) + Spends(q, m + 1)
    OBVIOUS
  <2>1. m \in Nat /\ m <= Len(q) /\ m + 1 \in 1..Len(q)
    BY <1>0
  <2>2. SumOf(F(m)) = SumOf(alloc) + Spends(q, m)
    BY <2>1
  <2> DEFINE u == q[m + 1].token
             a == q[m + 1].amount
             v == F(m)[u] + a
  <2>3. u \in Token /\ a \in Int
    BY <2>1, AmountsInt
  <2>4. F(m) \in [Token -> Int] /\ SumOf(F(m)) \in Int /\ Spends(q, m) \in Int
    BY <1>1, <2>1
  <2>5. v \in Int /\ F(m)[u] \in Int
    <3> HIDE DEF F, u, a
    <3> QED  BY <2>3, <2>4
  <2>6. /\ Spends(q, m + 1) = Spends(q, m) + a
        /\ \A t \in Token : Moves(q, m + 1, t) = Moves(q, m, t) + IF u = t THEN a ELSE 0
    BY <2>1, StepsNext
  <2>7. \A t \in Token : alloc[t] \in Int /\ Moves(q, m, t) \in Int
    <3>1. m \in 0..Len(q)
      BY <1>0, <2>1
    <3> QED  BY <1>0, <3>1, AsSums
  <2>8. F(m + 1) = [F(m) EXCEPT ![u] = v]
    <3>1. \A t \in Token : F(m + 1)[t] = IF t = u THEN v ELSE F(m)[t]
      <4> HIDE DEF u, a
      <4> QED  BY <2>3, <2>6, <2>7
    <3>2. /\ F(m + 1) = [t \in Token |-> F(m + 1)[t]]
          /\ [F(m) EXCEPT ![u] = v] = [t \in Token |-> IF t = u THEN v ELSE F(m)[t]]
      <4> HIDE DEF u, v
      <4> QED  OBVIOUS
    <3> HIDE DEF F, u, v
    <3> QED  BY <3>1, <3>2
  <2>9. SumOf([F(m) EXCEPT ![u] = v]) = SumOf(F(m)) + (v - F(m)[u])
    <3> HIDE DEF F, u, v
    <3> QED  BY <1>0, <2>3, <2>4, <2>5, SumUpdate
  <2>10. v = F(m)[u] + a
    OBVIOUS
  <2> HIDE DEF F, u, v, a
  <2> QED  BY <1>0, <2>2, <2>3, <2>4, <2>5, <2>6, <2>8, <2>9, <2>10
<1> HIDE DEF N
<1>4. N = Nat
  BY <1>2, <1>3, AllNumbers DEF N
<1>5. n \in Nat /\ n <= Len(q)
  BY <1>0
<1> QED
  BY <1>4, <1>5 DEF N

-----------------------------------------------------------------------------
(* The amounts of the plan.                                                *)

LEMMA Cancel ==
  ASSUME NEW d \in Nat \ {0}, NEW x \in Int, NEW y \in Int
  PROVE  /\ d * x <= d * y => x <= y
         /\ 2 * (d * x) <= 2 * (d * y) + d => x <= y
<1>1. d * y = d * x + d * (y - x)
  OBVIOUS
<1>2. x > y => d * (x - y) >= d
  OBVIOUS
<1>3. d * x \in Int /\ d * y \in Int /\ d * (x - y) \in Int /\ d * (y - x) = -(d * (x - y))
  OBVIOUS
<1> QED
  BY <1>1, <1>2, <1>3

\* What a deposit is of.
Deposit(w, t) ==
  IF Need(w) > WillHaveIdle(w)
  THEN Round(Delta(w, t) * WillHaveIdle(w), Need(w) * Total)
  ELSE Round(Delta(w, t), Total)

\* What the plan adds to a token.
Move(w, t) ==
  IF t \in OverSet(w) THEN -Round(-Delta(w, t), Total)
  ELSE IF t \in UnderSet(w) THEN Deposit(w, t) ELSE 0

\* How far from its weight a rotation may leave a token.
Slack == Total * (Band * (Len(Order) - 1) + 1)

LEMMA SlackBounds ==
  /\ Slack \in Nat /\ Total \in Nat \ {0} /\ Band * Total \in Nat
  /\ Slack = (Len(Order) - 1) * (Band * Total) + Total
  /\ Total <= Slack /\ Band * Total <= Slack
<1> DEFINE L == Len(Order)
           c == Band * Total
           e == (L - 1) * c
<1>1. Total \in Nat \ {0} /\ Band \in Nat /\ Cash \in Token /\ Token # {Cash}
  BY RotatorAssumption
<1>2. L \in Nat /\ L >= 2
  <2>1. PICK t \in Token : t # Cash
    BY <1>1
  <2>2. PICK i \in 1..L, k \in 1..L : Order[i] = t /\ Order[k] = Cash
    BY <1>1, Universe
  <2>3. i # k
    BY <2>1, <2>2
  <2> HIDE DEF L
  <2>4. L \in Nat
    BY Universe DEF L
  <2> QED  BY <2>2, <2>3, <2>4
<1>3. c \in Nat
  BY <1>1
<1>4. e \in Nat /\ c <= e
  <2> HIDE DEF c, L
  <2>1. e = c + (L - 2) * c /\ (L - 2) * c \in Nat
    BY <1>2, <1>3
  <2> HIDE DEF e
  <2> QED  BY <1>3, <2>1
<1>5. Slack = e + Total
  <2> DEFINE f == L - 1
  <2>1. f \in Nat
    BY <1>2
  <2> HIDE DEF L, f
  <2>2. Total * (Band * f + 1) = f * (Band * Total) + Total
    BY <1>1, <2>1
  <2> QED  BY <2>2 DEF f, L, Slack
<1> HIDE DEF e, c
<1>6. Slack \in Nat /\ Total <= Slack /\ c <= Slack
  BY <1>1, <1>3, <1>4, <1>5
<1> QED
  BY <1>1, <1>3, <1>5, <1>6 DEF c, e

LEMMA OverBounds ==
  ASSUME Holds, NEW w, Target(w), NEW t \in OverSet(w)
  PROVE  /\ Move(w, t) \in Int /\ Move(w, t) <= 0 /\ alloc[t] + Move(w, t) >= 0
         /\ 2 * (Total * Move(w, t)) <= (-2) * Abs(Delta(w, t)) + Total
         /\ Abs(Delta(w, t) - Total * Move(w, t)) <= Slack
<1> DEFINE n == -Delta(w, t)
           r == Round(n, Total)
           a == alloc[t]
           m == Move(w, t)
           T == Total
<1>1. t \in Token /\ Total \in Nat \ {0}
  BY RotatorAssumption DEF OverSet
<1>2. n \in Nat /\ n > 0 /\ n <= a * T /\ a \in Nat /\ Delta(w, t) = -n
  <2>1. Delta(w, t) \in Int /\ -Delta(w, t) <= a * T /\ Delta(w, t) < 0
    BY <1>1, DeltaBounds
  <2>2. a \in Nat
    BY <1>1 DEF Holds
  <2> QED  BY <2>1, <2>2
<1>3. /\ r \in Nat /\ 2 * (T * r) <= 2 * n + T /\ 2 * n < 2 * (T * r) + T
  BY <1>1, <1>2, RoundBounds
<1>4. m = -r
  BY DEF Move
<1>5. r <= a
  <2>1. a * T = T * a /\ a * T \in Nat /\ T * r \in Nat
    BY <1>1, <1>2, <1>3
  <2>2. 2 * (T * r) <= 2 * (T * a) + T
    <3> DEFINE x == T * r
               y == a * T
    <3>1. x \in Nat /\ y \in Nat /\ 2 * x <= 2 * n + T /\ n <= y /\ y = T * a
      BY <1>2, <1>3, <2>1
    <3>2. 2 * x <= 2 * y + T
      <4> HIDE DEF x, y
      <4> QED  BY <1>1, <1>2, <3>1
    <3> QED  BY <3>1, <3>2
  <2> QED  BY <1>1, <1>2, <1>3, <2>2, Cancel
<1> DEFINE x == T * r
<1>6. x \in Nat /\ T * m = -x /\ 2 * x <= 2 * n + T /\ 2 * n < 2 * x + T
  BY <1>1, <1>3, <1>4
<1>7. T <= Slack /\ Slack \in Nat
  BY SlackBounds
<1> HIDE DEF n, r, a, m, x
<1>8. m \in Int /\ m <= 0 /\ a + m >= 0
  BY <1>2, <1>3, <1>4, <1>5
<1>9. Abs(Delta(w, t)) = n
  BY <1>2 DEF Abs
<1>10. 2 * (T * m) <= (-2) * n + T
  BY <1>1, <1>2, <1>6
<1>11. Abs(Delta(w, t) - T * m) <= Slack
  BY <1>1, <1>2, <1>6, <1>7 DEF Abs
<1> QED
  BY <1>8, <1>9, <1>10, <1>11 DEF a, m

LEMMA UnderBounds ==
  ASSUME Holds, NEW w, Target(w), NEW t \in UnderSet(w)
  PROVE  /\ Move(w, t) \in Nat /\ alloc[t] + Move(w, t) >= 0
         /\ Need(w) > WillHaveIdle(w) =>
              2 * (Need(w) * Total) * Move(w, t)
                <= 2 * WillHaveIdle(w) * Abs(Delta(w, t)) + Need(w) * Total
         /\ ~ (Need(w) > WillHaveIdle(w)) =>
              2 * Total * Move(w, t) <= 2 * Abs(Delta(w, t)) + Total
         /\ Abs(Delta(w, t) - Total * Move(w, t)) <= Slack
<1> DEFINE d == Delta(w, t)
           m == Move(w, t)
           T == Total
           N == Need(w)
           H == WillHaveIdle(w)
           e == (Len(Order) - 1) * (Band * Total)
<1>1. t \in Token /\ T \in Nat \ {0} /\ alloc[t] \in Nat
  BY RotatorAssumption DEF UnderSet, Holds
<1>2. d \in Nat /\ d > 0 /\ Abs(d) = d
  <2>1. d \in Int /\ d > 0
    BY <1>1, DeltaBounds
  <2> QED  BY <2>1 DEF Abs
<1>3. N \in Nat /\ H \in Nat /\ d <= N /\ N - H <= e
  BY NeedHave
<1>4. m = Deposit(w, t)
  BY <1>2 DEF Move, OverSet
<1>5. /\ Slack = e + T /\ Slack \in Nat /\ e \in Int
  BY SlackBounds
<1>6. CASE ~ (N > H)
  <2>1. m = Round(d, T)
    BY <1>4, <1>6 DEF Deposit
  <2> DEFINE x == T * m
  <2>2. m \in Nat /\ 2 * x <= 2 * d + T /\ 2 * d < 2 * x + T
    BY <1>1, <1>2, <2>1, RoundBounds
  <2>3. x \in Nat /\ 2 * T * m = 2 * x
    BY <1>1, <2>2
  <2>4. T <= Slack
    BY SlackBounds
  <2> HIDE DEF d, m, N, H, e, x
  <2>5. Abs(d - x) <= Slack
    BY <1>1, <1>2, <1>5, <2>2, <2>3, <2>4 DEF Abs
  <2>6. alloc[t] + m >= 0
    BY <1>1, <2>2
  <2> QED  BY <1>2, <1>6, <2>2, <2>3, <2>5, <2>6 DEF d, m, N, H, x
<1>7. CASE N > H
  <2> DEFINE k == N * T
             n == d * H
  <2>1. N > 0 /\ k \in Nat \ {0} /\ n \in Nat
    <3>1. N > 0 /\ N \in Nat
      BY <1>3, <1>7
    <3> HIDE DEF N, H, d
    <3> QED  BY <1>1, <1>2, <1>3, <3>1
  <2>2. m = Round(n, k)
    BY <1>4, <1>7 DEF Deposit
  <2>3. m \in Nat /\ 2 * (k * m) <= 2 * n + k /\ 2 * n < 2 * (k * m) + k
    <3> HIDE DEF n, k, m
    <3> QED  BY <2>1, <2>2, RoundBounds
  <2> DEFINE x == T * m
  <2>4. x \in Nat /\ k * m = N * x
    <3> HIDE DEF N, H, d, m
    <3> QED  BY <1>1, <1>3, <2>3
  <2>5. 2 * (d - x) <= 2 * (N - H) + T
    <3>1. N * (2 * (d - x)) <= N * (2 * (N - H) + T)
      <4> DEFINE p == d * H
                 q == N * x
                 u == N * d
                 v == N * H
                 z == N * N
                 y == N * T
      <4>1. /\ p \in Int /\ q \in Int /\ u \in Int /\ v \in Int /\ z \in Int /\ y \in Int
            /\ 2 * q <= 2 * p + y /\ 2 * p < 2 * q + y
        <5>1. N \in Int /\ d \in Int /\ H \in Int /\ x \in Int /\ T \in Int
          BY <1>1, <1>2, <1>3, <2>4
        <5> HIDE DEF N, d, H, x
        <5> QED  BY <2>3, <2>4, <5>1
      <4>2. u - p <= z - v
        <5>1. (N - d) * (N - H) >= 0
          <6>1. N - d \in Nat /\ N - H \in Nat
            <7> HIDE DEF N, d, H
            <7> QED  BY <1>2, <1>3, <1>7
          <6> HIDE DEF N, d, H
          <6> QED  BY <6>1
        <5>2. (N - d) * (N - H) = ((z - v) - u) + p
          <6>1. N \in Int /\ d \in Int /\ H \in Int
            BY <1>2, <1>3
          <6> HIDE DEF N, d, H
          <6> QED  BY <6>1
        <5> HIDE DEF p, u, v, z
        <5> QED  BY <4>1, <5>1, <5>2
      <4>3. N * (2 * (d - x)) = 2 * u - 2 * q /\ N * (2 * (N - H) + T) = (2 * z - 2 * v) + y
        <5>1. N \in Int /\ d \in Int /\ H \in Int /\ x \in Int /\ T \in Int
          BY <1>1, <1>2, <1>3, <2>4
        <5> HIDE DEF N, d, H, x
        <5> QED  BY <5>1
      <4>4. 2 * u - 2 * q <= (2 * z - 2 * v) + y
        <5> HIDE DEF p, q, u, v, z, y
        <5> QED  BY <4>1, <4>2
      <4> QED  BY <4>3, <4>4
    <3>2. N \in Nat \ {0} /\ 2 * (d - x) \in Int /\ 2 * (N - H) + T \in Int
      <4> HIDE DEF N, d, H, x
      <4> QED  BY <1>1, <1>2, <1>3, <2>1, <2>4
    <3> DEFINE f == 2 * (d - x)
               g == 2 * (N - H) + T
    <3>3. f \in Int /\ g \in Int /\ N \in Nat \ {0} /\ N * f <= N * g
      BY <3>1, <3>2
    <3>4. f <= g
      <4> HIDE DEF f, g, N
      <4> QED  BY <3>3, Cancel
    <3> QED  BY <3>4
  <2>6. 2 * (x - d) <= T
    <3>1. N * (2 * (x - d)) <= N * T
      <4> DEFINE p == d * H
                 q == N * x
                 u == N * d
                 y == N * T
      <4>1. /\ p \in Int /\ q \in Int /\ u \in Int /\ y \in Int
            /\ 2 * q <= 2 * p + y
        <5>1. N \in Int /\ d \in Int /\ H \in Int /\ x \in Int /\ T \in Int
          BY <1>1, <1>2, <1>3, <2>4
        <5> HIDE DEF N, d, H, x
        <5> QED  BY <2>3, <2>4, <5>1
      <4>2. p <= u
        <5>1. d * (N - H) >= 0 /\ d * (N - H) = u - p
          <6>1. d \in Nat /\ N - H \in Nat /\ N \in Int /\ H \in Int
            <7> HIDE DEF N, d, H
            <7> QED  BY <1>2, <1>3, <1>7
          <6> HIDE DEF N, d, H
          <6> QED  BY <6>1
        <5> HIDE DEF p, u
        <5> QED  BY <4>1, <5>1
      <4>3. N * (2 * (x - d)) = 2 * q - 2 * u
        <5>1. N \in Int /\ d \in Int /\ x \in Int
          BY <1>2, <1>3, <2>4
        <5> HIDE DEF N, d, x
        <5> QED  BY <5>1
      <4>4. 2 * q - 2 * u <= y
        <5> HIDE DEF p, q, u, y
        <5> QED  BY <4>1, <4>2
      <4> QED  BY <4>3, <4>4
    <3> DEFINE f == 2 * (x - d)
    <3>2. f \in Int /\ N \in Nat \ {0} /\ N * f <= N * T
      <4>1. N \in Nat \ {0} /\ f \in Int
        <5> HIDE DEF N, d, x
        <5> QED  BY <1>2, <1>3, <2>1, <2>4
      <4> QED  BY <3>1, <4>1
    <3>3. f <= T
      <4> HIDE DEF f, N
      <4> QED  BY <1>1, <3>2, Cancel
    <3> QED  BY <3>3
  <2>7. 2 * k * m <= 2 * H * d + k
    <3>1. 2 * k * m = 2 * (k * m) /\ 2 * H * d = 2 * n
      <4>1. k \in Int /\ m \in Int /\ H \in Int /\ d \in Int
        BY <1>2, <1>3, <2>1, <2>3
      <4> HIDE DEF k, m, H, d
      <4> QED  BY <4>1
    <3> QED  BY <2>3, <3>1
  <2> HIDE DEF d, m, N, H, e, x
  <2>8. Abs(d - x) <= Slack
    <3>1. T <= Slack /\ Slack \in Nat /\ T \in Nat /\ e \in Int /\ Slack = e + T
      BY <1>1, <1>5, SlackBounds
    <3>2. d \in Int /\ x \in Int /\ N \in Int /\ H \in Int /\ N - H <= e
      BY <1>2, <1>3, <2>4
    <3> HIDE DEF T
    <3>3. d - x <= Slack
      BY <2>5, <3>1, <3>2
    <3>4. x - d <= Slack
      BY <2>6, <3>1, <3>2
    <3> QED  BY <3>1, <3>2, <3>3, <3>4 DEF Abs
  <2>9. alloc[t] + m >= 0
    BY <1>1, <2>3
  <2> QED  BY <1>2, <1>7, <2>3, <2>7, <2>8, <2>9 DEF d, m, N, H, x
<1> QED
  BY <1>6, <1>7

-----------------------------------------------------------------------------
(* The plan as a sequence of steps.                                        *)

LEMMA Sides ==
  \A w : /\ Over(w) = InOrder(OverSet(w)) /\ Under(w) = InOrder(UnderSet(w))
          /\ OverSet(w) \in SUBSET Token /\ UnderSet(w) \in SUBSET Token
BY DEF Over, Under, OverSet, UnderSet

LEMMA SidesApart ==
  ASSUME Holds, NEW w, Target(w)
  PROVE  OverSet(w) \cap UnderSet(w) = {}
<1>1. ASSUME NEW t \in Token, t \in OverSet(w), t \in UnderSet(w) PROVE FALSE
  <2>1. Delta(w, t) \in Int /\ Delta(w, t) < 0 /\ Delta(w, t) > 0
    BY <1>1, DeltaBounds
  <2> QED  BY <2>1
<1> QED
  BY <1>1, Sides

\* One side of the plan: a step for each of its tokens, once.
SideOf(q, S, w) ==
  /\ q \in Seq(Step)
  /\ \A i \in 1..Len(q) : q[i].token \in S /\ q[i].amount = Move(w, q[i].token)
  /\ \A i, k \in 1..Len(q) : q[i].token = q[k].token => i = k
  /\ \A t \in S : \E i \in 1..Len(q) : q[i].token = t

LEMMA OverSide ==
  ASSUME Holds, NEW w, Target(w)
  PROVE  /\ SideOf(Withdraws(w), OverSet(w), w)
         /\ Len(Withdraws(w)) = Len(Over(w))
         /\ \A i \in 1..Len(Over(w)) : Withdraws(w)[i].token = Over(w)[i]
<1> DEFINE q == Over(w)
           S == OverSet(w)
           r == Withdraws(w)
<1>1. /\ q \in Seq(S) /\ S \in SUBSET Token
      /\ \A t \in S : \E i \in 1..Len(q) : q[i] = t
      /\ \A i, k \in 1..Len(q) : q[i] = q[k] => i = k
  BY Sides, Ordered
<1>2. Len(q) \in Nat /\ \A i \in 1..Len(q) : q[i] \in S
  BY <1>1
<1>3. \A t \in S : -Round(-Delta(w, t), Total) = Move(w, t) /\ Move(w, t) \in Int
  BY OverBounds DEF Move
<1>4. r = [i \in 1..Len(q) |-> [token |-> q[i], amount |-> -Round(-Delta(w, q[i]), Total)]]
  BY DEF Withdraws
<1>5. \A i \in 1..Len(q) : r[i].token = q[i] /\ r[i].amount = Move(w, q[i])
  BY <1>2, <1>3, <1>4
<1>6. \A i \in 1..Len(q) : r[i] \in Step
  <2> TAKE i \in 1..Len(q)
  <2> DEFINE m == -Round(-Delta(w, q[i]), Total)
  <2>1. q[i] \in S /\ q[i] \in Token
    <3> HIDE DEF q, S
    <3> QED  BY <1>1, <1>2
  <2>2. m \in Int
    BY <1>3, <2>1
  <2>3. r[i] = [token |-> q[i], amount |-> m]
    <3> HIDE DEF q, r
    <3> QED  BY <1>4
  <2> HIDE DEF m, q, r
  <2> QED  BY <2>1, <2>2, <2>3 DEF Step
<1>7. r \in Seq(Step) /\ Len(r) = Len(q)
  <2>1. r \in [1..Len(q) -> Step]
    BY <1>4, <1>6
  <2> HIDE DEF q, r
  <2> QED  BY <1>2, <2>1
<1> HIDE DEF q, r, S
<1>8. SideOf(r, S, w)
  BY <1>1, <1>2, <1>5, <1>7 DEF SideOf
<1> QED
  BY <1>5, <1>7, <1>8 DEF q, r, S

LEMMA UnderSide ==
  ASSUME Holds, NEW w, Target(w)
  PROVE  /\ SideOf(Deposits(w), UnderSet(w), w)
         /\ Len(Deposits(w)) = Len(Under(w))
         /\ \A i \in 1..Len(Under(w)) : Deposits(w)[i].token = Under(w)[i]
<1> DEFINE q == Under(w)
           S == UnderSet(w)
           r == Deposits(w)
<1>1. /\ q \in Seq(S) /\ S \in SUBSET Token
      /\ \A t \in S : \E i \in 1..Len(q) : q[i] = t
      /\ \A i, k \in 1..Len(q) : q[i] = q[k] => i = k
  BY Sides, Ordered
<1>2. Len(q) \in Nat /\ \A i \in 1..Len(q) : q[i] \in S
  BY <1>1
<1>3. \A t \in S : Deposit(w, t) = Move(w, t) /\ Move(w, t) \in Int
  BY SidesApart, UnderBounds DEF Move
<1>4. r = [i \in 1..Len(q) |-> [token |-> q[i], amount |-> Deposit(w, q[i])]]
  BY DEF Deposits, Deposit, Need
<1>5. \A i \in 1..Len(q) : r[i].token = q[i] /\ r[i].amount = Move(w, q[i])
  BY <1>2, <1>3, <1>4
<1>6. \A i \in 1..Len(q) : r[i] \in Step
  <2> TAKE i \in 1..Len(q)
  <2> DEFINE m == Deposit(w, q[i])
  <2>1. q[i] \in S /\ q[i] \in Token
    <3> HIDE DEF q, S
    <3> QED  BY <1>1, <1>2
  <2>2. m \in Int
    BY <1>3, <2>1
  <2>3. r[i] = [token |-> q[i], amount |-> m]
    <3> HIDE DEF q, r
    <3> QED  BY <1>4
  <2> HIDE DEF m, q, r
  <2> QED  BY <2>1, <2>2, <2>3 DEF Step
<1>7. r \in Seq(Step) /\ Len(r) = Len(q)
  <2>1. r \in [1..Len(q) -> Step]
    BY <1>4, <1>6
  <2> HIDE DEF q, r
  <2> QED  BY <1>2, <2>1
<1> HIDE DEF q, r, S
<1>8. SideOf(r, S, w)
  BY <1>1, <1>2, <1>5, <1>7 DEF SideOf
<1> QED
  BY <1>5, <1>7, <1>8 DEF q, r, S

LEMMA PlanSide ==
  ASSUME Holds, NEW w, Target(w)
  PROVE  LET a == Len(Withdraws(w))
             b == Len(Deposits(w))
         IN  /\ SideOf(Plan(w), OverSet(w) \cup UnderSet(w), w)
             /\ a \in Nat /\ b \in Nat /\ Len(Plan(w)) = a + b /\ a + b <= Len(Order)
             /\ \A i \in 1..a : Plan(w)[i] = Withdraws(w)[i]
             /\ \A k \in 1..b : Plan(w)[a + k] = Deposits(w)[k]
<1> DEFINE q == Withdraws(w)
           r == Deposits(w)
           p == Plan(w)
           a == Len(q)
           b == Len(r)
           S == OverSet(w)
           U == UnderSet(w)
<1>1. SideOf(q, S, w) /\ SideOf(r, U, w) /\ S \cap U = {}
  BY OverSide, UnderSide, SidesApart
<1>2. a + b <= Len(Order)
  BY OverSide, UnderSide, SidesApart, Sides, OrderedTogether
<1>3. q \in Seq(Step) /\ r \in Seq(Step) /\ p = q \o r
  BY <1>1 DEF SideOf, Plan
<1> HIDE DEF q, r, p, S, U
<1>4. /\ p \in Seq(Step) /\ a \in Nat /\ b \in Nat /\ Len(p) = a + b
      /\ \A i \in 1..a : p[i] = q[i]
      /\ \A k \in 1..b : p[a + k] = r[k]
  <2>1. p \in Seq(Step) /\ Len(p) = a + b /\ a \in Nat /\ b \in Nat
    BY <1>3
  <2>2. \A i \in 1..a : p[i] = q[i]
    BY <1>3
  <2>3. \A k \in 1..b : p[a + k] = r[k]
    <3> TAKE k \in 1..b
    <3>1. a + k \in 1..(a + b) /\ a + k > a /\ (a + k) - a = k
      BY <2>1
    <3> QED  BY <1>3, <2>1, <3>1
  <2> QED  BY <2>1, <2>2, <2>3
<1> HIDE DEF a, b
<1>5. \A i \in 1..(a + b) : i \in 1..a \/ \E k \in 1..b : i = a + k
  <2> TAKE i \in 1..(a + b)
  <2>1. i \in Int /\ (i <= a \/ (i - a \in 1..b /\ i = a + (i - a)))
    BY <1>4
  <2> QED  BY <1>4, <2>1
<1>6. /\ \A i \in 1..a : q[i].token \in S /\ q[i].amount = Move(w, q[i].token)
      /\ \A k \in 1..b : r[k].token \in U /\ r[k].amount = Move(w, r[k].token)
      /\ \A i, k \in 1..a : q[i].token = q[k].token => i = k
      /\ \A i, k \in 1..b : r[i].token = r[k].token => i = k
      /\ \A t \in S : \E i \in 1..a : q[i].token = t
      /\ \A t \in U : \E i \in 1..b : r[i].token = t
  BY <1>1 DEF SideOf, a, b
<1>7. /\ \A i \in 1..a : i \in 1..(a + b)
      /\ \A k \in 1..b : a + k \in 1..(a + b)
  BY <1>4
<1>8. \A i \in 1..(a + b) : p[i].token \in S \cup U /\ p[i].amount = Move(w, p[i].token)
  <2> TAKE i \in 1..(a + b)
  <2>1. CASE i \in 1..a
    BY <1>4, <1>6, <2>1
  <2>2. ASSUME NEW k \in 1..b, i = a + k
        PROVE  p[i].token \in S \cup U /\ p[i].amount = Move(w, p[i].token)
    <3>1. p[i] = r[k]
      BY <1>4, <2>2
    <3> QED  BY <1>6, <3>1
  <2> QED  BY <1>5, <2>1, <2>2
<1>9. ASSUME NEW i \in 1..(a + b), NEW k \in 1..(a + b), p[i].token = p[k].token
      PROVE  i = k
  <2>1. CASE i \in 1..a /\ k \in 1..a
    BY <1>4, <1>6, <1>9, <2>1
  <2>2. CASE i \in 1..a /\ k \notin 1..a
    <3>1. PICK l \in 1..b : k = a + l
      BY <1>5, <2>2
    <3>2. p[i].token \in S /\ p[k].token \in U
      BY <1>4, <1>6, <2>2, <3>1
    <3> QED  BY <1>1, <1>9, <3>2
  <2>3. CASE i \notin 1..a /\ k \in 1..a
    <3>1. PICK j \in 1..b : i = a + j
      BY <1>5, <2>3
    <3>2. p[k].token \in S /\ p[i].token \in U
      BY <1>4, <1>6, <2>3, <3>1
    <3> QED  BY <1>1, <1>9, <3>2
  <2>4. CASE i \notin 1..a /\ k \notin 1..a
    <3>1. PICK j \in 1..b, l \in 1..b : i = a + j /\ k = a + l
      BY <1>5, <2>4
    <3>2. r[j].token = r[l].token
      BY <1>4, <1>9, <3>1
    <3>3. j = l
      BY <1>6, <3>2
    <3> QED  BY <3>1, <3>3
  <2> QED  BY <2>1, <2>2, <2>3, <2>4
<1>10. \A t \in S \cup U : \E i \in 1..(a + b) : p[i].token = t
  <2> TAKE t \in S \cup U
  <2>1. CASE t \in S
    <3>1. PICK i \in 1..a : q[i].token = t
      BY <1>6, <2>1
    <3>2. p[i].token = t
      BY <1>4, <3>1
    <3> QED  BY <1>7, <3>2
  <2>2. CASE t \in U
    <3>1. PICK k \in 1..b : r[k].token = t
      BY <1>6, <2>2
    <3>2. p[a + k].token = t
      BY <1>4, <3>1
    <3> QED  BY <1>7, <3>2
  <2> QED  BY <2>1, <2>2
<1>11. SideOf(p, S \cup U, w)
  BY <1>4, <1>8, <1>9, <1>10 DEF SideOf
<1> QED
  BY <1>2, <1>4, <1>11 DEF a, b, q, r, p, S, U

\* What the steps of a side are meant to move.
Wants(q, w) == [i \in 1..Len(q) |-> Abs(Delta(w, q[i].token))]

LEMMA WantsWhole ==
  ASSUME Holds, NEW w, Target(w)
  PROVE  /\ SumUpTo(Wants(Withdraws(w), w), Len(Withdraws(w))) = SumOver(w, Over(w))
         /\ SumUpTo(Wants(Deposits(w), w), Len(Deposits(w))) = Need(w)
<1>1. ASSUME NEW q, NEW s, Len(q) = Len(s), \A i \in 1..Len(s) : q[i].token = s[i]
      PROVE  SumUpTo(Wants(q, w), Len(q)) = SumOver(w, s)
  <2>1. [i \in 1..Len(q) |-> Wants(q, w)[i]] = [i \in 1..Len(s) |-> Abs(Delta(w, s[i]))]
    BY <1>1 DEF Wants
  <2> QED  BY <2>1 DEF SumUpTo, SumOver
<1> QED
  BY <1>1, OverSide, UnderSide DEF Need

\* The withdrawals give back what they are meant to, but for the rounding.
LEMMA WithdrawsGive ==
  ASSUME Holds, NEW w, Target(w)
  PROVE  /\ \A n \in 0..Len(Withdraws(w)) : Spends(Withdraws(w), n) <= 0
         /\ (2 * Total) * Spends(Withdraws(w), Len(Withdraws(w)))
              <= (-2) * SumOver(w, Over(w)) + Len(Withdraws(w)) * Total
<1> DEFINE q == Withdraws(w)
           a == Len(q)
           F == Amounts(q)
           G == Wants(q, w)
           T == Total
           c == 2 * T
           z == 0
<1>1. SideOf(q, OverSet(w), w) /\ q \in Seq(Step) /\ T \in Nat /\ a \in Nat
  <2>1. SideOf(q, OverSet(w), w) /\ T \in Nat
    BY RotatorAssumption, OverSide
  <2> QED  BY <2>1 DEF SideOf
<1>2. ASSUME NEW i \in 1..a
      PROVE  /\ F[i] \in Int /\ G[i] \in Int /\ F[i] <= 0
             /\ c * F[i] <= (-2) * G[i] + T
  <2> DEFINE t == q[i].token
             m == Move(w, t)
  <2>1. t \in OverSet(w) /\ F[i] = m /\ G[i] = Abs(Delta(w, t))
    BY <1>1 DEF SideOf, Amounts, Wants
  <2>2. t \in Token
    BY <2>1, Sides
  <2>3. /\ m \in Int /\ m <= 0
        /\ 2 * (T * m) <= (-2) * Abs(Delta(w, t)) + T
    BY <2>1, OverBounds
  <2>4. Abs(Delta(w, t)) \in Int
    BY <2>2, DeltaBounds
  <2>5. c * m = 2 * (T * m)
    <3> HIDE DEF m, T
    <3> QED  BY <1>1, <2>3
  <2> HIDE DEF F, G, m, c
  <2> QED  BY <2>1, <2>3, <2>4, <2>5
<1> HIDE DEF q, a, F, G, c
<1>3. Bounded(a, 1, F, z, G, z)
  BY <1>2 DEF Bounded
<1>4. Bounded(a, c, F, -2, G, T)
  BY <1>2 DEF Bounded
<1>5. /\ 1 \in Int /\ z \in Int /\ -2 \in Int /\ T \in Int
      /\ c \in Int
  BY <1>1 DEF c
<1>6. \A n \in 0..a : 1 * SumUpTo(F, n) <= z * SumUpTo(G, n) + n * z
  <2> HIDE DEF z
  <2> QED  BY <1>1, <1>3, <1>5, UpToBound
<1>7. \A n \in 0..a : c * SumUpTo(F, n) <= (-2) * SumUpTo(G, n) + n * T
  <2> HIDE DEF T
  <2> QED  BY <1>1, <1>4, <1>5, UpToBound
<1>8. \A n \in 0..a : SumUpTo(F, n) \in Int /\ SumUpTo(G, n) \in Int /\ Spends(q, n) = SumUpTo(F, n)
  <2> TAKE n \in 0..a
  <2>1. n \in Nat /\ \A i \in 1..n : F[i] \in Int /\ G[i] \in Int
    BY <1>1, <1>2
  <2>2. SumUpTo(F, n) \in Int /\ SumUpTo(G, n) \in Int
    BY <2>1, UpToType
  <2>3. Spends(q, n) = SumUpTo(F, n)
    BY <1>1, AsSums DEF F, a
  <2> QED  BY <2>2, <2>3
<1>9. \A n \in 0..a : Spends(q, n) <= 0
  <2> TAKE n \in 0..a
  <2>1. 1 * SumUpTo(F, n) <= 0 * SumUpTo(G, n) + n * 0 /\ n \in Int
    BY <1>6
  <2> QED  BY <1>8, <2>1
<1>10. SumUpTo(G, a) = SumOver(w, Over(w))
  BY WantsWhole DEF a, q, G
<1>11. a \in 0..a
  BY <1>1
<1> QED
  BY <1>7, <1>8, <1>9, <1>10, <1>11 DEF a, q, c

\* The deposits take no more than there will be, but for the rounding.
LEMMA DepositsFit ==
  ASSUME Holds, NEW w, Target(w)
  PROVE  \A n \in 0..Len(Deposits(w)) :
           (2 * Total) * Spends(Deposits(w), n) <= 2 * WillHaveIdle(w) + n * Total
<1> DEFINE r == Deposits(w)
           b == Len(r)
           F == Amounts(r)
           G == Wants(r, w)
           T == Total
           N == Need(w)
           H == WillHaveIdle(w)
           p == IF N > H THEN 2 * (N * T) ELSE 2 * T
           k == IF N > H THEN 2 * H ELSE 2
           c == IF N > H THEN N * T ELSE T
<1>1. /\ SideOf(r, UnderSet(w), w) /\ r \in Seq(Step) /\ T \in Nat /\ b \in Nat
      /\ N \in Nat /\ H \in Nat
  <2>1. SideOf(r, UnderSet(w), w) /\ T \in Nat
    BY RotatorAssumption, UnderSide
  <2> QED  BY <2>1, NeedHave DEF SideOf
<1>2. ASSUME NEW i \in 1..b
      PROVE  F[i] \in Int /\ G[i] \in Nat /\ p * F[i] <= k * G[i] + c
  <2> DEFINE t == r[i].token
             m == Move(w, t)
             d == Abs(Delta(w, t))
  <2>1. t \in UnderSet(w) /\ F[i] = m /\ G[i] = d
    BY <1>1 DEF SideOf, Amounts, Wants
  <2>2. t \in Token
    BY <2>1, Sides
  <2>3. /\ m \in Nat
        /\ N > H => 2 * (N * T) * m <= 2 * H * d + N * T
        /\ ~ (N > H) => 2 * T * m <= 2 * d + T
    BY <2>1, UnderBounds
  <2>4. d \in Nat
    BY <2>2, DeltaBounds
  <2>5. p * m <= k * d + c
    <3>1. CASE N > H
      BY <2>3, <3>1
    <3>2. CASE ~ (N > H)
      BY <2>3, <3>2
    <3> QED  BY <3>1, <3>2
  <2> HIDE DEF F, G, m, d, c, p, k
  <2> QED  BY <2>1, <2>3, <2>4, <2>5
<1> HIDE DEF r, b, F, G
<1>3. p \in Int /\ k \in Int /\ c \in Int
  <2> HIDE DEF N, H
  <2> QED  BY <1>1
<1>4. \A n \in 0..b : p * SumUpTo(F, n) <= k * SumUpTo(G, n) + n * c
  <2> HIDE DEF p, k, c
  <2>1. Bounded(b, p, F, k, G, c)
    BY <1>2 DEF Bounded
  <2> QED  BY <1>1, <1>3, <2>1, UpToBound
<1>5. \A n \in 0..b : /\ SumUpTo(F, n) \in Int /\ SumUpTo(G, n) \in Int
                      /\ Spends(r, n) = SumUpTo(F, n)
  <2> TAKE n \in 0..b
  <2>1. n \in Nat /\ \A i \in 1..n : F[i] \in Int /\ G[i] \in Int
    <3>1. n \in Nat /\ \A i \in 1..n : i \in 1..b
      BY <1>1
    <3> HIDE DEF p, k, c
    <3> QED  BY <1>2, <3>1
  <2>2. SumUpTo(F, n) \in Int /\ SumUpTo(G, n) \in Int
    BY <2>1, UpToType
  <2>3. Spends(r, n) = SumUpTo(F, n)
    BY <1>1, AsSums DEF F, b
  <2> QED  BY <2>2, <2>3
<1>6. SumUpTo(G, b) = N
  BY WantsWhole DEF b, r, G
<1>7. \A n \in 0..b : SumUpTo(G, n) <= N /\ 0 <= SumUpTo(G, n)
  <2> HIDE DEF p, k, c
  <2>1. \A i \in 1..b : G[i] \in Nat
    BY <1>2
  <2> HIDE DEF N
  <2> QED  BY <1>1, <1>6, <2>1, UpToGrows
<1> SUFFICES ASSUME NEW n \in 0..b
             PROVE  (2 * T) * Spends(r, n) <= 2 * H + n * T
  BY DEF b, r
<1> DEFINE s == Spends(r, n)
           g == SumUpTo(G, n)
<1>8. /\ s \in Int /\ g \in Int /\ g <= N /\ n \in Nat
      /\ p * s <= k * g + n * c
  BY <1>1, <1>4, <1>5, <1>7
<1>9. CASE ~ (N > H)
  <2>1. (2 * T) * s <= 2 * g + n * T
    BY <1>8, <1>9
  <2> DEFINE x == (2 * T) * s
             y == n * T
  <2>2. x \in Int /\ y \in Int /\ x <= 2 * g + y
    BY <1>1, <1>8, <2>1
  <2> HIDE DEF x, y, N, H, g, s
  <2>3. x <= 2 * H + y
    BY <1>1, <1>8, <1>9, <2>2
  <2> QED  BY <2>3 DEF x, y, s
<1>10. CASE N > H
  <2> HIDE DEF N, H, g, s, T
  <2>1. (2 * (N * T)) * s <= (2 * H) * g + n * (N * T)
    BY <1>8, <1>10
  <2> DEFINE x == (2 * T) * s
             y == 2 * H + n * T
  <2>2. (2 * (N * T)) * s = N * x
    BY <1>1, <1>8
  <2>3. H * g <= H * N
    <3>1. H * (N - g) >= 0 /\ H * (N - g) = H * N - H * g
      <4>1. N - g \in Nat
        BY <1>1, <1>8
      <4>2. H * (N - g) \in Nat
        BY <1>1, <4>1
      <4>3. H * (N - g) = H * N - H * g
        BY <1>1, <1>8
      <4> QED  BY <4>2, <4>3
    <3>2. H * N \in Int /\ H * g \in Int
      BY <1>1, <1>8
    <3> QED  BY <3>1, <3>2
  <2>4. N * y = 2 * (H * N) + n * (N * T) /\ (2 * H) * g = 2 * (H * g)
    BY <1>1, <1>8
  <2>5. N * x <= N * y
    <3> DEFINE u == n * (N * T)
               v == H * g
               z == H * N
               e == N * x
    <3>1. u \in Int /\ v \in Int /\ z \in Int /\ e \in Int
      BY <1>1, <1>8
    <3>2. e <= 2 * v + u /\ v <= z /\ N * y = 2 * z + u
      BY <2>1, <2>2, <2>3, <2>4
    <3> HIDE DEF u, v, z, y, x, e
    <3>3. e <= 2 * z + u
      BY <3>1, <3>2
    <3> QED  BY <3>2, <3>3 DEF e
  <2>6. N \in Nat \ {0} /\ x \in Int /\ y \in Int
    BY <1>1, <1>8, <1>10
  <2>7. x <= y
    <3> HIDE DEF x, y
    <3> QED  BY <2>5, <2>6, Cancel
  <2> QED  BY <2>7 DEF s, T, H
<1> QED
  BY <1>9, <1>10

\* Some steps can all be carried out, in their order and whatever the chunks,
\* but for the rounding of idle.
Funded(q) ==
  \A n \in 0..Len(q) :
    /\ 2 * (Spends(q, n) - idle) <= Len(Order)
    /\ \A t \in Token : alloc[t] + Moves(q, n, t) >= 0

\* Carried out, they bring the vault to a target.
Reaches(q, w) ==
  \A t \in Token : Abs(Delta(w, t) - Total * Moves(q, Len(q), t)) <= Slack

LEMMA PlanFits ==
  ASSUME Holds, NEW w, Target(w), NEW n \in 0..Len(Plan(w))
  PROVE  2 * (Spends(Plan(w), n) - idle) <= Len(Order)
<1> DEFINE p == Plan(w)
           q == Withdraws(w)
           r == Deposits(w)
           a == Len(q)
           b == Len(r)
           T == Total
           L == Len(Order)
           O == SumOver(w, Over(w))
           H == WillHaveIdle(w)
<1>1. /\ p \in Seq(Step) /\ q \in Seq(Step) /\ r \in Seq(Step)
      /\ a \in Nat /\ b \in Nat /\ Len(p) = a + b /\ a + b <= L
      /\ \A i \in 1..a : p[i] = q[i]
      /\ \A k \in 1..b : p[a + k] = r[k]
  <2>1. SideOf(q, OverSet(w), w) /\ SideOf(r, UnderSet(w), w)
    BY OverSide, UnderSide
  <2>2. q \in Seq(Step) /\ r \in Seq(Step)
    BY <2>1 DEF SideOf
  <2>3. /\ SideOf(p, OverSet(w) \cup UnderSet(w), w)
        /\ a \in Nat /\ b \in Nat /\ Len(p) = a + b /\ a + b <= L
        /\ \A i \in 1..a : p[i] = q[i]
        /\ \A k \in 1..b : p[a + k] = r[k]
    BY PlanSide
  <2>4. p \in Seq(Step)
    BY <2>3 DEF SideOf
  <2> QED  BY <2>2, <2>3, <2>4
<1>2. T \in Nat \ {0} /\ L \in Nat /\ idle \in Nat /\ O \in Nat /\ H = idle * T + O
  BY RotatorAssumption, Universe, NeedHave DEF Holds
<1>3. /\ \A m \in 0..a : Spends(q, m) <= 0
      /\ (2 * T) * Spends(q, a) <= (-2) * O + a * T
  BY WithdrawsGive
<1>4. \A m \in 0..b : (2 * T) * Spends(r, m) <= 2 * H + m * T
  BY DepositsFit
<1> HIDE DEF p, q, r, T, L, O, H
<1>5. CASE n <= a
  <2>1. n \in Nat /\ n \in 0..a /\ n \in 0..Len(q)
    BY <1>1, <1>5 DEF p
  <2>2. Spends(p, n) = Spends(q, n)
    <3>1. \A i \in 1..n : p[i] = q[i]
      BY <1>1, <2>1
    <3> QED  BY <2>1, <3>1, StepsSame
  <2>3. Spends(q, n) \in Int /\ Spends(q, n) <= 0
    BY <1>1, <1>3, <2>1, AsSums
  <2>4. 2 * (Spends(p, n) - idle) <= L
    BY <1>2, <2>2, <2>3
  <2> QED  BY <2>4 DEF p, L
<1>6. CASE ~ (n <= a)
  <2> DEFINE m == n - a
  <2>1. n \in Nat /\ n = a + m /\ m \in 0..b /\ m \in Nat
    BY <1>1, <1>6 DEF p
  <2>2. Spends(p, a + m) = Spends(p, a) + Spends(r, m)
    <3>1. a + Len(r) = Len(p)
      BY <1>1
    <3> HIDE DEF m
    <3> QED  BY <1>1, <2>1, <3>1, StepsShift
  <2>3. Spends(p, a) = Spends(q, a)
    BY <1>1, StepsSame
  <2>4. a \in 0..Len(q) /\ m \in 0..Len(r)
    BY <1>1, <2>1
  <2> DEFINE x == Spends(q, a)
             y == Spends(r, m)
             e == idle * T
             u == a * T
             v == m * T
             X == (2 * T) * x
             Y == (2 * T) * y
  <2>5. x \in Int /\ y \in Int
    BY <1>1, <2>4, AsSums
  <2>6. /\ e \in Int /\ u \in Int /\ v \in Int /\ X \in Int /\ Y \in Int
        /\ X <= (-2) * O + u /\ Y <= 2 * H + v /\ H = e + O
    <3> HIDE DEF m
    <3> QED  BY <1>1, <1>2, <1>3, <1>4, <2>1, <2>5
  <2>7. T * (2 * ((x + y) - idle)) = (X + Y) - 2 * e /\ T * (a + m) = u + v
    <3> HIDE DEF m, x, y, a
    <3> QED  BY <1>1, <1>2, <2>1, <2>5
  <2>8. (X + Y) - 2 * e <= u + v
    <3> HIDE DEF X, Y, e, u, v
    <3> QED  BY <1>2, <2>6
  <2> DEFINE f == 2 * ((x + y) - idle)
             g == a + m
  <2>9. f \in Int /\ g \in Int /\ T * f <= T * g
    <3>1. f \in Int /\ g \in Int
      <4> HIDE DEF m, x, y
      <4> QED  BY <1>1, <1>2, <2>1, <2>5
    <3> QED  BY <2>7, <2>8, <3>1
  <2>10. f <= g
    <3> HIDE DEF f, g
    <3> QED  BY <1>2, <2>9, Cancel
  <2>11. g <= L
    BY <1>1, <1>2, <2>1
  <2>12. f <= L
    <3> HIDE DEF f, g
    <3> QED  BY <1>2, <2>9, <2>10, <2>11
  <2>13. Spends(p, n) = x + y
    BY <2>1, <2>2, <2>3
  <2>14. 2 * (Spends(p, n) - idle) <= L
    <3> HIDE DEF x, y
    <3> QED  BY <2>12, <2>13
  <2> QED  BY <2>14 DEF p, L
<1> QED
  BY <1>5, <1>6

\* A token's step is its own.
LEMMA PlanMoves ==
  ASSUME Holds, NEW w, Target(w), NEW t \in Token, NEW n \in 0..Len(Plan(w))
  PROVE  /\ \/ Moves(Plan(w), n, t) = 0
            \/ /\ t \in OverSet(w) \cup UnderSet(w)
               /\ Moves(Plan(w), n, t) = Move(w, t)
         /\ n = Len(Plan(w)) => Moves(Plan(w), n, t) = Move(w, t)
<1> DEFINE p == Plan(w)
           S == OverSet(w) \cup UnderSet(w)
<1>1. SideOf(p, S, w) /\ Len(p) \in Nat
  BY PlanSide
<1>2. p \in Seq(Step) /\ \A i, k \in 1..Len(p) : p[i].token = p[k].token => i = k
  BY <1>1 DEF SideOf
<1>3. /\ \A i \in 1..n : p[i].token = t => Moves(p, n, t) = p[i].amount
      /\ (\A i \in 1..n : p[i].token # t) => Moves(p, n, t) = 0
  <2> HIDE DEF p
  <2> QED  BY <1>2, MovesOnce DEF p
<1>4. \A i \in 1..n : i \in 1..Len(p)
  BY <1>1
<1>5. \A i \in 1..n : p[i].token = t => t \in S /\ Moves(p, n, t) = Move(w, t)
  <2> HIDE DEF p, S
  <2> QED  BY <1>1, <1>3, <1>4 DEF SideOf
<1>6. ASSUME n = Len(p) PROVE Moves(p, n, t) = Move(w, t)
  <2>1. CASE t \in S
    <3> HIDE DEF p, S
    <3> QED  BY <1>1, <1>5, <1>6, <2>1 DEF SideOf
  <2>2. CASE t \notin S
    <3>1. Move(w, t) = 0
      BY <2>2 DEF Move
    <3>2. \A i \in 1..n : p[i].token # t
      BY <1>5, <2>2
    <3> QED  BY <1>3, <3>1, <3>2
  <2> QED  BY <2>1, <2>2
<1>7. Moves(p, n, t) = 0 \/ (t \in S /\ Moves(p, n, t) = Move(w, t))
  <2> HIDE DEF p, S
  <2> QED  BY <1>3, <1>5
<1> QED
  BY <1>6, <1>7

LEMMA PlanWorks ==
  ASSUME Holds, NEW w, Target(w)
  PROVE  Plan(w) \in Seq(Step) /\ Funded(Plan(w)) /\ Reaches(Plan(w), w)
<1>1. Plan(w) \in Seq(Step)
  BY PlanSide DEF SideOf
<1>2. ASSUME NEW n \in 0..Len(Plan(w)), NEW t \in Token
      PROVE  alloc[t] + Moves(Plan(w), n, t) >= 0
  <2>1. alloc[t] \in Nat
    BY DEF Holds
  <2>2. CASE Moves(Plan(w), n, t) = 0
    BY <2>1, <2>2
  <2>3. CASE t \in OverSet(w) /\ Moves(Plan(w), n, t) = Move(w, t)
    BY <2>3, OverBounds
  <2>4. CASE t \in UnderSet(w) /\ Moves(Plan(w), n, t) = Move(w, t)
    BY <2>4, UnderBounds
  <2> QED  BY <1>2, <2>2, <2>3, <2>4, PlanMoves
<1>3. Funded(Plan(w))
  BY <1>2, PlanFits DEF Funded
<1>4. ASSUME NEW t \in Token
      PROVE  Abs(Delta(w, t) - Total * Moves(Plan(w), Len(Plan(w)), t)) <= Slack
  <2> DEFINE p == Plan(w)
             m == Moves(p, Len(p), t)
  <2>1. m = Move(w, t)
    <3>1. Len(p) \in 0..Len(p)
      BY <1>1
    <3> QED  BY <3>1, PlanMoves
  <2>2. CASE t \in OverSet(w)
    BY <2>1, <2>2, OverBounds
  <2>3. CASE t \in UnderSet(w)
    BY <2>1, <2>3, UnderBounds
  <2>4. CASE t \notin OverSet(w) \cup UnderSet(w)
    <3> DEFINE d == Delta(w, t)
               c == Band * Total
    <3>1. d \in Int /\ -d <= c /\ d <= c
      BY <2>4, DeltaBounds
    <3>2. Slack \in Nat /\ c \in Nat /\ c <= Slack /\ Total \in Nat
      BY SlackBounds
    <3>3. Total * m = 0
      BY <2>1, <2>4, <3>2 DEF Move
    <3> HIDE DEF d, c, m
    <3>4. Abs(d - 0) <= Slack
      BY <3>1, <3>2 DEF Abs
    <3> QED  BY <3>1, <3>3, <3>4 DEF d, m
  <2> QED  BY <2>2, <2>3, <2>4
<1> QED
  BY <1>1, <1>3, <1>4 DEF Reaches

-----------------------------------------------------------------------------
(* The run.                                                                *)

LEMMA Batch ==
  ASSUME steps \in Seq(Step), Sending
  PROVE  /\ Tx \in Seq(Step) /\ Rest \in Seq(Step)
         /\ Len(Tx) \in 1..Len(steps) /\ Len(Tx) + Len(Rest) = Len(steps)
         /\ Len(Rest) \in Nat
         /\ \A i \in 1..Len(Tx) : Tx[i] = steps[i]
         /\ \A k \in 1..Len(Rest) : Rest[k] = steps[Len(Tx) + k]
<1> DEFINE l == Len(steps)
           m == IF l < Chunk THEN l ELSE Chunk
<1>1. Chunk \in Nat \ {0}
  BY RotatorAssumption
<1>2. l \in Nat /\ l # 0 /\ m \in 1..l
  <2>1. steps # << >> /\ l \in Nat
    BY DEF Sending
  <2>2. l # 0
    BY <2>1
  <2> HIDE DEF l
  <2> QED  BY <1>1, <2>1, <2>2
<1> HIDE DEF m
<1>3. Tx = SubSeq(steps, 1, m)
  BY DEF Tx, m
<1>4. Tx \in Seq(Step) /\ Len(Tx) = m /\ \A i \in 1..m : Tx[i] = steps[i]
  BY <1>2, <1>3
<1>5. Rest = SubSeq(steps, m + 1, l)
  BY <1>4 DEF Rest
<1>6. Rest \in Seq(Step) /\ Len(Rest) = l - m /\ \A k \in 1..(l - m) : Rest[k] = steps[m + k]
  <2>1. m + 1 \in 1..(l + 1) /\ (m + 1) - 1 = m
    BY <1>2
  <2>2. \A i \in (m + 1)..l : steps[i] \in Step
    BY <1>2
  <2>3. Len(Rest) = l - m
    BY <1>2, <1>5, <2>1
  <2>5. \A k \in 1..(l - m) : Rest[k] = steps[m + k]
    <3> TAKE k \in 1..(l - m)
    <3>1. ((m + 1) + k) - 1 = m + k
      BY <1>2
    <3> QED  BY <1>2, <1>5, <2>1, <2>3, <3>1
  <2>4. Rest \in Seq(Step)
    BY <1>2, <1>5, <2>1, <2>2
  <2> QED  BY <2>3, <2>4, <2>5
<1> QED
  BY <1>2, <1>4, <1>6

\* A transaction executes: nothing is lost, nothing is owed, and what is
\* left of the plan is still good for what it was.
LEMMA ExecuteHolds ==
  ASSUME Holds, steps \in Seq(Step), Sending, Execute
  PROVE  Holds'
<1> DEFINE a == Len(Tx)
           m == Spends(Tx, a)
<1>1. /\ Tx \in Seq(Step) /\ a \in 0..Len(Tx) /\ a \in 1..Len(Tx)
  BY Batch
<1>2. /\ idle >= m /\ m \in Int
      /\ \A t \in Token : alloc[t] + Moves(Tx, a, t) >= 0 /\ Moves(Tx, a, t) \in Int
  BY <1>1, AsSums DEF Execute, Covered
<1>3. /\ alloc' = [t \in Token |-> alloc[t] + Moves(Tx, a, t)]
      /\ idle' = idle - m
  BY DEF Execute
<1>4. /\ alloc \in [Token -> Nat] /\ idle \in Nat /\ SumOf(alloc) + idle = Nav
      /\ SumOf(alloc) \in Int
  <2>1. alloc \in [Token -> Nat] /\ idle \in Nat /\ SumOf(alloc) + idle = Nav
    BY DEF Holds
  <2> QED  BY <2>1, Universe, SumType
<1>5. SumOf(alloc') = SumOf(alloc) + m
  BY <1>1, <1>3, MovesWhole
<1>6. alloc' \in [Token -> Nat]
  <2>1. \A t \in Token : alloc[t] + Moves(Tx, a, t) \in Nat
    BY <1>2, <1>4
  <2> QED  BY <1>3, <2>1
<1> HIDE DEF m
<1>7. idle' \in Nat /\ SumOf(alloc') + idle' = Nav
  BY <1>2, <1>3, <1>4, <1>5
<1> QED
  BY <1>6, <1>7 DEF Holds

\* What is carried out and what is left are what there was.
LEMMA Shift ==
  ASSUME steps \in Seq(Step), Sending, NEW n \in 0..Len(Rest)
  PROVE  LET a == Len(Tx) IN
         /\ a + n \in 0..Len(steps)
         /\ Spends(steps, a + n) = Spends(Tx, a) + Spends(Rest, n)
         /\ Spends(Tx, a) \in Int /\ Spends(Rest, n) \in Int
         /\ \A t : /\ Moves(steps, a + n, t) = Moves(Tx, a, t) + Moves(Rest, n, t)
                   /\ Moves(Tx, a, t) \in Int /\ Moves(Rest, n, t) \in Int
<1> DEFINE a == Len(Tx)
<1>1. /\ Tx \in Seq(Step) /\ Rest \in Seq(Step)
      /\ a \in Nat /\ a \in 0..Len(Tx) /\ a + Len(Rest) = Len(steps) /\ Len(Rest) \in Nat
      /\ \A i \in 1..a : Tx[i] = steps[i]
      /\ \A k \in 1..Len(Rest) : Rest[k] = steps[a + k]
  BY Batch
<1> HIDE DEF a
<1>2. /\ Spends(steps, a + n) = Spends(steps, a) + Spends(Rest, n)
      /\ \A t : Moves(steps, a + n, t) = Moves(steps, a, t) + Moves(Rest, n, t)
  BY <1>1, StepsShift
<1>3. Spends(steps, a) = Spends(Tx, a) /\ \A t : Moves(steps, a, t) = Moves(Tx, a, t)
  BY <1>1, StepsSame
<1>4. /\ Spends(Tx, a) \in Int /\ Spends(Rest, n) \in Int
      /\ \A t : Moves(Tx, a, t) \in Int /\ Moves(Rest, n, t) \in Int
  BY <1>1, AsSums
<1>5. a + n \in 0..Len(steps)
  BY <1>1
<1> QED
  BY <1>2, <1>3, <1>4, <1>5 DEF a

LEMMA ExecuteFunded ==
  ASSUME Holds, steps \in Seq(Step), Sending, Execute, Funded(steps), steps' = Rest
  PROVE  Funded(steps)'
<1> DEFINE a == Len(Tx)
           L == Len(Order)
<1>1. /\ alloc' = [t \in Token |-> alloc[t] + Moves(Tx, a, t)]
      /\ idle' = idle - Spends(Tx, a)
  BY DEF Execute
<1> SUFFICES ASSUME NEW n \in 0..Len(Rest)
             PROVE  /\ 2 * (Spends(Rest, n) - idle') <= L
                    /\ \A t \in Token : alloc'[t] + Moves(Rest, n, t) >= 0
  BY DEF Funded
<1> DEFINE m == a + n
           x == Spends(Tx, a)
           y == Spends(Rest, n)
           z == Spends(steps, m)
<1>2. m \in 0..Len(steps) /\ z = x + y /\ x \in Int /\ y \in Int
  BY Shift
<1>3. /\ 2 * (z - idle) <= L
      /\ \A t \in Token : alloc[t] + Moves(steps, m, t) >= 0
  <2> HIDE DEF m
  <2> QED  BY <1>2 DEF Funded
<1>4. idle \in Int /\ L \in Int /\ \A t \in Token : alloc[t] \in Int
  BY Universe DEF Holds
<1>5. 2 * (y - idle') <= L
  <2>1. idle' = idle - x
    BY <1>1
  <2> HIDE DEF x, y, z, L
  <2> QED  BY <1>2, <1>3, <1>4, <2>1
<1>6. ASSUME NEW t \in Token PROVE alloc'[t] + Moves(Rest, n, t) >= 0
  <2>1. /\ Moves(steps, m, t) = Moves(Tx, a, t) + Moves(Rest, n, t)
        /\ Moves(Tx, a, t) \in Int /\ Moves(Rest, n, t) \in Int
    BY Shift
  <2>2. alloc'[t] = alloc[t] + Moves(Tx, a, t)
    BY <1>1
  <2>3. alloc[t] + Moves(steps, m, t) >= 0
    BY <1>3
  <2> HIDE DEF m, a
  <2> QED  BY <1>4, <2>1, <2>2, <2>3
<1> QED
  BY <1>5, <1>6

LEMMA ExecuteReaches ==
  ASSUME Holds, steps \in Seq(Step), Sending, Execute, steps' = Rest,
         NEW w, Target(w), Reaches(steps, w)
  PROVE  \A t \in Token :
           Abs((w[t] * Nav - alloc'[t] * Total) - Total * Moves(Rest, Len(Rest), t)) <= Slack
<1> SUFFICES ASSUME NEW t \in Token
             PROVE  Abs((w[t] * Nav - alloc'[t] * Total)
                          - Total * Moves(Rest, Len(Rest), t)) <= Slack
  OBVIOUS
<1> DEFINE a == Len(Tx)
           b == Len(Rest)
           x == Moves(Tx, a, t)
           y == Moves(Rest, b, t)
           g == w[t] * Nav
           T == Total
           s == alloc[t]
<1>1. alloc'[t] = s + x
  BY DEF Execute
<1>2. b \in 0..Len(Rest) /\ a + b = Len(steps)
  BY Batch
<1>3. Moves(steps, Len(steps), t) = x + y /\ x \in Int /\ y \in Int
  BY <1>2, Shift
<1>4. g \in Int /\ T \in Int /\ s \in Int
  <2>1. w[t] \in Nat /\ Nav \in Nat /\ T \in Nat /\ s \in Nat
    BY RotatorAssumption DEF Target, Holds
  <2> QED  BY <2>1
<1>5. Abs((g - s * T) - T * (x + y)) <= Slack
  BY <1>3 DEF Reaches, Delta
<1>6. (g - (s + x) * T) - T * y = (g - s * T) - T * (x + y)
  <2> HIDE DEF g, s, x, y, T
  <2> QED  BY <1>3, <1>4
<1> QED
  BY <1>1, <1>5, <1>6

LEMMA PriceMoveHolds ==
  ASSUME Holds, NEW s \in Token, NEW t \in Token, PriceMove(s, t)
  PROVE  Holds'
<1> DEFINE v == alloc[s] - 1
           u == alloc[t] + 1
           B == [alloc EXCEPT ![s] = v]
<1>1. s # t /\ alloc[s] > 0 /\ idle' = idle
      /\ alloc' = [alloc EXCEPT ![s] = @ - 1, ![t] = @ + 1]
  BY DEF PriceMove
<1>2. alloc \in [Token -> Nat] /\ idle \in Nat /\ SumOf(alloc) + idle = Nav
  BY DEF Holds
<1>3. v \in Nat /\ u \in Nat /\ alloc[s] \in Int /\ alloc[t] \in Int
  BY <1>1, <1>2
<1>4. B \in [Token -> Nat] /\ B[t] = alloc[t] /\ B \in [Token -> Int] /\ alloc \in [Token -> Int]
  BY <1>1, <1>2, <1>3
<1>5. alloc' = [B EXCEPT ![t] = u]
  BY <1>1, <1>2
<1>6. alloc' \in [Token -> Nat]
  BY <1>3, <1>4, <1>5
<1>f. IsFiniteSet(Token)
  BY Universe
<1>7. SumOf(B) = SumOf(alloc) + (v - alloc[s])
  <2>1. v \in Int /\ alloc \in [Token -> Int]
    BY <1>3, <1>4
  <2> HIDE DEF v
  <2>2. SumOf([alloc EXCEPT ![s] = v]) = SumOf(alloc) + (v - alloc[s])
    BY <1>f, <2>1, SumUpdate
  <2> QED  BY <2>2
<1>8. SumOf([B EXCEPT ![t] = u]) = SumOf(B) + (u - B[t])
  <2>1. u \in Int /\ B \in [Token -> Int]
    BY <1>3, <1>4
  <2> HIDE DEF B, u
  <2> QED  BY <1>f, <2>1, SumUpdate
<1>9. SumOf(alloc) \in Int
  BY <1>4, Universe, SumType
<1>10. v - alloc[s] = -1 /\ u - alloc[t] = 1
  BY <1>3
<1> HIDE DEF B, u, v
<1>11. SumOf(alloc') = SumOf(alloc)
  BY <1>4, <1>5, <1>7, <1>8, <1>9, <1>10
<1> QED
  BY <1>1, <1>2, <1>6, <1>11 DEF Holds

-----------------------------------------------------------------------------
(* The inductive invariant.                                                *)

\* The signals a run can have read, and what it is doing with one.
SignalsKnown ==
  /\ latest = NoSignal \/ latest.name \in Signal
  /\ pc # "off" => cur.name \in Signal

\* Only a sending run has a history.
NoHistory == pc # "send" => ~failed /\ ~moved

\* While all has gone well the rest of the plan can be carried out, and then
\* the vault is on target.
OnCourse ==
  pc = "send" /\ ~failed /\ ~moved =>
    Funded(steps) /\ Reaches(steps, LongOnly(cur.name))

RotInv == Holds /\ SignalsKnown /\ steps \in Seq(Step) /\ NoHistory /\ OnCourse

LEMMA Targets == \A s \in Signal : Target(LongOnly(s))
BY LongOnlyWhole DEF Target

LEMMA InitRotInv == Init => RotInv
<1> SUFFICES ASSUME Init PROVE RotInv
  OBVIOUS
<1>1. PICK v \in Vaults : alloc = v.alloc /\ idle = v.idle
  BY DEF Init
<1>2. v \in Vault
  BY RotatorAssumption
<1>3. v.alloc \in [Token -> Nat] /\ v.idle \in Nat /\ SumOf(v.alloc) + v.idle = Nav
  BY <1>2 DEF Vault
<1>4. Holds
  BY <1>1, <1>3 DEF Holds
<1>5. steps \in Seq(Step)
  BY DEF Init
<1> QED
  BY <1>4, <1>5 DEF Init, RotInv, SignalsKnown, NoHistory, OnCourse

\* The chain alone decides what is funded and on target.
LEMMA SameChain ==
  ASSUME UNCHANGED chain
  PROVE  /\ Holds => Holds'
         /\ \A q : Funded(q) =>
              \A n \in 0..Len(q) :
                /\ 2 * (Spends(q, n) - idle') <= Len(Order)
                /\ \A t \in Token : alloc'[t] + Moves(q, n, t) >= 0
BY DEF chain, Holds, Funded

LEMMA CourseKept ==
  ASSUME OnCourse, UNCHANGED <<chain, pc, cur, steps, failed, moved>>
  PROVE  OnCourse'
BY DEF OnCourse, chain, Funded, Reaches, Delta

LEMMA Ended ==
  ASSUME Off, Holds', latest' = latest, SignalsKnown
  PROVE  RotInv'
<1>1. steps' \in Seq(Step)
  BY DEF Off
<1> QED
  BY <1>1 DEF Off, RotInv, SignalsKnown, NoHistory, OnCourse

LEMMA NextRotInv == RotInv /\ [Next]_vars => RotInv'
<1> SUFFICES ASSUME RotInv, [Next]_vars PROVE RotInv'
  OBVIOUS
<1>0. Holds /\ SignalsKnown /\ steps \in Seq(Step) /\ NoHistory /\ OnCourse
  BY DEF RotInv
<1>1. CASE Tick \/ UNCHANGED vars
  <2>1. UNCHANGED <<latest, chain, pc, cur, steps, failed, moved>>
    BY <1>1 DEF Tick, vars, runVars
  <2>2. Holds' /\ OnCourse'
    BY <1>0, <2>1, SameChain, CourseKept
  <2> QED  BY <1>0, <2>1, <2>2 DEF RotInv, SignalsKnown, NoHistory
<1>2. ASSUME NEW s \in Signal, Publish(s) PROVE RotInv'
  <2>1. UNCHANGED <<chain, pc, cur, steps, failed, moved>> /\ latest'.name \in Signal
    BY <1>2 DEF Publish, runVars
  <2>2. Holds' /\ OnCourse'
    BY <1>0, <2>1, SameChain, CourseKept
  <2> QED  BY <1>0, <2>1, <2>2 DEF RotInv, SignalsKnown, NoHistory
<1>3. CASE Start
  <2>1. /\ UNCHANGED <<latest, chain, steps, failed, moved>>
        /\ pc = "off" /\ pc' = "fetch" /\ cur' = latest /\ latest # NoSignal
    BY <1>3 DEF Start, Fresh
  <2>2. Holds' /\ OnCourse'
    BY <1>0, <2>1, SameChain DEF OnCourse
  <2> QED  BY <1>0, <2>1, <2>2 DEF RotInv, SignalsKnown, NoHistory
<1>4. CASE Rotate
  <2> DEFINE w == LongOnly(cur.name)
  <2>1. /\ UNCHANGED <<latest, chain, cur, failed, moved>>
        /\ pc = "fetch" /\ pc' = "send" /\ steps' = Plan(w)
    BY <1>4 DEF Rotate
  <2>2. Target(w)
    BY <1>0, <2>1, Targets DEF SignalsKnown
  <2> HIDE DEF w
  <2>3. Plan(w) \in Seq(Step) /\ Funded(Plan(w)) /\ Reaches(Plan(w), w)
    BY <1>0, <2>2, PlanWorks
  <2>4. alloc' = alloc /\ idle' = idle
    BY <2>1 DEF chain
  <2>5. Holds'
    BY <1>0, <2>1, SameChain
  <2> DEFINE p == Plan(w)
  <2>6. /\ \A n \in 0..Len(p) :
             /\ 2 * (Spends(p, n) - idle) <= Len(Order)
             /\ \A t \in Token : alloc[t] + Moves(p, n, t) >= 0
        /\ \A t \in Token :
             Abs((w[t] * Nav - alloc[t] * Total) - Total * Moves(p, Len(p), t)) <= Slack
    BY <2>3 DEF Funded, Reaches, Delta
  <2>7. steps' = p
    BY <2>1
  <2> HIDE DEF p
  <2>8. Funded(steps)'
    BY <2>4, <2>6, <2>7 DEF Funded
  <2>9. LongOnly(cur'.name) = w
    BY <2>1 DEF w
  <2>10. Reaches(steps, LongOnly(cur.name))'
    BY <2>4, <2>6, <2>7, <2>9 DEF Reaches, Delta
  <2>11. OnCourse'
    BY <2>8, <2>10 DEF OnCourse
  <2>12. steps' \in Seq(Step)
    BY <2>3, <2>7 DEF p
  <2> QED  BY <1>0, <2>1, <2>5, <2>11, <2>12 DEF RotInv, SignalsKnown, NoHistory
<1>5. CASE InBand \/ Refuse \/ Rejected \/ Commit \/ Crash
  <2>1. Off /\ UNCHANGED <<latest, chain>>
    BY <1>5 DEF InBand, Refuse, Rejected, Commit, Crash
  <2> QED  BY <1>0, <2>1, SameChain, Ended
<1>6. CASE SendThrows
  <2>1. Sending /\ Off /\ latest' = latest /\ (Execute \/ UNCHANGED chain)
    BY <1>6 DEF SendThrows
  <2>2. Holds'
    BY <1>0, <2>1, ExecuteHolds, SameChain
  <2> QED  BY <1>0, <2>1, <2>2, Ended
<1>7. CASE SendOk
  <2>1. /\ Sending /\ Execute /\ steps' = Rest
        /\ UNCHANGED <<latest, pc, cur, failed, moved>>
    BY <1>7 DEF SendOk
  <2>2. Holds' /\ steps' \in Seq(Step)
    BY <1>0, <2>1, ExecuteHolds, Batch
  <2>3. pc = "send" /\ cur.name \in Signal
    BY <1>0, <2>1 DEF Sending, SignalsKnown
  <2>4. ASSUME ~failed, ~moved
        PROVE  Funded(steps)' /\ Reaches(steps, LongOnly(cur.name))'
    <3> DEFINE w == LongOnly(cur.name)
    <3>1. Funded(steps) /\ Reaches(steps, w) /\ Target(w)
      BY <1>0, <2>3, <2>4, Targets DEF OnCourse
    <3>2. Funded(steps)'
      BY <1>0, <2>1, <3>1, ExecuteFunded
    <3> HIDE DEF w
    <3>3. \A t \in Token :
            Abs((w[t] * Nav - alloc'[t] * Total) - Total * Moves(Rest, Len(Rest), t)) <= Slack
      BY <1>0, <2>1, <3>1, ExecuteReaches
    <3>4. LongOnly(cur'.name) = w
      BY <2>1 DEF w
    <3>5. Reaches(steps, LongOnly(cur.name))'
      BY <2>1, <3>3, <3>4 DEF Reaches, Delta
    <3> QED  BY <3>2, <3>5
  <2>5. OnCourse'
    BY <2>1, <2>4 DEF OnCourse
  <2> QED  BY <1>0, <2>1, <2>2, <2>3, <2>5 DEF RotInv, SignalsKnown, NoHistory
<1>8. CASE SendErr
  <2>1. /\ Sending /\ steps' = Rest /\ failed' = TRUE
        /\ UNCHANGED <<latest, chain, pc, cur, moved>>
    BY <1>8 DEF SendErr
  <2>2. Holds' /\ steps' \in Seq(Step)
    BY <1>0, <2>1, SameChain, Batch
  <2>3. pc' = "send" /\ cur.name \in Signal
    BY <1>0, <2>1 DEF Sending, SignalsKnown
  <2> QED  BY <1>0, <2>1, <2>2, <2>3 DEF RotInv, SignalsKnown, NoHistory, OnCourse
<1>9. ASSUME NEW s \in Token, NEW t \in Token, PriceMove(s, t) PROVE RotInv'
  <2>1. /\ UNCHANGED <<latest, pc, cur, steps, failed>> /\ moved' = (pc = "send")
    BY <1>9 DEF PriceMove
  <2>2. Holds'
    BY <1>0, <1>9, PriceMoveHolds
  <2> QED  BY <1>0, <2>1, <2>2 DEF RotInv, SignalsKnown, NoHistory, OnCourse
<1> QED
  BY <1>1, <1>2, <1>3, <1>4, <1>5, <1>6, <1>7, <1>8, <1>9 DEF Next

-----------------------------------------------------------------------------
(* What follows.                                                           *)

\* The transaction to come is the beginning of what is left.
LEMMA InvFunded == RotInv => PlanIsFunded
<1> SUFFICES ASSUME RotInv, Sending, ~failed, ~moved, NEW n \in 1..Len(Tx)
             PROVE  /\ 2 * (Spends(Tx, n) - idle) <= Len(Order)
                    /\ \A t \in Token : alloc[t] + Moves(Tx, n, t) >= 0
  BY DEF PlanIsFunded
<1>1. steps \in Seq(Step) /\ Funded(steps)
  BY DEF RotInv, OnCourse, Sending
<1>2. /\ n \in Nat /\ n \in 0..Len(steps) /\ \A i \in 1..n : Tx[i] = steps[i]
  <2>1. /\ Len(Tx) \in 1..Len(steps) /\ Len(steps) \in Nat
        /\ \A i \in 1..Len(Tx) : Tx[i] = steps[i]
    BY <1>1, Batch
  <2>2. n \in 0..Len(steps) /\ \A i \in 1..n : i \in 1..Len(Tx)
    BY <2>1
  <2> QED  BY <2>1, <2>2
<1>3. Spends(Tx, n) = Spends(steps, n) /\ \A t : Moves(Tx, n, t) = Moves(steps, n, t)
  BY <1>2, StepsSame
<1> QED
  BY <1>1, <1>2, <1>3 DEF Funded

\* PlanWasFunded: whatever the universe, the weights and the size of the
\* transactions, every transaction of an undisturbed plan finds what it moves,
\* but for the rounding of each amount.
THEOREM PlanWasFunded == Spec => []PlanIsFunded
<1>1. Init => RotInv
  BY InitRotInv
<1>2. RotInv /\ [Next]_vars => RotInv'
  BY NextRotInv
<1>3. RotInv => PlanIsFunded
  BY InvFunded
<1> QED
  BY <1>1, <1>2, <1>3, PTL DEF Spec

LEMMA StepOnTarget ==
  ASSUME RotInv, [Next]_vars, Recorded, ~failed, ~moved
  PROVE  \A t \in Token : OffTarget(state'.hash.name, t)
                            <= Total * (Band * (Len(Order) - 1) + 1)
<1> DEFINE w == LongOnly(cur.name)
<1>1. state' # state /\ state' # NoState
  BY DEF Recorded
<1>2. InBand \/ Commit
  BY <1>1 DEF Next, Tick, Publish, Start, Rotate, Refuse, SendOk, SendErr, Rejected,
              SendThrows, Crash, PriceMove, vars
<1>3. state'.hash = cur
  BY <1>2 DEF InBand, Commit
<1>4. \E q \in Seq(Step) : q = << >> /\ Reaches(q, w)
  <2>1. CASE InBand
    <3>1. pc = "fetch" /\ Plan(w) = << >>
      BY <2>1 DEF InBand, NothingDue
    <3>2. Holds /\ Target(w)
      BY <3>1, Targets DEF RotInv, SignalsKnown
    <3> HIDE DEF w
    <3>3. Plan(w) \in Seq(Step) /\ Reaches(Plan(w), w)
      BY <3>2, PlanWorks
    <3> QED  BY <3>1, <3>3
  <2>2. CASE Commit
    BY <2>2 DEF Commit, RotInv, OnCourse
  <2> QED  BY <1>2, <2>1, <2>2
<1>5. ASSUME NEW t \in Token PROVE Abs(Delta(w, t)) <= Slack
  <2>1. PICK q \in Seq(Step) : q = << >> /\ Reaches(q, w)
    BY <1>4
  <2>2. Len(q) = 0 /\ Moves(q, 0, t) = 0
    BY <2>1, StepsNext
  <2> DEFINE d == Delta(w, t)
  <2>3. Abs(d - Total * 0) <= Slack
    BY <2>1, <2>2 DEF Reaches
  <2>4. d \in Int /\ Total \in Int
    <3>1. pc # "off"
      BY <1>2 DEF InBand, NothingDue, Commit
    <3>2. Holds /\ Target(w) /\ Total \in Nat
      BY <3>1, Targets, RotatorAssumption DEF RotInv, SignalsKnown
    <3> HIDE DEF w
    <3> QED  BY <3>2, DeltaBounds
  <2>5. d - Total * 0 = d
    <3> HIDE DEF d
    <3> QED  BY <2>4
  <2> QED  BY <2>3, <2>5
<1> QED
  BY <1>3, <1>5 DEF OffTarget, Slack

\* RecordsAreOnTarget: whatever was done before, a rotation is only recorded
\* with every token within the no-trade bands of the weights of its signal,
\* unless a transaction failed or prices moved under it.
THEOREM RecordsAreOnTarget == Spec => RotatesToTarget
<1>1. Init => RotInv
  BY InitRotInv
<1>2. RotInv /\ [Next]_vars => RotInv'
  BY NextRotInv
<1>3. RotInv /\ [Next]_vars =>
        [Recorded /\ ~failed /\ ~moved =>
           \A t \in Token : OffTarget(state'.hash.name, t)
                              <= Total * (Band * (Len(Order) - 1) + 1)]_vars
  BY StepOnTarget
<1> QED
  BY <1>1, <1>2, <1>3, PTL DEF Spec, RotatesToTarget

\* All the value is cash, so all the weight is.
LEMMA CashWeighsAll ==
  ASSUME Holds, AllCash
  PROVE  CurrentWeight(Cash) \in Int /\ Total <= CurrentWeight(Cash)
<1> DEFINE a == alloc[Cash]
           R == [t \in Token \ {Cash} |-> alloc[t]]
           x == Round(a * Total, Nav)
           y == Round(idle * Total, Nav)
<1>1. /\ alloc \in [Token -> Int] /\ a \in Nat /\ idle \in Nat /\ SumOf(alloc) + idle = Nav
      /\ Cash \in Token /\ IsFiniteSet(Token) /\ Nav \in Nat \ {0} /\ Total \in Nat \ {0}
  BY RotatorAssumption, Universe DEF Holds
<1>2. SumOf(R) = 0
  <2>1. IsFiniteSet(Token \ {Cash})
    BY <1>1, FS_Subset
  <2>2. R \in [Token \ {Cash} -> Int] /\ \A t \in Token \ {Cash} : R[t] = 0
    BY <1>1 DEF AllCash
  <2> HIDE DEF R
  <2> QED  BY <2>1, <2>2, SumZero
<1>3. SumOf(alloc) = a + SumOf(R)
  BY <1>1, SumRemove
<1>4. a + idle = Nav
  <2> HIDE DEF a, R
  <2> QED  BY <1>1, <1>2, <1>3
<1>5. /\ x \in Nat /\ 2 * (a * Total) < 2 * (Nav * x) + Nav
      /\ y \in Nat /\ 2 * (idle * Total) < 2 * (Nav * y) + Nav
  <2>1. a * Total \in Nat /\ idle * Total \in Nat
    <3> HIDE DEF a
    <3> QED  BY <1>1
  <2> HIDE DEF a
  <2> QED  BY <1>1, <2>1, RoundBounds
<1>6. CurrentWeight(Cash) = x + y
  BY DEF CurrentWeight
<1> HIDE DEF a, x, y
<1>7. Total <= x + y
  <2> DEFINE p == a * Total
             q == idle * Total
             r == Nav * x
             s == Nav * y
             u == Nav * Total
             v == Nav * (x + y)
  <2>1. /\ p \in Int /\ q \in Int /\ r \in Int /\ s \in Int /\ u \in Int /\ v \in Int
        /\ u = p + q /\ v = r + s
    <3>1. Nav * Total = a * Total + idle * Total /\ Nav * (x + y) = Nav * x + Nav * y
      BY <1>1, <1>4, <1>5
    <3> QED  BY <1>1, <1>5, <3>1
  <2>2. 2 * p < 2 * r + Nav /\ 2 * q < 2 * s + Nav
    BY <1>5
  <2>3. 2 * u < 2 * v + 2 * Nav
    <3> HIDE DEF p, q, r, s, u, v
    <3> QED  BY <1>1, <2>1, <2>2
  <2>4. Nav * (x + y + 1) = v + Nav
    BY <1>1, <1>5
  <2>5. ~ (x + y + 1 <= Total)
    <3> SUFFICES ASSUME x + y + 1 <= Total PROVE FALSE
      OBVIOUS
    <3> DEFINE e == Total - (x + y + 1)
    <3>1. e \in Nat
      BY <1>1, <1>5
    <3>2. u = Nav * (x + y + 1) + Nav * e
      <4>1. Total = (x + y + 1) + e
        BY <1>1, <1>5
      <4> HIDE DEF e
      <4> QED  BY <1>1, <1>5, <3>1, <4>1
    <3>3. Nav * e \in Nat
      BY <1>1, <3>1
    <3> DEFINE z == Nav * e
    <3>4. u = (v + Nav) + z /\ z \in Nat
      BY <2>4, <3>2, <3>3
    <3> HIDE DEF u, v, z
    <3> QED  BY <1>1, <2>1, <2>3, <3>4
  <2> QED  BY <1>1, <1>5, <2>5
<1> QED
  BY <1>5, <1>6, <1>7

\* Guards that let no weight go far from where it is let no signal out.
LEMMA CashStays ==
  ASSUME RotInv, AllCash, pc = "fetch"
  PROVE  ~ GuardsOk(LongOnly(cur.name))
<1> DEFINE w == LongOnly(cur.name)
           c == CurrentWeight(Cash)
<1>1. Holds /\ Target(w) /\ Cash \in Token
  BY Targets, RotatorAssumption DEF RotInv, SignalsKnown
<1> HIDE DEF w
<1>2. c \in Int /\ Total <= c
  BY <1>1, CashWeighsAll
<1>3. w[Cash] \in Nat
  BY <1>1 DEF Target
<1>4. MaxWeight \in Int /\ MaxDelta \in Int /\ Total \in Int /\ MaxWeight + MaxDelta < Total
  BY RotatorAssumption, CapsAssumption
<1>5. SUFFICES ASSUME GuardsOk(w) PROVE FALSE
  BY DEF w
<1>6. w[Cash] <= MaxWeight /\ Abs(c - w[Cash]) <= MaxDelta
  BY <1>1, <1>5 DEF GuardsOk, MaxDeltaOk
<1> HIDE DEF c
<1> QED
  BY <1>2, <1>3, <1>4, <1>6 DEF Abs

\* CashStaysCash: with these caps no signal leads out of a vault that is all
\* cash, whatever its universe, its value and the weights published.
THEOREM CashStaysCash == Spec => CashIsAbsorbing
<1>1. Init => RotInv
  BY InitRotInv
<1>2. RotInv /\ [Next]_vars => RotInv'
  BY NextRotInv
<1>3. RotInv /\ [Next]_vars =>
        [AllCash /\ pc = "fetch" => pc' # "send" /\ state' = state]_vars
  <2> SUFFICES ASSUME RotInv, Next, AllCash, pc = "fetch"
               PROVE  pc' # "send" /\ state' = state
    OBVIOUS
  <2>1. ~ GuardsOk(LongOnly(cur.name))
    BY CashStays
  <2>2. ~ Rotate /\ ~ NothingDue
    BY <2>1 DEF Rotate, NothingDue
  <2>3. CASE Tick \/ \E s \in Signal : Publish(s)
    BY <2>3 DEF Tick, Publish, runVars
  <2>4. CASE Refuse
    BY <2>4 DEF Refuse, Off
  <2>5. CASE \E s, t \in Token : PriceMove(s, t)
    BY <2>5 DEF PriceMove
  <2>6. ~ (Start \/ SendOk \/ SendErr \/ Rejected \/ SendThrows \/ Commit \/ Crash)
    BY <2>2 DEF Start, SendOk, SendErr, Rejected, SendThrows, Commit, Crash, Sending
  <2> QED  BY <2>2, <2>3, <2>4, <2>5, <2>6 DEF Next, InBand
<1> QED
  BY <1>1, <1>2, <1>3, PTL DEF Spec, CashIsAbsorbing

-----------------------------------------------------------------------------
(* The state file and the cooldown.                                        *)

\* The run that is sending took its time a cooldown after the rotation the
\* state file holds.  The file cannot change meanwhile, for only this run
\* writes it; the clock goes on, and the run keeps the time it took.
Due == pc = "send" => state = NoState \/ ts - state.ts >= Cooldown

LEMMA InitDue == Init => Due
BY DEF Init, Due

LEMMA NextDue == Due /\ [Next]_vars => Due'
<1> SUFFICES ASSUME Due, [Next]_vars PROVE Due'
  OBVIOUS
<1>1. CASE UNCHANGED <<pc, ts, state>>
  BY <1>1 DEF Due
<1>2. CASE pc' # "send"
  BY <1>2 DEF Due
<1>3. CASE Tick
  BY <1>1, <1>3 DEF Tick, runVars
<1>4. ASSUME NEW s \in Signal, Publish(s) PROVE Due'
  BY <1>1, <1>4 DEF Publish, runVars
<1>5. CASE Start
  BY <1>2, <1>5 DEF Start
<1>6. CASE Rotate
  BY <1>6 DEF Rotate, Cooled, Due
<1>7. CASE InBand \/ Refuse \/ Rejected \/ SendThrows \/ Commit \/ Crash
  BY <1>2, <1>7 DEF InBand, NothingDue, Refuse, Rejected, SendThrows, Commit, Crash, Off
<1>8. CASE SendOk \/ SendErr
  BY <1>1, <1>8 DEF SendOk, SendErr
<1>9. ASSUME NEW s \in Token, NEW t \in Token, PriceMove(s, t) PROVE Due'
  BY <1>1, <1>9 DEF PriceMove
<1>10. CASE UNCHANGED vars
  BY <1>1, <1>10 DEF vars, runVars
<1> QED
  BY <1>3, <1>4, <1>5, <1>6, <1>7, <1>8, <1>9, <1>10 DEF Next

\* Only a run that ends well writes the state file: with the time it took
\* when it began to send, or with the time of the check if nothing was due.
LEMMA StepSpaced ==
  ASSUME Due, [Next]_vars, Recorded, state # NoState
  PROVE  state'.ts - state.ts >= Cooldown
<1>1. state' # state /\ state' # NoState
  BY DEF Recorded
<1>2. InBand \/ Commit
  BY <1>1 DEF Next, Tick, Publish, Start, Rotate, Refuse, SendOk, SendErr, Rejected,
              SendThrows, Crash, PriceMove, vars
<1>3. CASE InBand
  BY <1>3 DEF InBand, NothingDue, Cooled
<1>4. CASE Commit
  BY <1>4 DEF Commit, Due
<1> QED
  BY <1>2, <1>3, <1>4

\* RecordsAreSpaced: whenever runs start, however long they take and wherever
\* they fail, a recorded rotation is a cooldown after the one before it that
\* the state file still held.
THEOREM RecordsAreSpaced == Spec => SpacedRecords
<1>1. Init => Due
  BY InitDue
<1>2. Due /\ [Next]_vars => Due'
  BY NextDue
<1>3. Due /\ [Next]_vars =>
        [Recorded /\ state # NoState => state'.ts - state.ts >= Cooldown]_vars
  BY StepSpaced
<1> QED
  BY <1>1, <1>2, <1>3, PTL DEF Spec, SpacedRecords
=============================================================================
