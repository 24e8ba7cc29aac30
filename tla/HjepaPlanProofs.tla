------------------------------ MODULE HjepaPlanProofs ------------------------------
(***************************************************************************)
(* Proofs about the hierarchical planner for any number of levels, any     *)
(* strides, settings, intervals and budgets.                               *)
(***************************************************************************)
EXTENDS HjepaPlan, FiniteSetTheorems, SequenceTheorems, TLAPS

-----------------------------------------------------------------------------
(***************************************************************************)
(* Induction.  A set of naturals that is not empty has a least element: of *)
(* the finite sets 1..n for n in T one has none of the others inside it.   *)
(***************************************************************************)
LEMMA LeastNatural ==
  ASSUME NEW T \in SUBSET Nat, T # {}
  PROVE  \E m \in T : \A k \in T : m <= k
<1> DEFINE F == FiniteSubsetsOf(Nat)
           R == StrictSubsetOrdering(Nat)
           U == {1..n : n \in T}
<1>1. IsWellFoundedOn(R, F)  BY FS_StrictSubsetOrderingWellFounded
<1>2. U \subseteq F
  <2> SUFFICES ASSUME NEW n \in T PROVE 1..n \in F  OBVIOUS
  <2>1. n \in Nat /\ 1..n \in SUBSET Nat  OBVIOUS
  <2>2. IsFiniteSet(1..n)  BY <2>1, FS_Interval
  <2> QED  BY <2>1, <2>2 DEF FiniteSubsetsOf
<1>3. U # {}  OBVIOUS
<1> HIDE DEF F, R, U
<1>4. PICK u \in U : \A v \in U : ~(<<v, u>> \in R)  BY <1>1, <1>2, <1>3, WFMin
<1>5. PICK m \in T : u = 1..m  BY <1>4 DEF U
<1>6. ASSUME NEW k \in T, k < m PROVE FALSE
  <2>1. k \in Nat /\ m \in Nat /\ 1..k \in U  BY DEF U
  <2>2. 1..k \subseteq 1..m /\ 1..k # 1..m /\ 1..k \in SUBSET Nat /\ 1..m \in SUBSET Nat
    <3>1. m \in 1..m /\ m \notin 1..k  BY <1>6, <2>1
    <3> QED  BY <1>6, <2>1, <3>1
  <2>3. <<1..k, 1..m>> \in R  BY <2>2 DEF R, StrictSubsetOrdering
  <2> QED  BY <1>4, <1>5, <2>1, <2>3
<1>7. \A k \in T : m <= k
  <2> TAKE k \in T
  <2>1. k \in Nat /\ m \in Nat  OBVIOUS
  <2> QED  BY <1>6, <2>1
<1> QED  BY <1>7

\* What holds of 0 and of n + 1 if it holds of n: a set of naturals with 0 and closed
\* under + 1 is all of them.
LEMMA Inductive ==
  ASSUME NEW S \in SUBSET Nat, 0 \in S, \A n \in S : n + 1 \in S
  PROVE  S = Nat
<1> SUFFICES ASSUME S # Nat PROVE FALSE  OBVIOUS
<1> DEFINE T == Nat \ S
<1>1. T \in SUBSET Nat /\ T # {}  OBVIOUS
<1> HIDE DEF T
<1>2. PICK m \in T : \A k \in T : m <= k  BY <1>1, LeastNatural
<1>3. m \in Nat /\ m # 0  BY DEF T
<1>4. m - 1 \in Nat /\ m - 1 \notin T  BY <1>2, <1>3
<1>5. m - 1 \in S  BY <1>4 DEF T
<1>6. (m - 1) + 1 = m  BY <1>3
<1>7. m \in S  BY <1>5, <1>6
<1> QED  BY <1>7 DEF T

\* The functions on 1..n with values in X defined by a first value and the step G from
\* one value to the next.
Iterations(X, first, G, n) ==
    {f \in [1..n -> X] : \A k \in 1..n : f[k] = IF k = 1 THEN first ELSE G[k][f[k - 1]]}

\* There is one.
LEMMA Recursion ==
  ASSUME NEW X, NEW first \in X, NEW G \in [Nat -> [X -> X]], NEW n \in Nat
  PROVE  Iterations(X, first, G, n) # {}
<1> DEFINE S == {m \in Nat : Iterations(X, first, G, m) # {}}
<1>1. 0 \in S
  <2>1. [k \in 1..0 |-> first] \in Iterations(X, first, G, 0)  BY DEF Iterations
  <2> QED  BY <2>1
<1>2. ASSUME NEW m \in S PROVE m + 1 \in S
  <2>1. PICK f : f \in Iterations(X, first, G, m)  OBVIOUS
  <2>2. m \in Nat /\ f \in [1..m -> X] /\ \A k \in 1..m : f[k] = IF k = 1 THEN first ELSE G[k][f[k - 1]]
    BY <2>1 DEF Iterations
  <2> DEFINE next == IF m = 0 THEN first ELSE G[m + 1][f[m]]
             g == [k \in 1..(m + 1) |-> IF k = m + 1 THEN next ELSE f[k]]
  <2>3. next \in X
    <3>1. CASE m = 0  BY <3>1
    <3>2. CASE m # 0
      <4>1. m \in 1..m /\ m + 1 \in Nat  BY <2>2, <3>2
      <4>2. G[m + 1] \in [X -> X] /\ f[m] \in X  BY <2>2, <4>1
      <4> QED  BY <3>2, <4>2
    <3> QED  BY <3>1, <3>2
  <2>4. next = IF m + 1 = 1 THEN first ELSE G[m + 1][f[m]]  BY <2>2
  <2> HIDE DEF next
  <2>5. g \in [1..(m + 1) -> X]  BY <2>2, <2>3
  <2>6. ASSUME NEW k \in 1..(m + 1)
        PROVE  g[k] = IF k = 1 THEN first ELSE G[k][g[k - 1]]
    <3>1. CASE k = m + 1
      <4>1. g[k] = next /\ k - 1 = m  BY <2>2, <3>1
      <4>2. k # 1 => g[k - 1] = f[m]  BY <2>2, <3>1, <4>1
      <4> QED  BY <2>4, <3>1, <4>1, <4>2
    <3>2. CASE k # m + 1
      <4>1. k \in 1..m /\ g[k] = f[k]  BY <2>2, <3>2
      <4>2. k # 1 => k - 1 \in 1..m /\ g[k - 1] = f[k - 1]  BY <2>2, <4>1
      <4> QED  BY <2>2, <4>1, <4>2
    <3> QED  BY <3>1, <3>2
  <2> HIDE DEF g
  <2>7. g \in Iterations(X, first, G, m + 1)  BY <2>5, <2>6 DEF Iterations
  <2> QED  BY <2>2, <2>7
<1>3. S \in SUBSET Nat  OBVIOUS
<1> HIDE DEF S
<1>4. n \in S  BY <1>1, <1>2, <1>3, Inductive
<1> QED  BY <1>4 DEF S

-----------------------------------------------------------------------------
(***************************************************************************)
(* Arithmetic of rounded divisions.                                        *)
(***************************************************************************)
Positive == Nat \ {0}

LEMMA Division ==
  ASSUME NEW a \in Nat, NEW d \in Positive
  PROVE  a \div d \in Nat /\ a % d \in 0..(d - 1) /\ a = d * (a \div d) + (a % d)
BY DEF Positive

\* A multiple of d bounds what d divides if it bounds the quotient.
LEMMA DivisionAtMost ==
  ASSUME NEW a \in Nat, NEW d \in Positive, NEW m \in Nat
  PROVE  a < (m + 1) * d => a \div d <= m
<1> SUFFICES ASSUME a < (m + 1) * d, ~(a \div d <= m) PROVE FALSE  OBVIOUS
<1>1. a \div d \in Nat /\ a % d \in 0..(d - 1) /\ a = d * (a \div d) + (a % d)  BY Division
<1> DEFINE q == a \div d
<1>2. q \in Nat /\ q >= m + 1 /\ a >= d * q /\ d \in Nat  BY <1>1 DEF Positive
<1> HIDE DEF q
<1>3. d * q >= d * (m + 1)  BY <1>2
<1>4. d * (m + 1) = (m + 1) * d  BY <1>2
<1> QED  BY <1>2, <1>3, <1>4

LEMMA DivisionAtLeast ==
  ASSUME NEW a \in Nat, NEW d \in Positive, NEW m \in Nat
  PROVE  a >= m * d => a \div d >= m
<1> SUFFICES ASSUME a >= m * d, ~(a \div d >= m) PROVE FALSE  OBVIOUS
<1>1. a \div d \in Nat /\ a % d \in 0..(d - 1) /\ a = d * (a \div d) + (a % d)  BY Division
<1> DEFINE q == a \div d
<1>2. q \in Nat /\ q + 1 <= m /\ a < d * q + d /\ d \in Nat  BY <1>1 DEF Positive
<1> HIDE DEF q
<1>3. d * (q + 1) <= d * m  BY <1>2
<1>4. d * (q + 1) = d * q + d /\ d * m = m * d  BY <1>2
<1> QED  BY <1>2, <1>3, <1>4

\* A quotient rounded up is zero only of zero, and within c if the multiple is.
LEMMA RoundedUp ==
  ASSUME NEW a \in Nat, NEW d \in Positive
  PROVE  /\ CeilDiv(a, d) \in Nat
         /\ a = 0 => CeilDiv(a, d) = 0
         /\ a > 0 => CeilDiv(a, d) >= 1
         /\ \A c \in Nat : a <= c * d => CeilDiv(a, d) <= c
<1> DEFINE b == a + d - 1
<1>1. d \in Nat /\ d >= 1 /\ b \in Nat /\ CeilDiv(a, d) = b \div d  BY DEF CeilDiv, Positive
<1>2. b \div d \in Nat  BY <1>1, Division
<1>3. ASSUME a = 0 PROVE b \div d = 0
  <2>1. b < (0 + 1) * d  BY <1>1, <1>3
  <2> QED  BY <1>1, <1>2, <2>1, DivisionAtMost
<1>4. ASSUME a > 0 PROVE b \div d >= 1
  <2>1. b >= 1 * d  BY <1>1, <1>4
  <2> QED  BY <1>1, <2>1, DivisionAtLeast
<1>5. ASSUME NEW c \in Nat, a <= c * d PROVE b \div d <= c
  <2>1. (c + 1) * d = c * d + d /\ c * d \in Nat  BY <1>1
  <2>2. b < (c + 1) * d  BY <1>1, <1>5, <2>1
  <2> QED  BY <1>1, <2>2, DivisionAtMost
<1> QED  BY <1>1, <1>2, <1>3, <1>4, <1>5

-----------------------------------------------------------------------------
(***************************************************************************)
(* Sequences.                                                              *)
(***************************************************************************)
LEMMA FunctionIsSeq ==
  ASSUME NEW S, NEW n \in Nat, NEW s \in [1..n -> S]
  PROVE  s \in Seq(S) /\ Len(s) = n
OBVIOUS

LEMMA Concatenation ==
  ASSUME NEW S, NEW a \in Nat, NEW b \in Nat, NEW s \in [1..a -> S], NEW t \in [1..b -> S]
  PROVE  /\ s \o t \in [1..(a + b) -> S]
         /\ \A i \in 1..(a + b) : (s \o t)[i] = IF i <= a THEN s[i] ELSE t[i - a]
<1>1. s \in Seq(S) /\ Len(s) = a /\ t \in Seq(S) /\ Len(t) = b  BY FunctionIsSeq
<1>2. s \o t \in Seq(S) /\ Len(s \o t) = a + b
      /\ \A i \in 1..(a + b) : (s \o t)[i] = IF i <= a THEN s[i] ELSE t[i - a]
  BY <1>1, ConcatProperties
<1> QED  BY <1>2, LenProperties

\* Concatenating n sequences adds them one by one.
LEMMA Flattening ==
  ASSUME NEW S, NEW n \in Positive, NEW ss \in [1..n -> Seq(S)]
  PROVE  \E f \in [1..n -> Seq(S)] :
            /\ f[1] = ss[1]
            /\ \A k \in 2..n : f[k] = f[k - 1] \o ss[k]
            /\ FlattenSeq(ss) = f[n]
<1> DEFINE G == [k \in Nat |-> [x \in Seq(S) |-> IF k \in 1..n THEN x \o ss[k] ELSE x]]
           Body(f) == [i \in 1..Len(ss) |-> IF i = 1 THEN ss[i] ELSE f[i - 1] \o ss[i]]
<1>1. n \in Nat /\ n >= 1 /\ ss \in Seq(Seq(S)) /\ Len(ss) = n
  BY FunctionIsSeq DEF Positive
<1>2. G \in [Nat -> [Seq(S) -> Seq(S)]]
  <2> SUFFICES ASSUME NEW k \in Nat, NEW x \in Seq(S)
               PROVE  (IF k \in 1..n THEN x \o ss[k] ELSE x) \in Seq(S)
    OBVIOUS
  <2>1. k \in 1..n => ss[k] \in Seq(S)  OBVIOUS
  <2> QED  BY <2>1, ConcatProperties
<1>3. ss[1] \in Seq(S)  BY <1>1
<1>4. Iterations(Seq(S), ss[1], G, n) # {}
  <2> HIDE DEF G
  <2> QED  BY <1>1, <1>2, <1>3, Recursion
<1>5. PICK g : g \in Iterations(Seq(S), ss[1], G, n)  BY <1>4
<1>6. g \in [1..n -> Seq(S)] /\ \A k \in 1..n : g[k] = IF k = 1 THEN ss[1] ELSE G[k][g[k - 1]]
  BY <1>5 DEF Iterations
<1>7. \A i \in 1..n : g[i] = IF i = 1 THEN ss[i] ELSE g[i - 1] \o ss[i]
  <2> TAKE i \in 1..n
  <2>1. CASE i = 1  BY <1>6, <2>1
  <2>2. CASE i # 1
    <3>1. i \in Nat /\ g[i - 1] \in Seq(S)  BY <1>1, <1>6, <2>2
    <3>2. G[i][g[i - 1]] = g[i - 1] \o ss[i]  BY <3>1
    <3> QED  BY <1>6, <2>2, <3>2
  <2> QED  BY <2>1, <2>2
<1>8. g = Body(g)  BY <1>1, <1>6, <1>7
<1> DEFINE f == CHOOSE h : h = Body(h)
<1>9. f = Body(f)
  <2> HIDE DEF Body
  <2> QED  BY <1>8
<1>10. FlattenSeq(ss) = f[n]  BY <1>1 DEF FlattenSeq
<1> HIDE DEF f
<1>11. f = [i \in 1..n |-> IF i = 1 THEN ss[i] ELSE f[i - 1] \o ss[i]]  BY <1>1, <1>9
<1> DEFINE T == {m \in Nat : m + 1 \in 1..n => f[m + 1] \in Seq(S)}
<1>12. 0 \in T  BY <1>1, <1>3, <1>11
<1>13. ASSUME NEW m \in T PROVE m + 1 \in T
  <2> SUFFICES ASSUME m + 2 \in 1..n PROVE f[m + 2] \in Seq(S)  OBVIOUS
  <2>1. m + 1 \in 1..n /\ f[m + 1] \in Seq(S) /\ ss[m + 2] \in Seq(S)  BY <1>1
  <2>2. m + 2 # 1 /\ (m + 2) - 1 = m + 1  BY <2>1
  <2>3. f[m + 2] = f[m + 1] \o ss[m + 2]
    <3> HIDE DEF T
    <3> QED  BY <1>11, <2>2
  <2> QED  BY <2>1, <2>3, ConcatProperties
<1>14. T = Nat
  <2>1. T \in SUBSET Nat  OBVIOUS
  <2> HIDE DEF T
  <2> QED  BY <1>12, <1>13, <2>1, Inductive
<1>15. f \in [1..n -> Seq(S)]
  <2>1. ASSUME NEW k \in 1..n PROVE f[k] \in Seq(S)
    <3>1. k - 1 \in Nat /\ (k - 1) + 1 = k  BY <1>1
    <3>2. k - 1 \in T  BY <1>14, <3>1
    <3> QED  BY <3>1, <3>2
  <2> QED  BY <1>11, <2>1
<1>16. f[1] = ss[1] /\ \A k \in 2..n : f[k] = f[k - 1] \o ss[k]
  <2> HIDE DEF T, G, Body
  <2>1. f[1] = ss[1]
    <3>1. 1 \in 1..n  BY <1>1
    <3> QED  BY <1>11, <3>1
  <2>2. ASSUME NEW k \in 2..n PROVE f[k] = f[k - 1] \o ss[k]
    <3>1. k \in 1..n /\ k # 1  BY <1>1
    <3> QED  BY <1>11, <3>1
  <2> QED  BY <2>1, <2>2
<1> HIDE DEF T, G, Body
<1> WITNESS f \in [1..n -> Seq(S)]
<1> QED  BY <1>10, <1>16

-----------------------------------------------------------------------------
(***************************************************************************)
(* The schedules.  A schedule of n calls with horizons up to m; once it is *)
(* at one step it stays there.                                             *)
(***************************************************************************)
StaysAtOne(s, n) == \A i \in 1..n, k \in 1..n : i <= k /\ s[i] = 1 => s[k] = 1

\* Fewer calls than horizons: the horizon is one in the last call and in no other.
LEMMA DescentIs ==
  ASSUME NEW n \in Positive, NEW h \in Positive, n > 1, h > 1, NEW i \in 1..n
  PROVE  /\ Descent(n, h, i) \in 1..h
         /\ Descent(n, h, i) = 1 <=> i = n
<1> DEFINE a == (h - 1) * (n - i)
           d == n - 1
<1>1. n \in Nat /\ h \in Nat /\ i \in Nat /\ d \in Positive /\ h - 1 \in Nat /\ h - 1 >= 1
      /\ n - i \in Nat /\ n - i <= d
  BY DEF Positive
<1>2. a \in Nat /\ (a = 0 <=> n - i = 0)
  <2>1. ASSUME NEW x \in Nat, x >= 1, NEW y \in Nat PROVE x * y \in Nat /\ (x * y = 0 <=> y = 0)
    <3>1. x * y \in Nat  BY <2>1
    <3>2. ASSUME y # 0 PROVE x * y >= y
      <4>1. (x - 1) * y >= 0 /\ x * y = (x - 1) * y + y  BY <2>1
      <4> QED  BY <4>1, <3>1
    <3>3. y = 0 => x * y = 0  OBVIOUS
    <3> QED  BY <3>1, <3>2, <3>3
  <2> QED  BY <1>1, <2>1
<1>3. a <= (h - 1) * d
  <2>1. ASSUME NEW x \in Nat, NEW y \in Nat, NEW z \in Nat, y <= z PROVE x * y <= x * z
    <3>1. z = y + (z - y) /\ z - y \in Nat  BY <2>1
    <3>2. x * z = x * y + x * (z - y) /\ x * (z - y) \in Nat /\ x * y \in Nat  BY <3>1
    <3> QED  BY <3>2
  <2>2. d \in Nat  BY <1>1 DEF Positive
  <2> QED  BY <1>1, <2>1, <2>2
<1>4. Descent(n, h, i) = 1 + CeilDiv(a, d)  BY DEF Descent
<1> HIDE DEF a, d
<1>5. CeilDiv(a, d) \in Nat /\ CeilDiv(a, d) <= h - 1 /\ (CeilDiv(a, d) = 0 <=> a = 0)
  BY <1>1, <1>2, <1>3, RoundedUp
<1> QED  BY <1>1, <1>2, <1>4, <1>5

\* At least as many calls as horizons: from block to block the horizon falls by one, and
\* the blocks up to the k-th have BlocksEnd calls.
Blocks(n, h) ==
    [b \in 1..h |-> [i \in 1..CallsWith(n, h, h - b + 1) |-> h - b + 1]]
BlocksEnd(n, h, k) == k * (n \div h) + IF k > h - (n % h) THEN k - (h - (n % h)) ELSE 0

LEMMA BlocksAre ==
  ASSUME NEW n \in Positive, NEW h \in Positive, n >= h, NEW k \in 1..h
  PROVE  /\ CallsWith(n, h, h - k + 1) \in Positive
         /\ BlocksEnd(n, h, k) = BlocksEnd(n, h, k - 1) + CallsWith(n, h, h - k + 1)
         /\ BlocksEnd(n, h, k - 1) \in Nat
         /\ BlocksEnd(n, h, 0) = 0
         /\ BlocksEnd(n, h, h) = n
<1> DEFINE q == n \div h
           r == n % h
<1>1. n \in Nat /\ h \in Nat /\ h >= 1 /\ k \in Nat  BY DEF Positive
<1>2. q \in Nat /\ r \in 0..(h - 1) /\ n = h * q + r  BY <1>1, Division
<1>3. q >= 1
  <2>1. n >= 1 * h  BY <1>1
  <2> QED  BY <1>1, <2>1, DivisionAtLeast
<1>4. /\ CallsWith(n, h, h - k + 1) = q + IF h - k + 1 <= r THEN 1 ELSE 0
      /\ \A j \in Int : BlocksEnd(n, h, j) = j * q + IF j > h - r THEN j - (h - r) ELSE 0
  BY DEF CallsWith, BlocksEnd
<1> HIDE DEF q, r
<1>5. k - 1 \in Int /\ (k - 1) * q \in Nat /\ k * q = (k - 1) * q + q /\ k * q \in Nat /\ 0 * q = 0  BY <1>1, <1>2
<1>6. CallsWith(n, h, h - k + 1) \in Positive  BY <1>1, <1>2, <1>3, <1>4 DEF Positive
<1>7. BlocksEnd(n, h, k - 1) = (k - 1) * q + IF k - 1 > h - r THEN (k - 1) - (h - r) ELSE 0
  BY <1>4, <1>5
<1>8. BlocksEnd(n, h, k) = k * q + IF k > h - r THEN k - (h - r) ELSE 0
  BY <1>4, <1>1
<1>9. BlocksEnd(n, h, k) = BlocksEnd(n, h, k - 1) + CallsWith(n, h, h - k + 1)
  BY <1>1, <1>2, <1>4, <1>5, <1>7, <1>8
<1>10. BlocksEnd(n, h, k - 1) \in Nat  BY <1>1, <1>2, <1>5, <1>7
<1>11. BlocksEnd(n, h, 0) = 0  BY <1>1, <1>2, <1>4, <1>5
<1>12. BlocksEnd(n, h, h) = n
  <2>1. BlocksEnd(n, h, h) = h * q + IF h > h - r THEN h - (h - r) ELSE 0  BY <1>1, <1>4
  <2>2. h * q \in Nat  BY <1>1, <1>2
  <2> QED  BY <1>1, <1>2, <2>1, <2>2
<1> QED  BY <1>6, <1>9, <1>10, <1>11, <1>12

LEMMA BlocksFall ==
  ASSUME NEW n \in Positive, NEW h \in Positive, n >= h, h > 1
  PROVE  LET s == FlattenSeq(Blocks(n, h))
         IN  s \in [1..n -> 1..h] /\ StaysAtOne(s, n) /\ s[n] = 1
<1> DEFINE ss == Blocks(n, h)
           Count(k) == CallsWith(n, h, h - k + 1)
           End(k) == BlocksEnd(n, h, k)
<1>1. n \in Nat /\ h \in Nat /\ n >= 1 /\ h >= 1  BY DEF Positive
<1>2. \A k \in 1..h : ss[k] = [i \in 1..Count(k) |-> h - k + 1]  BY DEF Blocks
<1>3. \A k \in 1..h : /\ Count(k) \in Nat /\ Count(k) >= 1
                      /\ End(k) = End(k - 1) + Count(k) /\ End(k - 1) \in Nat
  <2> TAKE k \in 1..h
  <2>1. /\ CallsWith(n, h, h - k + 1) \in Positive
        /\ BlocksEnd(n, h, k) = BlocksEnd(n, h, k - 1) + CallsWith(n, h, h - k + 1)
        /\ BlocksEnd(n, h, k - 1) \in Nat
    BY BlocksAre
  <2> QED  BY <2>1 DEF Positive
<1>4. End(0) = 0 /\ End(h) = n
  <2>1. 1 \in 1..h  BY <1>1
  <2> QED  BY <2>1, BlocksAre
<1>5. ss \in [1..h -> Seq(Nat)]
  <2>1. ss = [k \in 1..h |-> ss[k]]  BY DEF Blocks
  <2>2. ASSUME NEW k \in 1..h PROVE ss[k] \in Seq(Nat)
    <3>1. h - k + 1 \in Nat  BY <1>1
    <3>2. ss[k] \in [1..Count(k) -> Nat] /\ Count(k) \in Nat  BY <1>2, <1>3, <3>1
    <3> QED  BY <3>2, FunctionIsSeq
  <2> QED  BY <2>1, <2>2
<1> HIDE DEF ss, Count, End
<1>51. \A seqs \in [1..h -> Seq(Nat)] : \E f \in [1..h -> Seq(Nat)] :
         /\ f[1] = seqs[1]
         /\ \A k \in 2..h : f[k] = f[k - 1] \o seqs[k]
         /\ FlattenSeq(seqs) = f[h]
  BY Flattening
<1>6. PICK f \in [1..h -> Seq(Nat)] :
         /\ f[1] = ss[1]
         /\ \A k \in 2..h : f[k] = f[k - 1] \o ss[k]
         /\ FlattenSeq(ss) = f[h]
  BY <1>5, <1>51
\* The first k blocks have horizons from h down to h - k + 1.
<1> DEFINE Good(k) == f[k] \in [1..End(k) -> (h - k + 1)..h]
           T == {m \in Nat : m + 1 \in 1..h => Good(m + 1)}
<1>7. 0 \in T
  <2>1. 1 \in 1..h /\ 1 - 1 = 0 /\ h - 1 + 1 = h  BY <1>1
  <2>2. End(1) = Count(1)  BY <1>3, <1>4, <2>1
  <2>3. f[1] = [i \in 1..End(1) |-> h]  BY <1>2, <1>6, <2>1, <2>2
  <2>4. Good(1)  BY <1>1, <2>1, <2>3
  <2> QED  BY <2>4
<1>8. ASSUME NEW m \in T PROVE m + 1 \in T
  <2> SUFFICES ASSUME (m + 1) + 1 \in 1..h PROVE Good((m + 1) + 1)  OBVIOUS
  <2> DEFINE k == m + 1
  <2>1. m \in Nat /\ k \in 1..h /\ k + 1 \in 2..h /\ k + 1 \in 1..h /\ (k + 1) - 1 = k /\ Good(k)  BY <1>1
  <2> HIDE DEF T, k
  <2>2. f[k + 1] = f[k] \o ss[k + 1]  BY <1>6, <2>1
  <2> DEFINE S == (h - (k + 1) + 1)..h
  <2>3. ss[k + 1] \in [1..Count(k + 1) -> S]
    <3>1. h - (k + 1) + 1 \in S  BY <1>1, <2>1
    <3> QED  BY <1>2, <2>1, <3>1
  <2>4. f[k] \in [1..End(k) -> S]
    <3>1. (h - k + 1)..h \subseteq S  BY <1>1, <2>1
    <3> QED  BY <2>1, <3>1
  <2>5. Count(k + 1) \in Nat /\ End(k + 1) = End(k) + Count(k + 1) /\ End(k) \in Nat  BY <1>3, <2>1
  <2> HIDE DEF S
  <2>6. (f[k] \o ss[k + 1]) \in [1..(End(k) + Count(k + 1)) -> S]  BY <2>3, <2>4, <2>5, Concatenation
  <2>7. f[k + 1] \in [1..End(k + 1) -> S]  BY <2>2, <2>5, <2>6
  <2> QED  BY <2>7 DEF S, k
<1>9. T = Nat
  <2>1. T \in SUBSET Nat  OBVIOUS
  <2> HIDE DEF T
  <2> QED  BY <1>7, <1>8, <2>1, Inductive
<1>10. ASSUME NEW k \in 1..h PROVE Good(k)
  <2>1. k - 1 \in Nat /\ (k - 1) + 1 = k  BY <1>1
  <2>2. k - 1 \in T  BY <1>9, <2>1
  <2> QED  BY <2>1, <2>2
\* The last block, and no other, is of ones.
<1> HIDE DEF T, Good
<1> DEFINE a == End(h - 1)
           b == Count(h)
<1>11. h \in 1..h /\ h - 1 \in 1..h /\ h \in 2..h  BY <1>1
<1>12. a \in Nat /\ b \in Nat /\ b >= 1 /\ n = a + b  BY <1>3, <1>4, <1>11
<1>13. f[h] = f[h - 1] \o ss[h]  BY <1>6, <1>11
<1>14. f[h - 1] \in [1..a -> 2..h]
  <2>1. Good(h - 1) /\ h - (h - 1) + 1 = 2  BY <1>1, <1>10, <1>11
  <2> QED  BY <2>1 DEF Good
<1>15. ss[h] = [i \in 1..b |-> 1]
  <2>1. h - h + 1 = 1  BY <1>1
  <2> QED  BY <1>2, <1>11, <2>1
<1> HIDE DEF a, b
<1>16. f[h - 1] \in [1..a -> 1..h] /\ ss[h] \in [1..b -> 1..h]
  <2>1. 2..h \subseteq 1..h /\ 1 \in 1..h  BY <1>1
  <2> QED  BY <1>14, <1>15, <2>1
<1>17. /\ f[h] \in [1..n -> 1..h]
       /\ \A i \in 1..n : f[h][i] = IF i <= a THEN f[h - 1][i] ELSE ss[h][i - a]
  <2> DEFINE S == 1..h
             u == f[h - 1]
             v == ss[h]
  <2>1. u \in [1..a -> S] /\ v \in [1..b -> S]  BY <1>16
  <2>2. f[h] = u \o v  BY <1>13
  <2> HIDE DEF S, u, v
  <2>3. u \o v \in [1..(a + b) -> S]  BY <1>12, <2>1, Concatenation
  <2>4. \A i \in 1..(a + b) : (u \o v)[i] = IF i <= a THEN u[i] ELSE v[i - a]
    <3>1. u \in Seq(S) /\ Len(u) = a /\ v \in Seq(S) /\ Len(v) = b  BY <1>12, <2>1, FunctionIsSeq
    <3> QED  BY <3>1, ConcatProperties
  <2> QED  BY <1>12, <2>2, <2>3, <2>4 DEF S, u, v
<1>18. \A i \in 1..n : f[h][i] = 1 <=> i > a
  <2> TAKE i \in 1..n
  <2>1. CASE i <= a
    <3>1. i \in 1..a  BY <1>12, <2>1
    <3>2. f[h - 1][i] \in 2..h  BY <1>14, <3>1
    <3> QED  BY <1>1, <1>12, <1>17, <2>1, <3>2
  <2>2. CASE ~(i <= a)
    <3>1. i - a \in 1..b /\ i > a  BY <1>12, <2>2
    <3> QED  BY <1>15, <1>17, <2>2, <3>1
  <2> QED  BY <2>1, <2>2
<1>19. StaysAtOne(f[h], n)
  <2> SUFFICES ASSUME NEW i \in 1..n, NEW k \in 1..n, i <= k, f[h][i] = 1 PROVE f[h][k] = 1
    BY DEF StaysAtOne
  <2>1. i > a /\ k > a  BY <1>12, <1>18
  <2> QED  BY <1>18, <2>1
<1>20. n \in 1..n /\ n > a  BY <1>1, <1>12
<1> QED  BY <1>6, <1>17, <1>18, <1>19, <1>20 DEF ss

\* decreasing_schedule: every call has a horizon from 1 to h, one step is never left
\* again, and several calls end with it.
LEMMA DecreasingIs ==
  ASSUME NEW n \in Positive, NEW h \in Positive
  PROVE  LET s == DecreasingSchedule(n, h)
         IN  s \in [1..n -> 1..h] /\ StaysAtOne(s, n) /\ (n > 1 => s[n] = 1)
<1> DEFINE s == DecreasingSchedule(n, h)
<1>1. n \in Nat /\ h \in Nat /\ n >= 1 /\ h >= 1 /\ n \in 1..n  BY DEF Positive
<1>2. CASE h = 1
  <2>1. s = [i \in 1..n |-> 1]  BY <1>2 DEF DecreasingSchedule
  <2> HIDE DEF s
  <2> QED  BY <1>1, <2>1 DEF StaysAtOne, s
<1>3. CASE h # 1 /\ n = 1
  <2>1. s = <<h>>  BY <1>3 DEF DecreasingSchedule
  <2> HIDE DEF s
  <2>2. s \in [1..1 -> 1..h]  BY <1>1, <2>1
  <2>3. StaysAtOne(s, 1)  BY DEF StaysAtOne
  <2> QED  BY <1>3, <2>2, <2>3 DEF s
<1>4. CASE h # 1 /\ n # 1 /\ n < h
  <2>1. s = [i \in 1..n |-> Descent(n, h, i)]  BY <1>4 DEF DecreasingSchedule
  <2>2. n > 1 /\ h > 1  BY <1>1, <1>4
  <2>3. \A i \in 1..n : Descent(n, h, i) \in 1..h /\ (Descent(n, h, i) = 1 <=> i = n)
    BY <2>2, DescentIs
  <2> HIDE DEF s
  <2>4. s \in [1..n -> 1..h] /\ \A i \in 1..n : s[i] = 1 <=> i = n  BY <2>1, <2>3
  <2>5. StaysAtOne(s, n)
    <3> SUFFICES ASSUME NEW i \in 1..n, NEW k \in 1..n, i <= k, s[i] = 1 PROVE s[k] = 1
      BY DEF StaysAtOne
    <3>1. i = n /\ k = n  BY <1>1, <2>4
    <3> QED  BY <2>4, <3>1
  <2> QED  BY <1>1, <2>4, <2>5 DEF s
<1>5. CASE h # 1 /\ n # 1 /\ ~(n < h)
  <2>1. s = FlattenSeq(Blocks(n, h))  BY <1>5 DEF DecreasingSchedule, Blocks
  <2>2. n >= h /\ h > 1  BY <1>1, <1>5
  <2> QED  BY <2>1, <2>2, BlocksFall
<1> QED  BY <1>2, <1>3, <1>4, <1>5

\* A held schedule keeps pre while the level above is not down to one step, and is at
\* one step for good after that if pre is not.
LEMMA HeldIs ==
  ASSUME NEW n \in Positive, NEW above \in [1..n -> Positive],
         NEW pre \in Positive, NEW h \in Positive
  PROVE  LET s == HeldSchedule(above, pre, h)
         IN  /\ \A m \in Nat : pre <= m /\ h <= m => s \in [1..n -> 1..m]
             /\ StaysAtOne(above, n) => \A i \in 1..n : above[i] # 1 => s[i] = pre
             /\ pre > 1 => StaysAtOne(s, n)
<1> DEFINE s == HeldSchedule(above, pre, h)
           ones == {i \in 1..n : above[i] = 1}
<1>1. n \in Nat /\ n >= 1 /\ pre \in Nat /\ pre >= 1 /\ h \in Nat /\ h >= 1  BY DEF Positive
<1>2. Len(above) = n  BY <1>1, FunctionIsSeq
<1>3. CASE ones = {}
  <2> DEFINE u == [i \in 1..n |-> pre]
  <2>1. s = u \o <<>>  BY <1>2, <1>3 DEF HeldSchedule
  <2>2. u \in Seq(Nat)  BY <1>1, FunctionIsSeq
  <2>3. s = u
    <3> HIDE DEF u, s
    <3> QED  BY <2>1, <2>2, ConcatEmptySeq
  <2>4. \A i \in 1..n : s[i] = pre  BY <2>3
  <2>5. \A m \in Nat : pre <= m => s \in [1..n -> 1..m]  BY <1>1, <2>3
  <2> HIDE DEF s, u
  <2> QED  BY <2>4, <2>5 DEF StaysAtOne, s
<1>4. CASE ones # {}
  <2> DEFINE f == Min(ones)
             held == f - 1
             k == n - held
             u == [i \in 1..held |-> pre]
             d == DecreasingSchedule(k, h)
  <2>1. f \in ones /\ \A i \in ones : f <= i
    <3>1. \E x \in ones : \A y \in ones : x <= y
      <4>1. ones \in SUBSET Nat  OBVIOUS
      <4> HIDE DEF ones
      <4> QED  BY <1>4, <4>1, LeastNatural
    <3> HIDE DEF ones
    <3> QED  BY <3>1 DEF Min
  <2>2. s = u \o d  BY <1>2, <1>4 DEF HeldSchedule
  <2> HIDE DEF f, s
  <2>3. /\ held \in Nat /\ k \in Positive /\ k \in Nat /\ n = held + k
        /\ \A i \in 1..n : above[i] = 1 => i > held
        /\ above[held + 1] = 1 /\ held + 1 \in 1..n
    BY <1>1, <2>1 DEF Positive
  <2> HIDE DEF held, k, ones
  <2>4. d \in [1..k -> 1..h] /\ StaysAtOne(d, k)  BY <2>3, DecreasingIs
  <2> HIDE DEF d
  <2>5. ASSUME NEW m \in Nat, pre <= m, h <= m
        PROVE  /\ s \in [1..n -> 1..m]
               /\ \A i \in 1..n : s[i] = IF i <= held THEN u[i] ELSE d[i - held]
    <3> DEFINE S == 1..m
    <3>1. u \in [1..held -> S] /\ d \in [1..k -> S]  BY <1>1, <2>4, <2>5
    <3> HIDE DEF S, u
    <3>2. u \o d \in [1..(held + k) -> S]  BY <2>3, <3>1, Concatenation
    <3>3. u \in Seq(S) /\ Len(u) = held /\ d \in Seq(S) /\ Len(d) = k  BY <2>3, <3>1, FunctionIsSeq
    <3>4. \A i \in 1..(held + k) : (u \o d)[i] = IF i <= held THEN u[i] ELSE d[i - held]
      BY <3>3, ConcatProperties
    <3> QED  BY <2>2, <2>3, <3>2, <3>4 DEF S
  <2>6. \A i \in 1..n : s[i] = IF i <= held THEN pre ELSE d[i - held]
    <3>1. pre + h \in Nat /\ pre <= pre + h /\ h <= pre + h  BY <1>1
    <3>2. \A i \in 1..n : s[i] = IF i <= held THEN u[i] ELSE d[i - held]  BY <2>5, <3>1
    <3>3. ASSUME NEW i \in 1..n, i <= held PROVE u[i] = pre
      <4>1. i \in 1..held  BY <2>3, <3>3
      <4> QED  BY <4>1
    <3> HIDE DEF u
    <3> QED  BY <3>2, <3>3
  <2>7. ASSUME StaysAtOne(above, n), NEW i \in 1..n, above[i] # 1 PROVE s[i] = pre
    <3>1. ~(held + 1 <= i)  BY <2>3, <2>7 DEF StaysAtOne
    <3>2. i <= held  BY <2>3, <3>1
    <3> QED  BY <2>6, <3>2
  <2>8. ASSUME pre > 1 PROVE StaysAtOne(s, n)
    <3> SUFFICES ASSUME NEW i \in 1..n, NEW j \in 1..n, i <= j, s[i] = 1 PROVE s[j] = 1
      BY DEF StaysAtOne
    <3>1. ~(i <= held)  BY <1>1, <2>6, <2>8
    <3>2. i - held \in 1..k /\ j - held \in 1..k /\ i - held <= j - held /\ ~(j <= held)  BY <2>3, <3>1
    <3>3. d[i - held] = 1  BY <2>6, <3>1
    <3>4. d[j - held] = 1  BY <2>4, <3>2, <3>3 DEF StaysAtOne
    <3> QED  BY <2>6, <3>2, <3>4
  <2> QED  BY <2>5, <2>7, <2>8 DEF s
<1> QED  BY <1>3, <1>4

\* The settings of an episode are typed, whatever the caller gives.
LEMMA SettingsAre ==
  ASSUME levels \in Settings, stride \in Strides
  PROVE  /\ N \in Nat /\ N >= 1
         /\ \A l \in 1..N : /\ levels[l].horizon \in Positive /\ levels[l].subgoals \in Positive
                            /\ levels[l].pre \in Int /\ levels[l].lastN \in Int
                            /\ levels[l].goalUpper \in BOOLEAN
                            /\ stride[l] \in Positive
         /\ \A l \in 1..(N - 1) : PreDecay(levels, stride, l) \in Positive
<1>1. N \in Nat /\ N >= 1  BY PlannerAssumption
<1>2. levels \in [1..N -> [horizon : Positive, pre : Int, subgoals : Positive, lastN : Int,
                           goalUpper : BOOLEAN]]
      /\ stride \in [1..N -> Positive]
  BY PlannerAssumption DEF Positive
<1>3. ASSUME NEW l \in 1..(N - 1) PROVE PreDecay(levels, stride, l) \in Positive
  <2>1. l \in 1..N /\ l + 1 \in 1..N  BY <1>1
  <2>2. levels[l].pre \in Int /\ stride[l + 1] \in Positive  BY <1>2, <2>1
  <2> QED  BY <2>2 DEF PreDecay, Positive
<1> QED  BY <1>1, <1>2, <1>3

\* Schedules has one for each level, made from the one above.
LEMMA SchedulesAre ==
  ASSUME levels \in Settings, stride \in Strides, NEW n \in Positive
  PROVE  LET s == Schedules(N, levels, stride, n)
         IN  /\ \A l \in 1..N : s[l] \in [1..n -> Positive]
             /\ s[N] = DecreasingSchedule(n, levels[N].horizon)
             /\ \A l \in 1..(N - 1) :
                   s[l] = HeldSchedule(s[l + 1], PreDecay(levels, stride, l), levels[l].horizon)
<1> DEFINE X == [1..n -> Positive]
           top == DecreasingSchedule(n, levels[N].horizon)
           Below(l, x) == HeldSchedule(x, PreDecay(levels, stride, l), levels[l].horizon)
           G == [k \in Nat |-> [x \in X |-> IF k \in 2..N THEN Below(N - k + 1, x) ELSE x]]
           Body(f) == [l \in 1..N |-> IF l = N THEN top ELSE Below(l, f[l + 1])]
           s == CHOOSE f : f = Body(f)
<1>1. N \in Nat /\ N >= 1 /\ \A l \in 1..N : levels[l].horizon \in Positive  BY SettingsAre
<1>2. ASSUME NEW l \in 1..(N - 1), NEW x \in X PROVE Below(l, x) \in X
  <2>1. l \in 1..N  BY <1>1
  <2> DEFINE pre == PreDecay(levels, stride, l)
             h == levels[l].horizon
             m == pre + h
  <2>2. pre \in Positive /\ h \in Positive  BY <2>1, SettingsAre
  <2>3. m \in Nat /\ pre <= m /\ h <= m /\ 1..m \subseteq Positive  BY <2>2 DEF Positive
  <2> HIDE DEF pre, h, m
  <2>4. HeldSchedule(x, pre, h) \in [1..n -> 1..m]  BY <2>2, <2>3, HeldIs
  <2> QED  BY <2>3, <2>4 DEF pre, h
<1>3. top \in X
  <2> DEFINE h == levels[N].horizon
  <2>1. h \in Positive /\ 1..h \subseteq Positive  BY <1>1 DEF Positive
  <2> HIDE DEF h
  <2>2. DecreasingSchedule(n, h) \in [1..n -> 1..h]  BY <2>1, DecreasingIs
  <2> QED  BY <2>1, <2>2 DEF h
<1>4. Schedules(N, levels, stride, n) = s  BY DEF Schedules
<1> HIDE DEF X, top, Below
<1>5. G \in [Nat -> [X -> X]]
  <2> SUFFICES ASSUME NEW k \in Nat, NEW x \in X
               PROVE  (IF k \in 2..N THEN Below(N - k + 1, x) ELSE x) \in X
    OBVIOUS
  <2>1. k \in 2..N => N - k + 1 \in 1..(N - 1)  BY <1>1
  <2> QED  BY <1>2, <2>1
<1>6. PICK g : g \in Iterations(X, top, G, N)
  <2> HIDE DEF G
  <2>1. Iterations(X, top, G, N) # {}  BY <1>1, <1>3, <1>5, Recursion
  <2> QED  BY <2>1
<1>7. g \in [1..N -> X] /\ \A k \in 1..N : g[k] = IF k = 1 THEN top ELSE G[k][g[k - 1]]
  BY <1>6 DEF Iterations
<1> HIDE DEF G
<1> DEFINE r == [l \in 1..N |-> g[N - l + 1]]
<1>8. ASSUME NEW l \in 1..N PROVE r[l] = IF l = N THEN top ELSE Below(l, r[l + 1])
  <2>1. r[l] = g[N - l + 1] /\ N - l + 1 \in 1..N  BY <1>1
  <2>2. CASE l = N
    <3>1. 1 \in 1..N /\ N - l + 1 = 1  BY <1>1, <2>2
    <3>2. g[1] = top  BY <1>7, <3>1
    <3> QED  BY <2>1, <2>2, <3>1, <3>2
  <2>3. CASE l # N
    <3> DEFINE k == N - l + 1
    <3>1. k \in 2..N /\ k \in Nat /\ k # 1 /\ k - 1 \in 1..N /\ N - k + 1 = l /\ k - 1 = N - (l + 1) + 1
          /\ l + 1 \in 1..N
      BY <1>1, <2>3
    <3> HIDE DEF k
    <3>2. g[k - 1] \in X /\ g[k] = G[k][g[k - 1]]  BY <1>7, <3>1
    <3>3. G[k][g[k - 1]] = Below(l, g[k - 1])  BY <3>1, <3>2 DEF G
    <3>4. r[l + 1] = g[k - 1]  BY <3>1
    <3> QED  BY <2>1, <2>3, <3>2, <3>3, <3>4 DEF k
  <2> QED  BY <2>2, <2>3
<1>9. r = Body(r)  BY <1>8
<1>10. s = Body(s)
  <2> HIDE DEF Body, r
  <2> QED  BY <1>9
<1> HIDE DEF s, r
<1>11. s[N] = top /\ \A l \in 1..(N - 1) : s[l] = Below(l, s[l + 1])
  <2>1. \A l \in 1..N : s[l] = IF l = N THEN top ELSE Below(l, s[l + 1])  BY <1>10
  <2> HIDE DEF Body
  <2> QED  BY <1>1, <2>1
<1> DEFINE T == {m \in Nat : m < N => s[N - m] \in X}
<1>12. 0 \in T
  <2>1. N - 0 = N  BY <1>1
  <2> QED  BY <1>3, <1>11, <2>1
<1>13. ASSUME NEW m \in T PROVE m + 1 \in T
  <2> SUFFICES ASSUME m + 1 < N PROVE s[N - (m + 1)] \in X  OBVIOUS
  <2>1. m \in Nat /\ s[N - m] \in X  BY <1>1
  <2> HIDE DEF T
  <2>2. N - (m + 1) \in 1..(N - 1) /\ (N - (m + 1)) + 1 = N - m  BY <1>1, <2>1
  <2> QED  BY <1>2, <1>11, <2>1, <2>2
<1>14. T = Nat
  <2>1. T \in SUBSET Nat  OBVIOUS
  <2> HIDE DEF T
  <2> QED  BY <1>12, <1>13, <2>1, Inductive
<1>15. ASSUME NEW l \in 1..N PROVE s[l] \in X
  <2>1. N - l \in Nat /\ N - l < N /\ N - (N - l) = l  BY <1>1
  <2>2. N - l \in T  BY <1>14, <2>1
  <2> QED  BY <2>1, <2>2
<1> HIDE DEF T
<1> QED  BY <1>4, <1>11, <1>15 DEF X, top, Below

\* With settings that fit together every horizon is in range, and a level whose upper
\* level has not come down to one step has its pre-decay horizon.
LEMMA MatchedSchedules ==
  ASSUME levels \in Settings, stride \in Strides, Matched, NEW n \in Positive
  PROVE  LET s == Schedules(N, levels, stride, n)
         IN  /\ \A l \in 1..N : s[l] \in [1..n -> 1..FrameLimit]
             /\ \A l \in 1..(N - 1) : \A i \in 1..n :
                   s[l + 1][i] # 1 => s[l][i] = PreDecay(levels, stride, l)
<1> DEFINE s == Schedules(N, levels, stride, n)
           X == [1..n -> Positive]
           Fits(l) == s[l] \in [1..n -> 1..FrameLimit] /\ (l > 1 => StaysAtOne(s[l], n))
<1>1. N \in Nat /\ N >= 1 /\ FrameLimit \in Nat  BY SettingsAre, PlannerAssumption
<1>2. /\ \A l \in 1..N : s[l] \in X
      /\ s[N] = DecreasingSchedule(n, levels[N].horizon)
      /\ \A l \in 1..(N - 1) :
            s[l] = HeldSchedule(s[l + 1], PreDecay(levels, stride, l), levels[l].horizon)
  BY SchedulesAre
<1> HIDE DEF s
<1>3. ASSUME NEW l \in 1..(N - 1)
      PROVE  /\ l + 1 \in 1..N /\ l \in 1..N
             /\ PreDecay(levels, stride, l) \in Positive /\ levels[l].horizon \in Positive
             /\ PreDecay(levels, stride, l) <= FrameLimit /\ levels[l].horizon <= FrameLimit
             /\ l > 1 => PreDecay(levels, stride, l) > 1
  <2>1. l + 1 \in 1..N /\ l \in 1..N  BY <1>1
  <2>2. stride[l + 1] \in Positive /\ levels[l].horizon \in Positive
        /\ PreDecay(levels, stride, l) \in Positive
    BY <2>1, SettingsAre
  <2>3. /\ levels[l].horizon <= FrameLimit
        /\ PreDecay(levels, stride, l) \in stride[l + 1]..FrameLimit
        /\ l > 1 => PreDecay(levels, stride, l) > 1
    BY <2>1 DEF Matched
  <2> QED  BY <1>1, <2>1, <2>2, <2>3 DEF Positive
<1>4. ASSUME NEW l \in 1..(N - 1)
      PROVE  /\ s[l] \in [1..n -> 1..FrameLimit]
             /\ StaysAtOne(s[l + 1], n) =>
                   \A i \in 1..n : s[l + 1][i] # 1 => s[l][i] = PreDecay(levels, stride, l)
             /\ PreDecay(levels, stride, l) > 1 => StaysAtOne(s[l], n)
  <2> DEFINE pre == PreDecay(levels, stride, l)
             h == levels[l].horizon
             above == s[l + 1]
             t == HeldSchedule(above, pre, h)
  <2>1. pre \in Positive /\ h \in Positive /\ pre <= FrameLimit /\ h <= FrameLimit
        /\ above \in [1..n -> Positive]
    BY <1>2, <1>3
  <2>2. s[l] = t  BY <1>2
  <2> HIDE DEF pre, h, above
  <2>3. /\ \A m \in Nat : pre <= m /\ h <= m => t \in [1..n -> 1..m]
        /\ StaysAtOne(above, n) => \A i \in 1..n : above[i] # 1 => t[i] = pre
        /\ pre > 1 => StaysAtOne(t, n)
    BY <2>1, HeldIs
  <2> HIDE DEF t
  <2>4. t \in [1..n -> 1..FrameLimit]  BY <1>1, <2>1, <2>3
  <2> QED  BY <2>2, <2>3, <2>4 DEF pre, above
<1> DEFINE T == {m \in Nat : m < N => Fits(N - m)}
<1>5. 0 \in T
  <2> DEFINE h == levels[N].horizon
  <2>1. h \in Positive /\ h <= FrameLimit  BY <1>1, SettingsAre DEF Matched
  <2> HIDE DEF h
  <2>2. DecreasingSchedule(n, h) \in [1..n -> 1..h] /\ StaysAtOne(DecreasingSchedule(n, h), n)
    BY <2>1, DecreasingIs
  <2>3. 1..h \subseteq 1..FrameLimit  BY <1>1, <2>1 DEF Positive
  <2>4. Fits(N)  BY <1>2, <2>2, <2>3 DEF h
  <2>5. N - 0 = N  BY <1>1
  <2> QED  BY <2>4, <2>5
<1>6. ASSUME NEW m \in T PROVE m + 1 \in T
  <2> SUFFICES ASSUME m + 1 < N PROVE Fits(N - (m + 1))  OBVIOUS
  <2>1. N - (m + 1) \in 1..(N - 1)  BY <1>1
  <2> QED  BY <1>3, <1>4, <2>1
<1>7. T = Nat
  <2>1. T \in SUBSET Nat  OBVIOUS
  <2> HIDE DEF T
  <2> QED  BY <1>5, <1>6, <2>1, Inductive
<1>8. ASSUME NEW l \in 1..N PROVE Fits(l)
  <2>1. N - l \in Nat /\ N - l < N /\ N - (N - l) = l  BY <1>1
  <2>2. N - l \in T  BY <1>7, <2>1
  <2> QED  BY <2>1, <2>2
<1> HIDE DEF T
<1>9. ASSUME NEW l \in 1..(N - 1), NEW i \in 1..n, s[l + 1][i] # 1
      PROVE  s[l][i] = PreDecay(levels, stride, l)
  <2>1. l + 1 \in 1..N /\ l + 1 > 1  BY <1>1
  <2>2. StaysAtOne(s[l + 1], n)  BY <1>8, <2>1
  <2> QED  BY <1>4, <1>9, <2>2
<1>10. \A l \in 1..N : s[l] \in [1..n -> 1..FrameLimit]  BY <1>8
<1> QED  BY <1>9, <1>10 DEF s

\* A plan read in its own level, or densely, is scored at every state.
LEMMA ScoredSame ==
  ASSUME NEW l \in Nat, NEW g \in Nat, l <= g, NEW h \in Nat, NEW dense, dense = TRUE \/ g = l
  PROVE  Scored(l, g, h, dense) = h
<1> DEFINE d(k) == IF dense THEN 1 ELSE stride[k]
           Body(f) == [k \in l..g |-> IF k = l THEN h + 1 ELSE (f[k - 1] - 1) \div d(k) + 1]
           len == CHOOSE f : f = Body(f)
           r == [k \in l..g |-> h + 1]
<1>1. (h + 1 - 1) \div 1 + 1 = h + 1
  <2>1. h \div 1 = h
    <3>1. 1 \in Positive  BY DEF Positive
    <3>2. h \div 1 <= h  BY <3>1, DivisionAtMost
    <3>3. h \div 1 >= h  BY <3>1, DivisionAtLeast
    <3>4. h \div 1 \in Nat  BY <3>1, Division
    <3> QED  BY <3>2, <3>3, <3>4
  <2>2. h + 1 - 1 = h  OBVIOUS
  <2> QED  BY <2>1, <2>2
<1>2. \A k \in l..g : k # l => d(k) = 1 /\ k - 1 \in l..g  OBVIOUS
<1>3. r = Body(r)
  <2>1. ASSUME NEW k \in l..g
        PROVE  h + 1 = IF k = l THEN h + 1 ELSE (r[k - 1] - 1) \div d(k) + 1
    <3>1. CASE k = l  BY <3>1
    <3>2. CASE k # l
      <4>1. d(k) = 1 /\ r[k - 1] = h + 1  BY <1>2, <3>2
      <4> HIDE DEF d, r
      <4> QED  BY <1>1, <3>2, <4>1
    <3> QED  BY <3>1, <3>2
  <2> HIDE DEF d
  <2>2. Body(r) = [k \in l..g |-> h + 1]  BY <2>1
  <2> QED  BY <2>2
<1> HIDE DEF r
<1>4. len = Body(len)
  <2> HIDE DEF Body
  <2> QED  BY <1>3
<1> HIDE DEF len
<1>5. \A k \in l..g : len[k] = IF k = l THEN h + 1 ELSE (len[k - 1] - 1) \div d(k) + 1
  BY <1>4
<1> HIDE DEF Body, d
<1> DEFINE T == {m \in Nat : l + m <= g => len[l + m] = h + 1}
<1>6. 0 \in T
  <2>1. l \in l..g /\ l + 0 = l  OBVIOUS
  <2>2. len[l] = h + 1  BY <1>5, <2>1
  <2> QED  BY <2>1, <2>2
<1>7. ASSUME NEW m \in T PROVE m + 1 \in T
  <2> SUFFICES ASSUME l + (m + 1) <= g PROVE len[l + (m + 1)] = h + 1  OBVIOUS
  <2>1. m \in Nat /\ len[l + m] = h + 1  OBVIOUS
  <2> HIDE DEF T
  <2> DEFINE k == l + (m + 1)
  <2>2. k \in l..g /\ k # l /\ k - 1 = l + m  BY <2>1
  <2> HIDE DEF k
  <2>3. d(k) = 1  BY <1>2, <2>2
  <2>4. len[k] = (len[k - 1] - 1) \div d(k) + 1  BY <1>5, <2>2
  <2>5. len[k] = (h + 1 - 1) \div 1 + 1  BY <2>1, <2>2, <2>3, <2>4
  <2> QED  BY <1>1, <2>5 DEF k
<1>8. T = Nat
  <2>1. T \in SUBSET Nat  OBVIOUS
  <2> HIDE DEF T
  <2> QED  BY <1>6, <1>7, <2>1, Inductive
<1>9. len[g] = h + 1
  <2>1. g - l \in Nat /\ l + (g - l) = g  OBVIOUS
  <2>2. g - l \in T  BY <1>8, <2>1
  <2> QED  BY <2>1, <2>2
<1>10. Scored(l, g, h, dense) = len[g] - 1  BY DEF Scored, len, Body, d
<1> QED  BY <1>9, <1>10

\* One read at the level above is scored at every stride-th state.
LEMMA ScoredAbove ==
  ASSUME NEW l \in Nat, NEW h \in Nat, stride[l + 1] \in Positive
  PROVE  Scored(l, l + 1, h, FALSE) = h \div stride[l + 1]
<1> DEFINE Body(f) == [k \in l..(l + 1) |->
                          IF k = l THEN h + 1 ELSE (f[k - 1] - 1) \div stride[k] + 1]
           len == CHOOSE f : f = Body(f)
           r == [k \in l..(l + 1) |-> IF k = l THEN h + 1 ELSE h \div stride[l + 1] + 1]
<1>1. h + 1 - 1 = h /\ l + 1 # l /\ l + 1 - 1 = l /\ l..(l + 1) = {l, l + 1}
      /\ l \in l..(l + 1) /\ l + 1 \in l..(l + 1)
  OBVIOUS
<1>2. r = Body(r)
  <2>1. ASSUME NEW k \in l..(l + 1)
        PROVE  r[k] = IF k = l THEN h + 1 ELSE (r[k - 1] - 1) \div stride[k] + 1
    <3>1. CASE k = l  BY <3>1
    <3>2. CASE k = l + 1  BY <1>1, <3>2
    <3> QED  BY <1>1, <3>1, <3>2
  <2> QED  BY <2>1
<1> HIDE DEF r
<1>3. len = Body(len)
  <2> HIDE DEF Body
  <2> QED  BY <1>2
<1> HIDE DEF len
<1>4. \A k \in l..(l + 1) :
         len[k] = IF k = l THEN h + 1 ELSE (len[k - 1] - 1) \div stride[k] + 1
  BY <1>3
<1>5. len[l] = h + 1  BY <1>1, <1>4
<1>6. len[l + 1] = (len[l] - 1) \div stride[l + 1] + 1  BY <1>1, <1>4
<1>7. len[l + 1] = h \div stride[l + 1] + 1  BY <1>1, <1>5, <1>6
<1>8. Scored(l, l + 1, h, FALSE) = len[l + 1] - 1  BY DEF Scored, len, Body
<1>9. h \div stride[l + 1] \in Nat  BY Division
<1>10. ASSUME NEW q \in Nat PROVE q + 1 - 1 = q  OBVIOUS
<1>11. len[l + 1] - 1 = h \div stride[l + 1]  BY <1>7, <1>9, <1>10
<1> QED  BY <1>8, <1>11, Zenon

\* The call is the number of intervals so far, and the calls cover the budget.
LEMMA CallsAre ==
  ASSUME interval \in Positive, budget \in Positive, NEW k \in Nat, steps = k * interval
  PROVE  /\ call = k /\ calls \in Nat
         /\ steps + interval >= budget => calls <= k + 1
         /\ steps > 0 => k > 0
<1>1. call = k
  <2>1. k * interval \in Nat /\ k * interval < (k + 1) * interval /\ k * interval >= k * interval
    BY DEF Positive
  <2>2. (k * interval) \div interval <= k  BY <2>1, DivisionAtMost
  <2>3. (k * interval) \div interval >= k  BY <2>1, DivisionAtLeast
  <2>4. (k * interval) \div interval \in Nat  BY <2>1, Division
  <2> QED  BY <2>2, <2>3, <2>4 DEF call
<1>2. budget \in Nat  BY DEF Positive
<1>3. CeilDiv(budget, interval) \in Nat
      /\ \A c \in Nat : budget <= c * interval => CeilDiv(budget, interval) <= c
  BY <1>2, RoundedUp
<1>4. steps + interval >= budget => calls <= k + 1
  <2>1. steps + interval = (k + 1) * interval  BY DEF Positive
  <2> QED  BY <1>2, <1>3, <2>1 DEF calls
<1>5. steps > 0 => k > 0  BY DEF Positive
<1> QED  BY <1>1, <1>3, <1>4, <1>5 DEF calls

-----------------------------------------------------------------------------
(***************************************************************************)
(* The invariant.  A plan made under another one is a function of it: the  *)
(* waypoints are its states, and the last one is the real goal if that     *)
(* plan ends there.  A plan made on its own aims at the real goal, at the  *)
(* highest level that asked for it.                                        *)
(***************************************************************************)
TypeInv ==
    /\ levels \in Settings /\ stride \in Strides /\ interval \in Intervals /\ budget \in Budgets
    /\ pc \in {"horizons", "levels", "planned", "over", "failed"}
    /\ hz \in [1..N -> Positive]
    /\ lv \in 0..N /\ skipped \in 0..N /\ haveUpper \in BOOLEAN /\ anchored \in BOOLEAN
StepsAre == \E k \in Nat : steps = k * interval
PlanIsTable == plan = [l \in 1..N |-> plan[l]]

\* The plan of a level ends at the real goal.
Anchored(l) == plan[l].goals[Len(plan[l].goals)] = <<"goal", plan[l].goalLevel>>

\* The plan of level l aims at the first states of the plan of the level above.
NWaypoints(l) == Min2(levels[l + 1].subgoals, hz[l + 1])
EndsThere(l) == levels[l + 1].subgoals >= hz[l + 1] /\ Anchored(l + 1)
Waypoints(l) ==
    [i \in 1..NWaypoints(l) |-> IF i = NWaypoints(l) /\ EndsThere(l) THEN <<"goal", l + 1>>
                               ELSE <<"state", l + 1, i>>]
Under(l) ==
    /\ plan[l].goals = Waypoints(l) /\ plan[l].goalLevel = l + 1
    /\ NWaypoints(l) > 1 => NWaypoints(l) = (hz[l] + stride[l + 1]) \div stride[l + 1] - 1

\* The levels above l up to g were skipped and ask for the goal, the next one does not.
AskedUpTo(l, g) ==
    /\ g \in l..N
    /\ \A m \in (l + 1)..g : levels[m].goalUpper /\ ~Planned(m)
    /\ g < N => ~levels[g + 1].goalUpper \/ Planned(g + 1)

\* The plan of level l aims at the real goal.
Free(l) ==
    plan[l].goals = <<<<"goal", plan[l].goalLevel>>>> /\ AskedUpTo(l, plan[l].goalLevel)

\* Only levels the loop is done with have plans, and none of one step but the first.
PlannedAbove == \A l \in 1..N : Planned(l) => l > lv /\ (l = 1 \/ hz[l] # 1)

PlansAre == \A l \in 1..N : Planned(l) => IF l < N /\ Planned(l + 1) THEN Under(l) ELSE Free(l)

\* What the loop carries from one level to the next.
Carried ==
    pc = "levels" =>
        /\ lv >= 1
        /\ haveUpper <=> lv < N /\ Planned(lv + 1)
        /\ haveUpper => upper = lv + 1 /\ (anchored <=> Anchored(lv + 1))
        /\ AskedUpTo(lv, IF skipped # 0 THEN skipped ELSE lv)

\* Every level the loop is done with has its plan, or was skipped.
DoneAbove ==
    pc \in {"levels", "planned"} =>
        /\ \A l \in 1..N : l > lv /\ (l = 1 \/ hz[l] # 1) => Planned(l)
        /\ pc = "planned" => lv = 0

\* The horizons of a call of settings that fit together.
HorizonsFit ==
    Matched /\ pc \in {"levels", "planned"} =>
        /\ \A l \in 1..N : hz[l] \in 1..FrameLimit
        /\ \A l \in 1..(N - 1) : hz[l + 1] # 1 => hz[l] = PreDecay(levels, stride, l)

TopCountsDown ==
    pc \in {"levels", "planned"} =>
        (steps > 0 /\ steps + interval >= budget => hz[N] = 1)

PlannerInv ==
    /\ TypeInv /\ StepsAre /\ PlanIsTable /\ PlannedAbove /\ PlansAre /\ Carried /\ DoneAbove
    /\ HorizonsFit /\ TopCountsDown /\ EveryCallPlans

-----------------------------------------------------------------------------
(***************************************************************************)
(* The steps preserve it.                                                  *)
(***************************************************************************)

\* Settings that fit together go on doing so: nothing changes them.
LEMMA MatchedKept ==
  ASSUME UNCHANGED <<levels, stride>>
  PROVE  Matched' = Matched
BY DEF Matched, PreDecay

\* A step that leaves the horizons and the plans leaves what is said of them.
LEMMA PlansKept ==
  ASSUME UNCHANGED <<levels, stride, hz, plan>>
  PROVE  /\ \A l \in 1..N : Planned(l)' = Planned(l)
         /\ \A l \in 1..N : Anchored(l)' = Anchored(l)
         /\ PlansAre' = PlansAre
<1>1. \A l \in 1..N : Planned(l)' = Planned(l) /\ Anchored(l)' = Anchored(l)
  BY DEF Planned, NoPlan, Anchored
<1>2. PlansAre' = PlansAre
  BY DEF PlansAre, Under, Free, AskedUpTo, Waypoints, NWaypoints, Min2, EndsThere, Planned, NoPlan, Anchored
<1> QED  BY <1>1, <1>2

\* The types of the settings, without the records they come in.
LEMMA Typed ==
  ASSUME TypeInv
  PROVE  /\ levels \in Settings /\ stride \in Strides
         /\ interval \in Positive /\ budget \in Positive
         /\ N \in Nat /\ N >= 1 /\ FrameLimit \in Nat
         /\ hz \in [1..N -> Positive] /\ lv \in 0..N
<1>1. N \in Nat /\ N >= 1  BY SettingsAre DEF TypeInv
<1> QED  BY <1>1, PlannerAssumption DEF TypeInv, Positive

LEMMA InitInv == PlannerInit => PlannerInv
<1> SUFFICES ASSUME PlannerInit PROVE PlannerInv  OBVIOUS
<1>1. levels \in Settings /\ stride \in Strides /\ interval \in Intervals /\ budget \in Budgets
  BY DEF PlannerInit
<1>2. N \in Nat /\ N >= 1  BY <1>1, SettingsAre
<1>3. interval \in Positive  BY <1>1, PlannerAssumption DEF Positive
<1>4. StepsAre
  <2>1. 0 \in Nat /\ 0 * interval = 0 /\ steps = 0  BY <1>3 DEF PlannerInit, Positive
  <2> QED  BY <2>1 DEF StepsAre
<1>5. TypeInv
  <2>1. pc \in {"horizons", "levels", "planned", "over", "failed"}  BY DEF PlannerInit
  <2>2. hz \in [1..N -> Positive]  BY DEF PlannerInit, Positive
  <2>3. lv \in 0..N /\ skipped \in 0..N  BY <1>2 DEF PlannerInit
  <2>4. haveUpper \in BOOLEAN /\ anchored \in BOOLEAN  BY DEF PlannerInit
  <2> QED  BY <1>1, <2>1, <2>2, <2>3, <2>4 DEF TypeInv
<1>9. PlanIsTable
  <2> DEFINE none == NoPlan
  <2>1. plan = [l \in 1..N |-> none]  BY DEF PlannerInit
  <2> HIDE DEF none
  <2> QED  BY <2>1 DEF PlanIsTable
<1>6. \A l \in 1..N : ~Planned(l)  BY DEF PlannerInit, Planned
<1>7. PlannedAbove /\ PlansAre  BY <1>6 DEF PlannedAbove, PlansAre
<1>8. pc = "horizons"  BY DEF PlannerInit
<1> QED  BY <1>4, <1>5, <1>7, <1>8, <1>9
         DEF PlannerInv, Carried, DoneAbove, HorizonsFit, TopCountsDown, EveryCallPlans

\* A call starts: the schedules give its horizons.
LEMMA HorizonsKeepsInv == PlannerInv /\ Horizons => PlannerInv'
<1> SUFFICES ASSUME PlannerInv, Horizons PROVE PlannerInv'  OBVIOUS
<1> DEFINE s == Schedules(N, levels, stride, calls)
<1>1. TypeInv  BY DEF PlannerInv
<1>2. /\ levels \in Settings /\ stride \in Strides
      /\ interval \in Positive /\ budget \in Positive
      /\ N \in Nat /\ N >= 1 /\ FrameLimit \in Nat
  BY <1>1, Typed
<1>3. PICK k \in Nat : steps = k * interval  BY DEF PlannerInv, StepsAre
<1>4. /\ call = k /\ calls \in Nat
      /\ steps + interval >= budget => calls <= k + 1
      /\ steps > 0 => k > 0
  BY <1>2, <1>3, CallsAre
<1>5. hz' = [l \in 1..N |-> s[l][k + 1]] /\ k < calls  BY <1>4 DEF Horizons
<1>6. calls \in Positive /\ k + 1 \in 1..calls  BY <1>4, <1>5 DEF Positive
<1>7. UNCHANGED <<levels, stride, interval, budget, steps>>  BY DEF Horizons, config
<1>8. /\ \A l \in 1..N : s[l] \in [1..calls -> Positive]
      /\ s[N] = DecreasingSchedule(calls, levels[N].horizon)
  BY <1>2, <1>6, SchedulesAre
<1>9. Matched => /\ \A l \in 1..N : s[l] \in [1..calls -> 1..FrameLimit]
                 /\ \A l \in 1..(N - 1) : \A i \in 1..calls :
                       s[l + 1][i] # 1 => s[l][i] = PreDecay(levels, stride, l)
  BY <1>2, <1>6, MatchedSchedules
<1> HIDE DEF s
<1>10. TypeInv'
  <2>1. hz' \in [1..N -> Positive]  BY <1>5, <1>6, <1>8
  <2>2. lv' = N /\ skipped' = 0 /\ haveUpper' = FALSE /\ anchored' = TRUE /\ pc' = "levels"
    BY DEF Horizons
  <2>3. haveUpper' \in BOOLEAN /\ anchored' \in BOOLEAN  BY <2>2
  <2>4. lv' \in 0..N /\ skipped' \in 0..N  BY <1>2, <2>2
  <2>5. pc' \in {"horizons", "levels", "planned", "over", "failed"}  BY <2>2
  <2>6. levels' \in Settings /\ stride' \in Strides /\ interval' \in Intervals /\ budget' \in Budgets
    BY <1>1, <1>7 DEF TypeInv
  <2> QED  BY <2>1, <2>3, <2>4, <2>5, <2>6 DEF TypeInv
<1>19. StepsAre'  BY <1>3, <1>7 DEF StepsAre
<1>20. PlanIsTable'
  <2> DEFINE none == NoPlan
  <2>1. plan' = [l \in 1..N |-> none]  BY DEF Horizons
  <2> HIDE DEF none
  <2> QED  BY <2>1 DEF PlanIsTable
<1>11. \A l \in 1..N : ~Planned(l)'  BY DEF Horizons, Planned
<1>12. PlannedAbove' /\ PlansAre'  BY <1>11 DEF PlannedAbove, PlansAre
<1>13. pc' = "levels" /\ lv' = N /\ haveUpper' = FALSE /\ skipped' = 0  BY DEF Horizons
<1>14. Carried'
  <2>1. AskedUpTo(N, N)'  BY <1>2 DEF AskedUpTo
  <2> QED  BY <1>2, <1>13, <2>1 DEF Carried
<1>15. DoneAbove'  BY <1>2, <1>13 DEF DoneAbove
<1>16. HorizonsFit'
  <2> SUFFICES ASSUME Matched'
               PROVE  /\ \A l \in 1..N : hz'[l] \in 1..FrameLimit
                      /\ \A l \in 1..(N - 1) :
                            hz'[l + 1] # 1 => hz'[l] = PreDecay(levels, stride, l)'
    BY DEF HorizonsFit
  <2>1. Matched  BY <1>7, MatchedKept
  <2>2. \A l \in 1..N : hz'[l] \in 1..FrameLimit  BY <1>5, <1>6, <1>9, <2>1
  <2>3. ASSUME NEW l \in 1..(N - 1), hz'[l + 1] # 1 PROVE hz'[l] = PreDecay(levels, stride, l)'
    <3>1. l \in 1..N /\ l + 1 \in 1..N  BY <1>2
    <3>2. hz'[l] = s[l][k + 1] /\ hz'[l + 1] = s[l + 1][k + 1]  BY <1>5, <3>1
    <3>3. PreDecay(levels, stride, l)' = PreDecay(levels, stride, l)  BY <1>7 DEF PreDecay
    <3> QED  BY <1>6, <1>9, <2>1, <2>3, <3>2, <3>3
  <2> QED  BY <2>2, <2>3
<1>17. TopCountsDown'
  <2> SUFFICES ASSUME steps > 0, steps + interval >= budget PROVE hz'[N] = 1
    BY <1>7 DEF TopCountsDown
  <2> DEFINE h == levels[N].horizon
  <2>1. k + 1 = calls /\ calls > 1  BY <1>4, <1>6
  <2>2. h \in Positive  BY <1>2, SettingsAre
  <2> HIDE DEF h
  <2>3. DecreasingSchedule(calls, h)[calls] = 1  BY <1>6, <2>1, <2>2, DecreasingIs
  <2> QED  BY <1>2, <1>5, <1>8, <2>1, <2>3 DEF h
<1>18. EveryCallPlans'  BY <1>13 DEF EveryCallPlans
<1> QED  BY <1>10, <1>12, <1>14, <1>15, <1>16, <1>17, <1>18, <1>19, <1>20 DEF PlannerInv

\* A step to outside the loop that leaves the plans.
LEMMA LeavingKeepsInv ==
  ASSUME PlannerInv, UNCHANGED <<config, hz, lv, upper, haveUpper, skipped, anchored, plan>>,
         pc' \in {"horizons", "over", "failed"}, pc' = "failed" => ~Matched,
         StepsAre'
  PROVE  PlannerInv'
<1>1. UNCHANGED <<levels, stride, interval, budget, hz, lv, haveUpper, skipped, anchored, plan>>
  BY DEF config
<1>2. TypeInv'
  <2>1. pc' \in {"horizons", "levels", "planned", "over", "failed"}  OBVIOUS
  <2> QED  BY <1>1, <2>1 DEF PlannerInv, TypeInv
<1>3. PlanIsTable'  BY <1>1 DEF PlannerInv, PlanIsTable
<1>4. PlannedAbove'  BY <1>1, PlansKept DEF PlannerInv, PlannedAbove
<1>5. PlansAre'  BY <1>1, PlansKept DEF PlannerInv
<1>6. Matched' = Matched  BY <1>1, MatchedKept
<1>7. pc' # "levels" /\ pc' # "planned"  OBVIOUS
<1> QED  BY <1>2, <1>3, <1>4, <1>5, <1>6, <1>7
         DEF PlannerInv, Carried, DoneAbove, HorizonsFit, TopCountsDown, EveryCallPlans

LEMMA PastBudgetKeepsInv == PlannerInv /\ PastBudget => PlannerInv'
<1> SUFFICES ASSUME PlannerInv, PastBudget PROVE PlannerInv'  OBVIOUS
<1>1. UNCHANGED <<config, hz, lv, upper, haveUpper, skipped, anchored, plan>> /\ pc' = "over"
      /\ steps' = steps /\ interval' = interval
  BY DEF PastBudget, config
<1>2. StepsAre'  BY <1>1 DEF PlannerInv, StepsAre
<1> QED  BY <1>1, <1>2, LeavingKeepsInv

LEMMA ActKeepsInv == PlannerInv /\ Act => PlannerInv'
<1> SUFFICES ASSUME PlannerInv, Act PROVE PlannerInv'  OBVIOUS
<1>1. UNCHANGED <<config, hz, lv, upper, haveUpper, skipped, anchored, plan>> /\ pc' = "horizons"
      /\ steps' = steps + interval /\ interval' = interval
  BY DEF Act, config
<1>2. StepsAre'
  <2>1. PICK k \in Nat : steps = k * interval  BY DEF PlannerInv, StepsAre
  <2>2. interval \in Nat  BY Typed DEF PlannerInv, Positive
  <2>3. k * interval + interval = (k + 1) * interval  BY <2>2
  <2> QED  BY <1>1, <2>1, <2>3 DEF StepsAre
<1> QED  BY <1>1, <1>2, LeavingKeepsInv

LEMMA FailKeepsInv ==
  ASSUME PlannerInv, Fail, ~Matched
  PROVE  PlannerInv'
<1>1. UNCHANGED <<config, hz, lv, upper, haveUpper, skipped, anchored, plan>> /\ pc' = "failed"
      /\ steps' = steps /\ interval' = interval
  BY DEF Fail, config
<1>2. StepsAre'  BY <1>1 DEF PlannerInv, StepsAre
<1> QED  BY <1>1, <1>2, LeavingKeepsInv

LEMMA SkipKeepsInv == PlannerInv /\ Skip => PlannerInv'
<1> SUFFICES ASSUME PlannerInv, Skip PROVE PlannerInv'  OBVIOUS
<1> USE DEF PlannerInv
<1>1. /\ pc = "levels" /\ lv > 1 /\ hz[lv] = 1
      /\ skipped' = IF ~levels[lv].goalUpper THEN 0 ELSE IF skipped # 0 THEN skipped ELSE lv
      /\ haveUpper' = FALSE /\ lv' = lv - 1
      /\ UNCHANGED <<levels, stride, interval, budget, steps, pc, hz, upper, anchored, plan>>
  BY DEF Skip, config
<1>2. N \in Nat /\ lv \in 0..N /\ skipped \in 0..N /\ levels \in Settings /\ stride \in Strides
  BY Typed DEF TypeInv
<1>3. lv \in 1..N /\ lv - 1 \in 1..N /\ lv - 1 + 1 = lv  BY <1>1, <1>2
<1>4. ~Planned(lv)  BY <1>3 DEF PlannedAbove
<1>5. \A l \in 1..N : Planned(l)' = Planned(l) /\ Anchored(l)' = Anchored(l)  BY <1>1, PlansKept
<1>6. TypeInv'
  <2>1. haveUpper' \in BOOLEAN /\ anchored' \in BOOLEAN  BY <1>1 DEF TypeInv
  <2>2. lv' \in 0..N /\ skipped' \in 0..N  BY <1>1, <1>2, <1>3
  <2>3. /\ levels' \in Settings /\ stride' \in Strides /\ interval' \in Intervals
        /\ budget' \in Budgets /\ hz' \in [1..N -> Positive]
        /\ pc' \in {"horizons", "levels", "planned", "over", "failed"}
    BY <1>1 DEF TypeInv
  <2> QED  BY <2>1, <2>2, <2>3 DEF TypeInv
<1>7. StepsAre' /\ PlanIsTable'  BY <1>1 DEF StepsAre, PlanIsTable
<1>8. PlannedAbove'
  <2> SUFFICES ASSUME NEW l \in 1..N, Planned(l)' PROVE l > lv' /\ (l = 1 \/ hz'[l] # 1)
    BY DEF PlannedAbove
  <2>1. l > lv /\ (l = 1 \/ hz[l] # 1)  BY <1>5 DEF PlannedAbove
  <2> QED  BY <1>1, <1>2, <2>1
<1>9. PlansAre'  BY <1>1, PlansKept
<1>10. AskedUpTo(lv, IF skipped # 0 THEN skipped ELSE lv)'
  <2> DEFINE g == IF skipped # 0 THEN skipped ELSE lv
             h == IF skipped' # 0 THEN skipped' ELSE lv - 1
  <2>1. AskedUpTo(lv, g)  BY <1>1 DEF Carried
  <2>2. h = IF levels[lv].goalUpper THEN g ELSE lv - 1  BY <1>1, <1>2
  <2> HIDE DEF g, h
  <2>3. g \in lv..N  BY <2>1 DEF AskedUpTo
  <2>4. AskedUpTo(lv - 1, h)
    <3>1. CASE levels[lv].goalUpper
      <4>1. h = g /\ h \in (lv - 1)..N /\ h \in Int  BY <1>2, <2>2, <2>3, <3>1
      <4>2. ASSUME NEW m \in (lv - 1 + 1)..h PROVE levels[m].goalUpper /\ ~Planned(m)
        <5>1. CASE m = lv  BY <1>4, <3>1, <5>1
        <5>2. CASE m # lv
          <6>1. m \in (lv + 1)..g  BY <1>3, <4>1, <5>2
          <6> QED  BY <2>1, <6>1 DEF AskedUpTo
        <5> QED  BY <5>1, <5>2
      <4>3. h < N => ~levels[h + 1].goalUpper \/ Planned(h + 1)  BY <2>1, <4>1 DEF AskedUpTo
      <4> QED  BY <4>1, <4>2, <4>3 DEF AskedUpTo
    <3>2. CASE ~levels[lv].goalUpper
      <4>1. h = lv - 1  BY <2>2, <3>2
      <4>2. h \in (lv - 1)..N /\ (lv - 1 + 1)..h = {} /\ h + 1 = lv  BY <1>2, <1>3, <4>1
      <4> QED  BY <3>2, <4>2 DEF AskedUpTo
    <3> QED  BY <3>1, <3>2
  <2>5. /\ h \in lv'..N
        /\ \A m \in (lv' + 1)..h : levels'[m].goalUpper /\ plan'[m] = NoPlan
        /\ h < N => ~levels'[h + 1].goalUpper \/ plan'[h + 1] # NoPlan
    BY <1>1, <2>4 DEF AskedUpTo, Planned
  <2>6. h = IF skipped' # 0 THEN skipped' ELSE lv'  BY <1>1 DEF h
  <2> QED  BY <2>5, <2>6 DEF AskedUpTo, Planned
<1>11. Carried'
  <2>1. lv' >= 1 /\ haveUpper' = FALSE  BY <1>1, <1>3
  <2>2. ~Planned(lv + 1)'
    <3>1. lv' + 1 = lv  BY <1>1, <1>3
    <3>2. plan'[lv' + 1] = plan[lv]  BY <1>1, <3>1
    <3> QED  BY <1>4, <3>2 DEF Planned
  <2> QED  BY <1>10, <2>1, <2>2 DEF Carried
<1>12. DoneAbove'
  <2>1. pc' = "levels"  BY <1>1
  <2>2. ASSUME NEW l \in 1..N, l > lv', l = 1 \/ hz'[l] # 1 PROVE Planned(l)'
    <3>1. l # lv  BY <1>1, <1>3, <2>2
    <3>2. l > lv  BY <1>1, <1>2, <2>2, <3>1
    <3> QED  BY <1>1, <1>5, <2>2, <3>2 DEF DoneAbove
  <2> QED  BY <2>1, <2>2 DEF DoneAbove
<1>13. HorizonsFit'
  <2>1. Matched' = Matched  BY <1>1, MatchedKept
  <2>2. \A l \in 1..(N - 1) : PreDecay(levels, stride, l)' = PreDecay(levels, stride, l)
    BY <1>1 DEF PreDecay
  <2> QED  BY <1>1, <2>1, <2>2 DEF HorizonsFit
<1>14. TopCountsDown'  BY <1>1 DEF TopCountsDown
<1>15. EveryCallPlans'  BY <1>1 DEF EveryCallPlans
<1> QED  BY <1>6, <1>7, <1>8, <1>9, <1>11, <1>12, <1>13, <1>14, <1>15

\* A level is solved: it has its plan, and the loop goes on to the next one.
LEMMA SolvedKeepsInv ==
  ASSUME PlannerInv, pc = "levels", ~(lv > 1 /\ hz[lv] = 1),
         NEW goals, goals # <<>>, NEW g, NEW anchor, anchor \in BOOLEAN,
         plan' = [plan EXCEPT ![lv] = [goals |-> goals, goalLevel |-> g]],
         anchored' = anchor, skipped' = 0, upper' = lv, haveUpper' = TRUE, lv' = lv - 1,
         pc' = IF lv = 1 THEN "planned" ELSE "levels",
         UNCHANGED <<config, steps, hz>>,
         anchor <=> goals[Len(goals)] = <<"goal", g>>,
         lv < N /\ Planned(lv + 1) =>
            /\ goals = Waypoints(lv) /\ g = lv + 1
            /\ NWaypoints(lv) > 1 =>
                 NWaypoints(lv) = (hz[lv] + stride[lv + 1]) \div stride[lv + 1] - 1,
         ~(lv < N /\ Planned(lv + 1)) => goals = <<<<"goal", g>>>> /\ AskedUpTo(lv, g)
  PROVE  PlannerInv'
<1> USE DEF PlannerInv
<1>1. UNCHANGED <<levels, stride, interval, budget, steps, hz>>  BY DEF config
<1>2. N \in Nat /\ lv \in 0..N /\ levels \in Settings /\ stride \in Strides /\ hz \in [1..N -> Positive]
  BY Typed DEF TypeInv
<1>3. lv \in 1..N /\ lv - 1 \in 0..N /\ lv - 1 + 1 = lv  BY <1>2 DEF Carried
<1> DEFINE new == [goals |-> goals, goalLevel |-> g]
<1>4. /\ new # NoPlan /\ new.goals = goals /\ new.goalLevel = g
      /\ plan'[lv] = new /\ plan' = [l \in 1..N |-> plan'[l]]
      /\ \A l \in 1..N : l # lv => plan'[l] = plan[l]
  <2>1. new.goals = goals /\ new.goalLevel = g /\ NoPlan.goals = <<>>  BY DEF NoPlan
  <2>2. new # NoPlan  BY <2>1
  <2> HIDE DEF new
  <2>3. plan' = [plan EXCEPT ![lv] = new]  BY DEF new
  <2>4. plan = [l \in 1..N |-> plan[l]]  BY DEF PlanIsTable
  <2> QED  BY <1>3, <2>1, <2>2, <2>3, <2>4
<1> HIDE DEF new
<1>5. PICK k \in 1..N : k = lv  BY <1>3
<1>6. Planned(k)' /\ \A l \in 1..N : l # k => Planned(l)' = Planned(l)
  <2>1. plan'[k] # NoPlan  BY <1>4, <1>5
  <2>2. \A l \in 1..N : l # k => Planned(l)' = Planned(l)  BY <1>4, <1>5 DEF Planned, NoPlan
  <2> QED  BY <2>1, <2>2 DEF Planned
<1>7. ~Planned(k) /\ \A l \in 1..N : l < k => ~Planned(l)
  BY <1>2, <1>5 DEF PlannedAbove
<1>8. Anchored(k)' <=> anchor
  <2>1. plan'[k].goals = goals /\ plan'[k].goalLevel = g  BY <1>4, <1>5
  <2> QED  BY <2>1, Zenon DEF Anchored
<1>9. \A l \in 1..N : l # k => Anchored(l)' = Anchored(l)
  BY <1>4, <1>5 DEF Anchored
<1>10. ASSUME NEW l \in k..(N - 1)
       PROVE  /\ NWaypoints(l)' = NWaypoints(l) /\ EndsThere(l)' = EndsThere(l)
              /\ Waypoints(l)' = Waypoints(l)
  <2>1. NWaypoints(l)' = NWaypoints(l)  BY <1>1 DEF NWaypoints, Min2
  <2>2. EndsThere(l)' = EndsThere(l)
    <3>1. l + 1 \in 1..N /\ l + 1 # k  BY <1>2, <1>5
    <3>2. Anchored(l + 1)' = Anchored(l + 1)  BY <1>9, <3>1
    <3> QED  BY <1>1, <3>2 DEF EndsThere
  <2>3. Waypoints(l)' = Waypoints(l)  BY <2>1, <2>2 DEF Waypoints
  <2> QED  BY <2>1, <2>2, <2>3
<1>11. ASSUME NEW l \in k..N, NEW j, AskedUpTo(l, j) PROVE AskedUpTo(l, j)'
  <2>1. j \in l..N /\ k \in Int /\ j \in Int /\ l \in Int  BY <1>2, <1>11 DEF AskedUpTo
  <2>2. \A m \in (l + 1)..j : m \in 1..N /\ m # k  BY <1>2, <2>1
  <2>3. \A m \in (l + 1)..j : levels'[m].goalUpper /\ ~Planned(m)'
    BY <1>1, <1>6, <1>11, <2>2 DEF AskedUpTo
  <2>4. j < N => j + 1 \in 1..N /\ j + 1 # k  BY <1>2, <2>1
  <2>5. j < N => ~levels'[j + 1].goalUpper \/ Planned(j + 1)'
    BY <1>1, <1>6, <1>11, <2>4 DEF AskedUpTo
  <2> QED  BY <2>1, <2>3, <2>5 DEF AskedUpTo
<1>12. TypeInv'
  <2>1. haveUpper' \in BOOLEAN /\ anchored' \in BOOLEAN  OBVIOUS
  <2>2. lv' \in 0..N /\ skipped' \in 0..N  BY <1>2, <1>3
  <2>3. /\ levels' \in Settings /\ stride' \in Strides /\ interval' \in Intervals
        /\ budget' \in Budgets /\ hz' \in [1..N -> Positive]
    BY <1>1 DEF TypeInv
  <2>4. pc' \in {"horizons", "levels", "planned", "over", "failed"}  OBVIOUS
  <2> QED  BY <2>1, <2>2, <2>3, <2>4 DEF TypeInv
<1>13. StepsAre' /\ PlanIsTable'  BY <1>1, <1>4 DEF StepsAre, PlanIsTable
<1>14. PlannedAbove'
  <2> SUFFICES ASSUME NEW l \in 1..N, Planned(l)' PROVE l > lv' /\ (l = 1 \/ hz'[l] # 1)
    BY DEF PlannedAbove
  <2>1. CASE l = k  BY <1>1, <1>2, <1>5, <2>1
  <2>2. CASE l # k
    <3>1. l > lv /\ (l = 1 \/ hz[l] # 1)  BY <1>6, <2>2 DEF PlannedAbove
    <3> QED  BY <1>1, <1>2, <3>1
  <2> QED  BY <2>1, <2>2
<1>15. PlansAre'
  <2> SUFFICES ASSUME NEW l \in 1..N, Planned(l)'
               PROVE  (IF l < N /\ Planned(l + 1) THEN Under(l) ELSE Free(l))'
    BY DEF PlansAre
  <2>1. l \in k..N  BY <1>2, <1>6, <1>7
  <2>2. l < N => l + 1 \in 1..N /\ l + 1 # k /\ l \in k..(N - 1)  BY <1>2, <2>1
  <2>3. l < N => Planned(l + 1)' = Planned(l + 1)  BY <1>6, <2>2
  <2>4. CASE l < N /\ Planned(l + 1)
    <3>1. /\ plan'[l].goals = Waypoints(l) /\ plan'[l].goalLevel = l + 1
          /\ NWaypoints(l) > 1 =>
               NWaypoints(l) = (hz[l] + stride[l + 1]) \div stride[l + 1] - 1
      <4>1. CASE l = k  BY <1>4, <1>5, <2>4, <4>1
      <4>2. CASE l # k
        <5>1. Planned(l) /\ plan'[l] = plan[l]  BY <1>4, <1>5, <1>6, <4>2
        <5> QED  BY <2>4, <5>1 DEF PlansAre, Under
      <4> QED  BY <4>1, <4>2
    <3>2. Under(l)'  BY <1>1, <1>10, <2>2, <2>4, <3>1 DEF Under
    <3> QED  BY <2>3, <2>4, <3>2
  <2>5. CASE ~(l < N /\ Planned(l + 1))
    <3>1. /\ plan'[l].goals = <<<<"goal", plan'[l].goalLevel>>>>
          /\ AskedUpTo(l, plan'[l].goalLevel)
      <4>1. CASE l = k
        <5>1. plan'[l].goals = goals /\ plan'[l].goalLevel = g  BY <1>4, <1>5, <4>1
        <5> QED  BY <1>5, <2>5, <4>1, <5>1
      <4>2. CASE l # k
        <5>1. Planned(l) /\ plan'[l] = plan[l]  BY <1>4, <1>5, <1>6, <4>2
        <5>2. Free(l)  BY <2>5, <5>1 DEF PlansAre
        <5> QED  BY <5>1, <5>2 DEF Free
      <4> QED  BY <4>1, <4>2
    <3> DEFINE j == plan'[l].goalLevel
    <3>2. PICK i : i = j  OBVIOUS
    <3>3. AskedUpTo(l, i)'  BY <1>11, <2>1, <3>1, <3>2
    <3>4. Free(l)'  BY <3>1, <3>2, <3>3 DEF Free, AskedUpTo
    <3> QED  BY <2>3, <2>5, <3>4
  <2> QED  BY <2>4, <2>5
<1>16. Carried'
  <2> SUFFICES ASSUME pc' = "levels"
               PROVE  /\ lv' >= 1
                      /\ haveUpper' <=> (lv < N /\ Planned(lv + 1))'
                      /\ haveUpper' => upper' = lv' + 1 /\ (anchored <=> Anchored(lv + 1))'
                      /\ AskedUpTo(lv, IF skipped # 0 THEN skipped ELSE lv)'
    BY DEF Carried
  <2>1. k # 1 /\ lv' = k - 1 /\ lv' >= 1 /\ lv' + 1 = k /\ lv' < N /\ lv' \in Int
    BY <1>2, <1>5
  <2>2. Planned(lv + 1)'  BY <1>4, <1>5, <2>1 DEF Planned
  <2>3. Anchored(lv + 1)' <=> anchor  BY <1>8, <2>1, Zenon DEF Anchored
  <2>4. AskedUpTo(lv, lv)'
    <3>1. lv' \in lv'..N /\ (lv' + 1)..lv' = {}  BY <1>2, <2>1
    <3> QED  BY <2>2, <3>1 DEF AskedUpTo
  <2>5. (IF skipped # 0 THEN skipped ELSE lv)' = lv'  OBVIOUS
  <2>6. AskedUpTo(lv, IF skipped # 0 THEN skipped ELSE lv)'  BY <2>4, <2>5 DEF AskedUpTo
  <2> QED  BY <1>5, <2>1, <2>2, <2>3, <2>6
<1>17. DoneAbove'
  <2>1. ASSUME NEW l \in 1..N, l > lv', l = 1 \/ hz'[l] # 1 PROVE Planned(l)'
    <3>1. CASE l = k  BY <1>6, <3>1
    <3>2. CASE l # k
      <4>1. l > lv  BY <1>2, <1>5, <2>1, <3>2
      <4> QED  BY <1>1, <1>6, <2>1, <3>2, <4>1 DEF DoneAbove
    <3> QED  BY <3>1, <3>2
  <2>2. pc' = "planned" => lv' = 0  BY <1>2
  <2> QED  BY <2>1, <2>2 DEF DoneAbove
<1>18. HorizonsFit'
  <2>1. Matched' = Matched  BY <1>1, MatchedKept
  <2>2. \A l \in 1..(N - 1) : PreDecay(levels, stride, l)' = PreDecay(levels, stride, l)
    BY <1>1 DEF PreDecay
  <2> QED  BY <1>1, <2>1, <2>2 DEF HorizonsFit
<1>19. TopCountsDown'  BY <1>1 DEF TopCountsDown
<1>20. EveryCallPlans'  BY <1>1 DEF EveryCallPlans
<1> QED  BY <1>12, <1>13, <1>14, <1>15, <1>16, <1>17, <1>18, <1>19, <1>20

\* How long a plan of n states is that has been made.
LEMMA FunctionLength ==
  ASSUME NEW n \in Nat, NEW s, s = [i \in 1..n |-> s[i]]
  PROVE  Len(s) = n
<1> DEFINE S == {s[i] : i \in 1..n}
<1>1. s \in [1..n -> S]  OBVIOUS
<1> HIDE DEF S
<1> QED  BY <1>1, FunctionIsSeq

\* With nothing above, any level that plans fits the model.
LEMMA PlanFreeKeepsInv == PlannerInv /\ PlanFree => PlannerInv'
<1> SUFFICES ASSUME PlannerInv, PlanFree PROVE PlannerInv'  OBVIOUS
<1> DEFINE g == IF skipped # 0 THEN skipped ELSE lv
           goals == <<<<"goal", g>>>>
<1>1. pc = "levels" /\ lv > 0 /\ ~(lv > 1 /\ hz[lv] = 1) /\ ~haveUpper
      /\ Solve(goals, g, g > lv, TRUE)
  BY DEF PlanFree
<1>2. N \in Nat /\ lv \in 0..N /\ hz \in [1..N -> Positive] /\ FrameLimit \in Nat
  BY Typed DEF PlannerInv
<1>3. AskedUpTo(lv, g) /\ ~(lv < N /\ Planned(lv + 1))  BY <1>1 DEF PlannerInv, Carried
<1> HIDE DEF g
<1>4. g \in lv..N /\ lv \in 1..N  BY <1>1, <1>2, <1>3 DEF AskedUpTo
<1>5. goals # <<>> /\ Len(goals) = 1 /\ goals[1] = <<"goal", g>>  OBVIOUS
<1> HIDE DEF goals
<1>6. CASE ~SpecFits(lv, g, Len(goals), g > lv)
  <2>1. Fail  BY <1>1, <1>6 DEF Solve
  <2>2. ~Matched
    <3> SUFFICES ASSUME Matched PROVE FALSE  OBVIOUS
    <3> DEFINE h == hz[lv]
               dense == g > lv
    <3>1. h \in 1..FrameLimit  BY <1>1, <1>4 DEF PlannerInv, HorizonsFit
    <3>2. lv \in Nat /\ g \in Nat /\ lv <= g /\ h \in Nat /\ h >= 1  BY <1>2, <1>4, <3>1
    <3>3. dense = TRUE \/ g = lv  BY <1>4
    <3>4. ~(dense /\ g = lv)  BY <1>2, <1>4
    <3> HIDE DEF h, dense
    <3>5. Scored(lv, g, h, dense) = h  BY <3>2, <3>3, ScoredSame
    <3> DEFINE sc == Scored(lv, g, h, dense)
    <3>6. sc >= 1  BY <3>2, <3>5
    <3> HIDE DEF sc
    <3>7. SpecFits(lv, g, 1, dense)  BY <1>4, <3>1, <3>4, <3>6 DEF SpecFits, sc, h
    <3> QED  BY <1>5, <1>6, <3>7 DEF dense
  <2> QED  BY <2>1, <2>2, FailKeepsInv
<1>7. CASE SpecFits(lv, g, Len(goals), g > lv)
  <2>1. /\ plan' = [plan EXCEPT ![lv] = [goals |-> goals, goalLevel |-> g]]
        /\ anchored' = TRUE /\ skipped' = 0 /\ upper' = lv /\ haveUpper' = TRUE
        /\ lv' = lv - 1
        /\ pc' = IF lv = 1 THEN "planned" ELSE "levels"
        /\ UNCHANGED <<config, steps, hz>>
    BY <1>1, <1>7 DEF Solve
  <2>2. TRUE <=> goals[Len(goals)] = <<"goal", g>>  BY <1>5
  <2>3. goals = <<<<"goal", g>>>>  BY DEF goals
  <2>4. TRUE \in BOOLEAN  OBVIOUS
  <2> QED  BY <1>1, <1>3, <1>5, <2>1, <2>2, <2>3, <2>4, SolvedKeepsInv
<1> QED  BY <1>6, <1>7

\* What a level finds above it when it plans under a plan.
LEMMA WaypointsAre ==
  ASSUME NEW l \in 1..(N - 1), TypeInv
  PROVE  /\ NWaypoints(l) \in Positive /\ NWaypoints(l) <= hz[l + 1]
         /\ NWaypoints(l) <= levels[l + 1].subgoals
         /\ NWaypoints(l) = levels[l + 1].subgoals \/ NWaypoints(l) = hz[l + 1]
         /\ Len(Waypoints(l)) = NWaypoints(l)
         /\ Waypoints(l)[NWaypoints(l)] = <<"goal", l + 1>> <=> EndsThere(l)
<1>1. N \in Nat /\ levels \in Settings /\ stride \in Strides /\ hz \in [1..N -> Positive]  BY Typed
<1>2. l + 1 \in 1..N  BY <1>1
<1>3. hz[l + 1] \in Positive /\ levels[l + 1].subgoals \in Positive  BY <1>1, <1>2, SettingsAre
<1>4. /\ NWaypoints(l) \in Positive /\ NWaypoints(l) <= hz[l + 1]
      /\ NWaypoints(l) <= levels[l + 1].subgoals
      /\ NWaypoints(l) = levels[l + 1].subgoals \/ NWaypoints(l) = hz[l + 1]
  BY <1>3 DEF NWaypoints, Min2, Positive
<1> DEFINE n == NWaypoints(l)
           w == Waypoints(l)
<1>5. w = [i \in 1..n |-> IF i = n /\ EndsThere(l) THEN <<"goal", l + 1>> ELSE <<"state", l + 1, i>>]
  BY DEF Waypoints
<1>6. n \in Nat /\ n \in 1..n  BY <1>4 DEF Positive
<1> HIDE DEF n, w
<1>7. w[n] = IF EndsThere(l) THEN <<"goal", l + 1>> ELSE <<"state", l + 1, n>>  BY <1>5, <1>6
<1>8. w = [i \in 1..n |-> w[i]]  BY <1>5
<1>9. Len(w) = n  BY <1>6, <1>8, FunctionLength
<1>10. <<"state", l + 1, n>>[1] # <<"goal", l + 1>>[1]  OBVIOUS
<1>11. <<"state", l + 1, n>> # <<"goal", l + 1>>  BY <1>10
<1>12. w[n] = <<"goal", l + 1>> <=> EndsThere(l)  BY <1>7, <1>11
<1> QED  BY <1>4, <1>9, <1>12 DEF n, w

\* With settings that fit together the states a level gets can be reached and scored.
LEMMA MatchedFits ==
  ASSUME PlannerInv, Matched, pc = "levels", NEW l \in 1..(N - 1), hz[l + 1] # 1
  PROVE  /\ NWaypoints(l) > 1 =>
              NWaypoints(l) = (hz[l] + stride[l + 1]) \div stride[l + 1] - 1
         /\ SpecFits(l, l + 1, NWaypoints(l), FALSE)
<1> DEFINE n == NWaypoints(l)
           d == stride[l + 1]
           h == hz[l]
           q == h \div d
<1>1. TypeInv  BY DEF PlannerInv
<1>2. N \in Nat /\ levels \in Settings /\ stride \in Strides /\ hz \in [1..N -> Positive]
      /\ FrameLimit \in Nat
  BY <1>1, Typed
<1>3. l + 1 \in 1..N /\ l \in 1..N  BY <1>2
<1>4. /\ h = PreDecay(levels, stride, l) /\ h \in d..FrameLimit
      /\ \/ levels[l + 1].subgoals = 1
         \/ levels[l + 1].subgoals = 2 /\ q = 2 /\ levels[l].lastN >= 2
  <2>1. h = PreDecay(levels, stride, l)  BY DEF PlannerInv, HorizonsFit
  <2> QED  BY <2>1 DEF Matched
<1>5. d \in Positive /\ h \in Positive /\ hz[l + 1] \in Positive /\ levels[l].lastN \in Int
  BY <1>2, <1>3, SettingsAre
<1>6. n \in Positive /\ n <= levels[l + 1].subgoals
      /\ (n = levels[l + 1].subgoals \/ n = hz[l + 1])
  BY <1>1, WaypointsAre
<1> HIDE DEF n, d, h
<1>7. h \in Nat /\ h >= d /\ h <= FrameLimit /\ h >= 1  BY <1>2, <1>4, <1>5 DEF Positive
<1>8. q \in Nat /\ q >= 1
  <2>1. h \in Nat /\ 1 * d <= h  BY <1>5, <1>7 DEF Positive
  <2>2. 1 \in Nat  OBVIOUS
  <2>3. q >= 1  BY <1>5, <2>1, <2>2, DivisionAtLeast
  <2> QED  BY <1>5, <2>1, <2>3, Division
<1>9. (h + d) \div d = q + 1
  <2>1. h = d * q + (h % d) /\ h % d \in 0..(d - 1)  BY <1>5, <1>7, Division
  <2> HIDE DEF q
  <2>2. h + d \in Nat /\ q + 1 \in Nat  BY <1>5, <1>7, <1>8 DEF Positive
  <2>3. h + d < (q + 1 + 1) * d /\ h + d >= (q + 1) * d
    <3>1. (q + 1) * d = d * q + d /\ (q + 1 + 1) * d = d * q + d + d
      BY <1>5, <1>8 DEF Positive
    <3>2. d * q \in Int /\ d \in Int /\ h % d \in Int  BY <1>5, <1>8, <2>1 DEF Positive
    <3> QED  BY <1>7, <2>1, <3>1, <3>2
  <2>4. (h + d) \div d <= q + 1  BY <1>5, <2>2, <2>3, DivisionAtMost
  <2>5. (h + d) \div d >= q + 1  BY <1>5, <2>2, <2>3, DivisionAtLeast
  <2>6. (h + d) \div d \in Nat  BY <1>5, <2>2, Division
  <2> QED  BY <1>8, <2>4, <2>5, <2>6
<1>10. Scored(l, l + 1, h, FALSE) = q
  <2>1. l \in Nat /\ stride[l + 1] \in Positive  BY <1>5 DEF d
  <2> QED  BY <1>7, <2>1, ScoredAbove DEF d
<1> HIDE DEF q
<1>11. n = 1 \/ (n = 2 /\ q = 2 /\ levels[l].lastN >= 2)
  BY <1>4, <1>5, <1>6 DEF Positive
<1>12. n > 1 => n = (h + d) \div d - 1  BY <1>8, <1>9, <1>11
<1>13. SpecFits(l, l + 1, n, FALSE)
  <2> DEFINE sc == Scored(l, l + 1, h, FALSE)
             last == levels[l].lastN
  <2>1. sc = q  BY <1>10, Zenon
  <2>2. last \in Int  BY <1>5
  <2> HIDE DEF sc, last
  <2>3. n \in {1, Min2(Max2(1, last), sc)}
    BY <1>8, <1>11, <2>1, <2>2 DEF Min2, Max2, last
  <2>4. l + 1 \in l..N /\ h \in 1..FrameLimit /\ n >= 1 /\ sc >= 1
    BY <1>2, <1>3, <1>6, <1>7, <1>8, <2>1 DEF Positive
  <2> QED  BY <2>3, <2>4, Zenon DEF SpecFits, sc, last, h
<1> QED  BY <1>12, <1>13 DEF n, d, h

\* Under a plan, a level aims at its first states.
LEMMA PlanUnderKeepsInv == PlannerInv /\ PlanUnder => PlannerInv'
<1> SUFFICES ASSUME PlannerInv, PlanUnder PROVE PlannerInv'  OBVIOUS
<1> DEFINE n == NWaypoints(lv)
           w == Waypoints(lv)
<1>1. pc = "levels" /\ lv > 0 /\ ~(lv > 1 /\ hz[lv] = 1) /\ haveUpper  BY DEF PlanUnder
<1>2. TypeInv  BY DEF PlannerInv
<1>3. N \in Nat /\ lv \in 0..N  BY <1>2, Typed
<1>4. lv < N /\ Planned(lv + 1) /\ upper = lv + 1 /\ (anchored <=> Anchored(lv + 1))
  BY <1>1 DEF PlannerInv, Carried
<1>5. lv \in 1..(N - 1) /\ lv + 1 \in 1..N  BY <1>1, <1>3, <1>4
<1>6. hz[lv + 1] # 1  BY <1>1, <1>4, <1>5 DEF PlannerInv, PlannedAbove
<1>7. EndsAtGoal <=> EndsThere(lv)  BY <1>4 DEF EndsAtGoal, EndsThere
<1>8. IF Reachable(n) THEN Solve(w, lv + 1, FALSE, EndsAtGoal) ELSE Fail
  <2> DEFINE goals == [i \in 1..n |->
                         IF i = n /\ EndsAtGoal THEN <<"goal", lv + 1>> ELSE <<"state", lv + 1, i>>]
  <2>1. IF Reachable(n) THEN Solve(goals, lv + 1, FALSE, EndsAtGoal) ELSE Fail
    BY <1>4 DEF PlanUnder, NWaypoints
  <2>2. goals = w  BY <1>7 DEF Waypoints
  <2> QED  BY <2>1, <2>2
<1>9. n \in Positive /\ Len(w) = n /\ (w[n] = <<"goal", lv + 1>> <=> EndsThere(lv))
  BY <1>2, <1>5, WaypointsAre
<1>10. Matched => Reachable(n) /\ SpecFits(lv, lv + 1, Len(w), FALSE)
  BY <1>1, <1>5, <1>6, <1>9, MatchedFits DEF Reachable
<1> HIDE DEF n, w
<1>11. CASE ~Reachable(n) \/ ~SpecFits(lv, lv + 1, Len(w), FALSE)
  <2>1. Fail  BY <1>8, <1>11, Zenon DEF Solve
  <2>2. ~Matched  BY <1>10, <1>11, Zenon
  <2> QED  BY <2>1, <2>2, FailKeepsInv
<1>12. CASE Reachable(n) /\ SpecFits(lv, lv + 1, Len(w), FALSE)
  <2> DEFINE g == lv + 1
             anchor == EndsThere(lv)
             new == [goals |-> w, goalLevel |-> g]
  <2>1. /\ plan' = [plan EXCEPT ![lv] = [goals |-> w, goalLevel |-> g]]
        /\ anchored' = EndsAtGoal /\ skipped' = 0 /\ upper' = lv /\ haveUpper' = TRUE
        /\ lv' = lv - 1
        /\ pc' = IF lv = 1 THEN "planned" ELSE "levels"
        /\ UNCHANGED <<config, steps, hz>>
    BY <1>8, <1>12, Zenon DEF Solve
  <2>2. w # <<>>  BY <1>9 DEF Positive
  <2>3. anchor <=> w[Len(w)] = <<"goal", g>>  BY <1>9
  <2>4. anchor \in BOOLEAN  BY DEF EndsThere
  <2>5. anchored' = anchor  BY <1>7, <2>1 DEF EndsAtGoal, EndsThere
  <2>6. /\ w = Waypoints(lv) /\ g = lv + 1
        /\ NWaypoints(lv) > 1 =>
             NWaypoints(lv) = (hz[lv] + stride[lv + 1]) \div stride[lv + 1] - 1
    BY <1>12 DEF Reachable, n, w
  <2> HIDE DEF g, anchor
  <2> QED  BY <1>1, <1>4, <2>1, <2>2, <2>3, <2>4, <2>5, <2>6, SolvedKeepsInv
<1> QED  BY <1>11, <1>12

\* An episode is always in a state of the invariant.
THEOREM PlannerInvHolds == PlannerSpec => []PlannerInv
<1>1. PlannerInit => PlannerInv  BY InitInv
<1>2. PlannerInv /\ [PlannerNext]_plannerVars => PlannerInv'
  <2> SUFFICES ASSUME PlannerInv, [PlannerNext]_plannerVars PROVE PlannerInv'  OBVIOUS
  <2>1. CASE Horizons  BY <2>1, HorizonsKeepsInv
  <2>2. CASE PastBudget  BY <2>2, PastBudgetKeepsInv
  <2>3. CASE Skip  BY <2>3, SkipKeepsInv
  <2>4. CASE PlanFree  BY <2>4, PlanFreeKeepsInv
  <2>5. CASE PlanUnder  BY <2>5, PlanUnderKeepsInv
  <2>6. CASE Act  BY <2>6, ActKeepsInv
  <2>7. CASE UNCHANGED plannerVars
    <3>1. UNCHANGED <<levels, stride, interval, budget, steps, pc, hz, lv, upper, haveUpper,
                      skipped, anchored, plan>>
      BY <2>7 DEF plannerVars, config
    <3>2. PlansAre' = PlansAre /\ \A l \in 1..N : Planned(l)' = Planned(l)  BY <3>1, PlansKept
    <3>3. Matched' = Matched /\ \A l \in 1..N : PreDecay(levels, stride, l)' = PreDecay(levels, stride, l)
      BY <3>1, MatchedKept DEF PreDecay
    <3>4. TypeInv' /\ StepsAre' /\ PlanIsTable'  BY <3>1 DEF PlannerInv, TypeInv, StepsAre, PlanIsTable
    <3>5. PlannedAbove' /\ Carried' /\ DoneAbove'
      BY <3>1 DEF PlannerInv, PlannedAbove, Carried, DoneAbove, AskedUpTo, Anchored, Planned, NoPlan
    <3>6. TopCountsDown' /\ EveryCallPlans' /\ HorizonsFit'
      BY <3>1, <3>3 DEF PlannerInv, TopCountsDown, EveryCallPlans, HorizonsFit, PreDecay
    <3> QED  BY <3>2, <3>4, <3>5, <3>6 DEF PlannerInv
  <2>8. CASE Over  BY <2>7, <2>8 DEF Over
  <2> QED  BY <2>1, <2>2, <2>3, <2>4, <2>5, <2>6, <2>7, <2>8 DEF PlannerNext
<1> QED  BY <1>1, <1>2, PTL DEF PlannerSpec

-----------------------------------------------------------------------------
(***************************************************************************)
(* What follows from it.                                                   *)
(***************************************************************************)

\* The schedules of an episode fit the control of its calls: with settings that fit
\* together no call is refused and no plan is made in vain, and the top level counts
\* down to one step.
THEOREM SchedulesHold == PlannerSpec => []SchedulesFit
<1>1. PlannerInv => SchedulesFit
  <2> SUFFICES ASSUME PlannerInv PROVE SchedulesFit  OBVIOUS
  <2> USE DEF PlannerInv
  <2>1. N \in Nat /\ N >= 1  BY Typed
  <2>2. EveryCallPlans  OBVIOUS
  <2>3. NoPlanIsWasted
    <3> SUFFICES ASSUME Matched, pc = "planned", NEW l \in 2..N, Planned(l) PROVE Planned(l - 1)
      BY DEF NoPlanIsWasted
    <3> DEFINE k == l - 1
    <3>1. k \in 1..(N - 1) /\ k \in 1..N /\ k + 1 = l /\ l \in 1..N /\ k > 0  BY <2>1
    <3> HIDE DEF k
    <3>2. hz[l] # 1  BY <3>1 DEF PlannedAbove
    <3>3. hz[k] = PreDecay(levels, stride, k)  BY <3>1, <3>2 DEF HorizonsFit
    <3>4. k > 1 => hz[k] > 1  BY <3>1, <3>3 DEF Matched
    <3>5. k = 1 \/ hz[k] # 1  BY <3>1, <3>4
    <3>6. Planned(k)  BY <3>1, <3>5 DEF DoneAbove
    <3> QED  BY <3>6 DEF k
  <2>4. TopReachesOne  BY DEF TopReachesOne, TopCountsDown
  <2> QED  BY <2>2, <2>3, <2>4 DEF SchedulesFit
<1> QED  BY <1>1, PlannerInvHolds, PTL

\* The plan of a level below another one uses the states that one predicted in this
\* call, in their order.
LEMMA WaypointsHold == PlannerInv => WaypointsAreOfThisCall
<1> SUFFICES ASSUME PlannerInv, NEW l \in 1..N, NEW i \in DOMAIN plan[l].goals,
                    plan[l].goals[i][1] = "state"
             PROVE  plan[l].goals[i] = <<"state", l + 1, i>> /\ Planned(l + 1) /\ i <= hz[l + 1]
  BY DEF WaypointsAreOfThisCall
<1>1. TypeInv /\ N \in Nat  BY Typed DEF PlannerInv
<1>2. Planned(l)
  <2> SUFFICES ASSUME ~Planned(l) PROVE FALSE  OBVIOUS
  <2>1. plan[l].goals = <<>>  BY DEF Planned, NoPlan
  <2> QED  BY <2>1
<1>3. l < N /\ Planned(l + 1)
  <2> SUFFICES ASSUME ~(l < N /\ Planned(l + 1)) PROVE FALSE  OBVIOUS
  <2> DEFINE g == plan[l].goalLevel
  <2>1. plan[l].goals = <<<<"goal", g>>>>  BY <1>2 DEF PlannerInv, PlansAre, Free
  <2> HIDE DEF g
  <2>2. i = 1  BY <2>1
  <2>3. plan[l].goals[i][1] = "goal"  BY <2>1, <2>2
  <2> QED  BY <2>3
<1>4. plan[l].goals = Waypoints(l)  BY <1>2, <1>3 DEF PlannerInv, PlansAre, Under
<1> DEFINE n == NWaypoints(l)
<1>5. l \in 1..(N - 1)  BY <1>1, <1>3
<1>6. n \in Nat /\ n <= hz[l + 1] /\ hz[l + 1] \in Nat
  <2>1. l + 1 \in 1..N  BY <1>1, <1>5
  <2> QED  BY <1>1, <1>5, <2>1, WaypointsAre, Typed DEF Positive
<1>7. i \in 1..n /\ plan[l].goals[i] = IF i = n /\ EndsThere(l) THEN <<"goal", l + 1>>
                                       ELSE <<"state", l + 1, i>>
  BY <1>4 DEF Waypoints
<1>8. <<"goal", l + 1>>[1] = "goal"  OBVIOUS
<1>9. plan[l].goals[i] = <<"state", l + 1, i>>  BY <1>7, <1>8
<1> HIDE DEF n
<1>10. i <= hz[l + 1]  BY <1>6, <1>7
<1> QED  BY <1>3, <1>9, <1>10

\* A plan with none above it is scored at the highest level that asked for it.
LEMMA GoalLevelHolds == PlannerInv => GoalLevelIsRight
<1> SUFFICES ASSUME PlannerInv, NEW l \in 1..N, Planned(l), l < N => ~Planned(l + 1)
             PROVE  LET asked == {k \in l..N : \A m \in (l + 1)..k :
                                                  levels[m].goalUpper /\ ~Planned(m)}
                    IN  \A k \in asked : k <= plan[l].goalLevel /\ plan[l].goalLevel \in asked
  BY DEF GoalLevelIsRight
<1> DEFINE g == plan[l].goalLevel
           asked == {k \in l..N : \A m \in (l + 1)..k : levels[m].goalUpper /\ ~Planned(m)}
<1>1. N \in Nat  BY Typed DEF PlannerInv
<1>2. AskedUpTo(l, g)  BY DEF PlannerInv, PlansAre, Free
<1> HIDE DEF g
<1>3. g \in asked  BY <1>2 DEF AskedUpTo
<1>4. ASSUME NEW k \in asked PROVE k <= g
  <2> SUFFICES ASSUME ~(k <= g) PROVE FALSE  OBVIOUS
  <2>1. k \in l..N /\ g \in l..N  BY <1>2 DEF AskedUpTo
  <2>2. g < N /\ g + 1 \in (l + 1)..k  BY <1>1, <2>1
  <2>3. levels[g + 1].goalUpper /\ ~Planned(g + 1)  BY <1>4, <2>2
  <2> QED  BY <1>2, <2>2, <2>3 DEF AskedUpTo
<1> QED  BY <1>3, <1>4 DEF g

\* A level's steps, in steps of the first one.
LEMMA SpanIs ==
  ASSUME TypeInv
  PROVE  /\ \A l \in 1..N : Span[l] \in Positive
         /\ \A l \in 2..N : Span[l] = Span[l - 1] * stride[l]
<1> DEFINE G == [k \in Nat |-> [x \in Positive |-> IF k \in 1..N THEN x * stride[k] ELSE x]]
           Body(f) == [l \in 1..N |-> IF l = 1 THEN stride[1] ELSE f[l - 1] * stride[l]]
           first == stride[1]
<1>1. N \in Nat /\ N >= 1 /\ \A l \in 1..N : stride[l] \in Positive  BY Typed, SettingsAre
<1>2. first \in Positive  BY <1>1
<1>3. ASSUME NEW x \in Positive, NEW y \in Positive PROVE x * y \in Positive  BY DEF Positive
<1>4. G \in [Nat -> [Positive -> Positive]]  BY <1>1, <1>3
<1> HIDE DEF G, first
<1>5. PICK f : f \in Iterations(Positive, first, G, N)
  <2>1. Iterations(Positive, first, G, N) # {}  BY <1>1, <1>2, <1>4, Recursion
  <2> QED  BY <2>1
<1>6. f \in [1..N -> Positive] /\ \A k \in 1..N : f[k] = IF k = 1 THEN first ELSE G[k][f[k - 1]]
  BY <1>5 DEF Iterations
<1>7. ASSUME NEW k \in 1..N PROVE f[k] = IF k = 1 THEN stride[1] ELSE f[k - 1] * stride[k]
  <2>1. CASE k = 1  BY <1>6, <2>1 DEF first
  <2>2. CASE k # 1
    <3>1. k - 1 \in 1..N /\ k \in Nat  BY <1>1, <2>2
    <3>2. f[k - 1] \in Positive /\ f[k] = G[k][f[k - 1]]  BY <1>6, <2>2, <3>1
    <3> QED  BY <2>2, <3>1, <3>2 DEF G
  <2> QED  BY <2>1, <2>2
<1>8. f = Body(f)  BY <1>6, <1>7
<1>9. Span = CHOOSE g : g = Body(g)  BY DEF Span
<1>10. Span = Body(Span)
  <2> HIDE DEF Body
  <2> QED  BY <1>8, <1>9
<1>11. \A l \in 1..N : Span[l] = IF l = 1 THEN stride[1] ELSE Span[l - 1] * stride[l]
  BY <1>10
<1> HIDE DEF Body
<1> DEFINE T == {m \in Nat : m + 1 \in 1..N => Span[m + 1] \in Positive}
<1>12. 0 \in T
  <2>1. 0 + 1 = 1 /\ 1 \in 1..N  BY <1>1
  <2>2. Span[1] \in Positive  BY <1>1, <1>11, <2>1
  <2> QED  BY <2>1, <2>2
<1>13. ASSUME NEW m \in T PROVE m + 1 \in T
  <2> SUFFICES ASSUME (m + 1) + 1 \in 1..N PROVE Span[(m + 1) + 1] \in Positive  OBVIOUS
  <2>1. m \in Nat /\ m + 1 \in 1..N  BY <1>1
  <2>2. Span[m + 1] \in Positive  BY <2>1
  <2> HIDE DEF T
  <2> DEFINE k == (m + 1) + 1
  <2>3. k \in 1..N /\ k # 1 /\ k - 1 = m + 1  BY <2>1
  <2> HIDE DEF k
  <2>4. Span[k] = Span[k - 1] * stride[k] /\ stride[k] \in Positive  BY <1>1, <1>11, <2>3
  <2>5. Span[k] \in Positive  BY <1>3, <2>2, <2>3, <2>4
  <2> QED  BY <2>5 DEF k
<1>14. T = Nat
  <2>1. T \in SUBSET Nat  OBVIOUS
  <2> HIDE DEF T
  <2> QED  BY <1>12, <1>13, <2>1, Inductive
<1>15. ASSUME NEW l \in 1..N PROVE Span[l] \in Positive
  <2>1. l - 1 \in Nat /\ (l - 1) + 1 = l  BY <1>1
  <2>2. l - 1 \in T  BY <1>14, <2>1
  <2> QED  BY <2>1, <2>2
<1> HIDE DEF T
<1>16. ASSUME NEW l \in 2..N PROVE Span[l] = Span[l - 1] * stride[l]
  <2>1. l \in 1..N /\ l # 1  BY <1>1
  <2> QED  BY <1>11, <2>1
<1> QED  BY <1>15, <1>16

\* The levels with plans right above a level that has one end somewhere.
LEMMA RunHasTop ==
  ASSUME TypeInv, NEW l \in 1..N, Planned(l)
  PROVE  /\ TopOfRun(l) \in l..N
         /\ \A m \in l..TopOfRun(l) : Planned(m)
         /\ TopOfRun(l) < N => ~Planned(TopOfRun(l) + 1)
<1> DEFINE D == {k \in l..N : k < N => ~Planned(k + 1)}
<1>1. N \in Nat  BY Typed
<1>2. D \in SUBSET Nat /\ N \in D  BY <1>1
<1> HIDE DEF D
<1>3. PICK top \in D : \A k \in D : top <= k  BY <1>2, LeastNatural
<1>4. top \in l..N /\ (top < N => ~Planned(top + 1))  BY DEF D
<1>5. ASSUME NEW m \in l..top PROVE Planned(m)
  <2>1. CASE m = l  BY <2>1
  <2>2. CASE m # l
    <3> DEFINE k == m - 1
    <3>1. k \in l..N /\ k < N /\ k < top /\ k + 1 = m  BY <1>1, <1>4, <2>2
    <3> HIDE DEF k
    <3>2. k \notin D  BY <1>1, <1>3, <1>4, <3>1
    <3> QED  BY <3>1, <3>2 DEF D
  <2> QED  BY <2>1, <2>2
<1>6. \E k \in l..N : (\A m \in l..k : Planned(m)) /\ (k < N => ~Planned(k + 1))
  BY <1>4, <1>5
<1> QED  BY <1>6 DEF TopOfRun

\* A plan that ends at the real goal goes as far as the highest plan above it, one that
\* does not hands on a goal withheld where a plan above goes beyond its subgoals.
LEMMA RunReaches ==
  ASSUME PlannerInv, NEW l \in 1..N, NEW top \in l..N, \A m \in l..top : Planned(m),
         top < N => ~Planned(top + 1)
  PROVE  /\ Anchored(l) => hz[l] * Span[l] >= hz[top] * Span[top]
         /\ ~Anchored(l) => \E k \in (l + 1)..top : levels[k].subgoals < hz[k]
<1>1. TypeInv /\ N \in Nat /\ hz \in [1..N -> Positive]  BY Typed DEF PlannerInv
<1> DEFINE Reaches(j) == /\ Anchored(j) => hz[j] * Span[j] >= hz[top] * Span[top]
                         /\ ~Anchored(j) => \E k \in (j + 1)..top : levels[k].subgoals < hz[k]
           T == {m \in Nat : top - m >= l => Reaches(top - m)}
<1>2. Reaches(top)
  <2>1. top \in 1..N /\ Planned(top)  BY <1>1
  <2>2. Free(top)  BY <2>1 DEF PlannerInv, PlansAre
  <2> DEFINE g == plan[top].goalLevel
             w == plan[top].goals
  <2>3. w = <<<<"goal", g>>>>  BY <2>2 DEF Free
  <2> HIDE DEF g, w
  <2>4. w[Len(w)] = <<"goal", g>>  BY <2>3
  <2>5. Anchored(top)  BY <2>4 DEF Anchored, w, g
  <2>6. hz[top] * Span[top] \in Int
    <3>1. hz[top] \in Positive /\ Span[top] \in Positive  BY <1>1, <2>1, SpanIs
    <3> QED  BY <3>1 DEF Positive
  <2> QED  BY <2>5, <2>6
<1>3. ASSUME NEW j \in l..(top - 1), Reaches(j + 1) PROVE Reaches(j)
  <2>1. j \in 1..(N - 1) /\ j \in 1..N /\ j + 1 \in 1..N /\ j + 1 \in 2..N /\ j + 1 - 1 = j
        /\ j \in l..top /\ j + 1 \in l..top /\ top \in 1..N
    BY <1>1
  <2>2. Planned(j) /\ Planned(j + 1)  BY <2>1
  <2>3. Under(j)  BY <1>1, <2>1, <2>2 DEF PlannerInv, PlansAre
  <2> DEFINE n == NWaypoints(j)
             w == plan[j].goals
             d == stride[j + 1]
  <2>4. /\ n \in Positive /\ (n = levels[j + 1].subgoals \/ n = hz[j + 1]) /\ n <= hz[j + 1]
        /\ n <= levels[j + 1].subgoals
        /\ Len(w) = n /\ (w[n] = <<"goal", j + 1>> <=> EndsThere(j))
    BY <1>1, <2>1, <2>3, WaypointsAre DEF Under
  <2>5. Anchored(j) <=> EndsThere(j)
    <3>1. plan[j].goalLevel = j + 1  BY <2>3 DEF Under
    <3> QED  BY <2>4, <3>1 DEF Anchored
  <2>6. /\ hz[j] \in Positive /\ hz[j + 1] \in Positive /\ hz[top] \in Positive /\ d \in Positive
        /\ levels[j + 1].subgoals \in Positive
        /\ Span[j] \in Positive /\ Span[top] \in Positive /\ Span[j + 1] = Span[j] * d
    BY <1>1, <2>1, SpanIs, Typed, SettingsAre
  <2>7. CASE Anchored(j)
    <3>1. levels[j + 1].subgoals >= hz[j + 1] /\ Anchored(j + 1)
      BY <2>5, <2>7 DEF EndsThere
    <3>2. n = hz[j + 1]  BY <2>4, <2>6, <3>1 DEF Positive
    <3>3. hz[j + 1] # 1
      <4>1. j + 1 # 1  BY <2>1
      <4> QED  BY <2>1, <2>2, <4>1 DEF PlannerInv, PlannedAbove
    <3>4. n = (hz[j] + d) \div d - 1  BY <2>3, <2>4, <2>6, <3>2, <3>3 DEF Under, Positive
    <3>5. hz[j] >= hz[j + 1] * d
      <4> DEFINE a == hz[j]
                 b == hz[j + 1]
                 q == (a + d) \div d
                 r == (a + d) % d
      <4>1. a \in Positive /\ b \in Positive /\ b = q - 1  BY <2>6, <3>2, <3>4
      <4>2. a + d \in Nat  BY <2>6, <4>1 DEF Positive
      <4>3. q \in Nat /\ r \in 0..(d - 1) /\ a + d = d * q + r  BY <2>6, <4>2, Division
      <4> HIDE DEF a, b, q, r, d
      <4>4. q = b + 1  BY <4>1, <4>3 DEF Positive
      <4>5. d * q = b * d + d /\ b * d \in Int
        <5>1. \A x \in Nat, y \in Nat : x * (y + 1) = y * x + x /\ y * x \in Int  OBVIOUS
        <5>2. d \in Nat /\ b \in Nat  BY <2>6, <4>1 DEF Positive
        <5> QED  BY <4>4, <5>1, <5>2
      <4>6. a >= b * d  BY <2>6, <4>1, <4>3, <4>5 DEF Positive
      <4> QED  BY <4>6 DEF a, b
    <3>6. hz[j] * Span[j] >= hz[j + 1] * Span[j + 1]
      <4> DEFINE a == hz[j]
                 b == hz[j + 1]
                 s == Span[j]
      <4>1. a \in Nat /\ b \in Nat /\ s \in Nat /\ d \in Nat /\ a >= b * d /\ Span[j + 1] = s * d
        BY <2>6, <3>5 DEF Positive
      <4> HIDE DEF a, b, s, d
      <4>2. b * d \in Nat  BY <4>1
      <4>3. \A x \in Nat, y \in Nat, z \in Nat : x >= y => x * z >= y * z  OBVIOUS
      <4>4. a * s >= (b * d) * s  BY <4>1, <4>2, <4>3
      <4>5. (b * d) * s = b * (s * d)  BY <4>1
      <4> QED  BY <4>1, <4>4, <4>5 DEF a, b, s
    <3>7. hz[j + 1] * Span[j + 1] >= hz[top] * Span[top]  BY <1>3, <3>1
    <3>8. \A x \in Int, y \in Int, z \in Int : x >= y /\ y >= z => x >= z  OBVIOUS
    <3>9. hz[j] * Span[j] \in Int /\ hz[j + 1] * Span[j + 1] \in Int /\ hz[top] * Span[top] \in Int
      <4>1. \A x \in Positive, y \in Positive : x * y \in Int  BY DEF Positive
      <4>2. Span[j + 1] \in Positive  BY <1>1, <2>1, SpanIs
      <4> QED  BY <2>6, <4>1, <4>2
    <3> QED  BY <2>7, <3>6, <3>7, <3>8, <3>9
  <2>8. CASE ~Anchored(j)
    <3>1. CASE levels[j + 1].subgoals < hz[j + 1]
      <4>1. j + 1 \in (j + 1)..top  BY <2>1
      <4> QED  BY <2>8, <3>1, <4>1
    <3>2. CASE ~(levels[j + 1].subgoals < hz[j + 1])
      <4>1. ~Anchored(j + 1)  BY <2>5, <2>6, <2>8, <3>2 DEF EndsThere, Positive
      <4>2. PICK k \in (j + 1 + 1)..top : levels[k].subgoals < hz[k]  BY <1>3, <4>1
      <4>3. k \in (j + 1)..top  BY <2>1
      <4> QED  BY <2>8, <4>2, <4>3
    <3> QED  BY <3>1, <3>2
  <2> QED  BY <2>7, <2>8
<1> HIDE DEF Reaches
<1>4. 0 \in T
  <2>1. top - 0 = top  BY <1>1
  <2> QED  BY <1>2, <2>1
<1>5. ASSUME NEW m \in T PROVE m + 1 \in T
  <2> SUFFICES ASSUME top - (m + 1) >= l PROVE Reaches(top - (m + 1))  OBVIOUS
  <2>1. m \in Nat /\ top - m >= l  BY <1>1
  <2>2. Reaches(top - m)  BY <2>1
  <2> HIDE DEF T
  <2> DEFINE j == top - (m + 1)
  <2>3. j \in l..(top - 1) /\ j + 1 = top - m  BY <1>1, <2>1
  <2> HIDE DEF j
  <2>4. Reaches(j)  BY <1>3, <2>2, <2>3
  <2> QED  BY <2>4 DEF j
<1>6. T = Nat
  <2>1. T \in SUBSET Nat  OBVIOUS
  <2> HIDE DEF T
  <2> QED  BY <1>4, <1>5, <2>1, Inductive
<1>7. Reaches(l)
  <2>1. top - l \in Nat /\ top - (top - l) = l /\ l >= l  BY <1>1
  <2>2. top - l \in T  BY <1>6, <2>1
  <2> QED  BY <2>1, <2>2
<1> QED  BY <1>7 DEF Reaches

\* The real goal is in its place.
LEMMA RealGoalHolds == PlannerInv => RealGoalInPlace
<1> SUFFICES ASSUME PlannerInv, NEW l \in 1..N, Planned(l)
             PROVE  LET top == TopOfRun(l)
                        goals == plan[l].goals
                    IN  IF goals[Len(goals)] = <<"goal", plan[l].goalLevel>>
                        THEN top > l => Len(goals) * Span[l + 1] >= hz[top] * Span[top]
                        ELSE \E k \in (l + 1)..top : levels[k].subgoals < hz[k]
  BY DEF RealGoalInPlace
<1> DEFINE top == TopOfRun(l)
           w == plan[l].goals
<1>1. TypeInv /\ N \in Nat /\ hz \in [1..N -> Positive]  BY Typed DEF PlannerInv
<1>2. top \in l..N /\ (\A m \in l..top : Planned(m)) /\ (top < N => ~Planned(top + 1))
  BY <1>1, RunHasTop
<1> HIDE DEF top, w
<1>3. CASE Anchored(l)
  <2> SUFFICES ASSUME top > l PROVE Len(w) * Span[l + 1] >= hz[top] * Span[top]
    BY <1>3 DEF Anchored, top, w
  <2>1. l \in 1..(N - 1) /\ l + 1 \in 1..N /\ l + 1 \in l..top /\ top \in (l + 1)..N
    BY <1>1, <1>2
  <2>2. \A m \in (l + 1)..top : m \in l..top  BY <1>1, <2>1
  <2>3. Under(l)  BY <1>1, <1>2, <2>1 DEF PlannerInv, PlansAre
  <2> DEFINE n == NWaypoints(l)
  <2>4. /\ n \in Positive /\ n <= hz[l + 1] /\ n <= levels[l + 1].subgoals
        /\ n = levels[l + 1].subgoals \/ n = hz[l + 1]
        /\ Len(w) = n /\ (w[n] = <<"goal", l + 1>> <=> EndsThere(l))
    BY <1>1, <2>1, <2>3, WaypointsAre DEF Under, w
  <2>5. EndsThere(l)
    <3>1. plan[l].goalLevel = l + 1  BY <2>3 DEF Under
    <3> QED  BY <1>3, <2>4, <3>1 DEF Anchored, w
  <2>6. hz[l + 1] \in Positive /\ levels[l + 1].subgoals \in Positive
    BY <1>1, <2>1, Typed, SettingsAre
  <2>7. Len(w) = hz[l + 1]  BY <2>4, <2>5, <2>6 DEF EndsThere, Positive
  <2>8. Anchored(l + 1)  BY <2>5 DEF EndsThere
  <2>9. hz[l + 1] * Span[l + 1] >= hz[top] * Span[top]
    <3> DEFINE k == l + 1
    <3>1. k \in 1..N /\ top \in k..N /\ (\A m \in k..top : Planned(m)) /\ Anchored(k)
      BY <1>2, <2>1, <2>2, <2>8
    <3> HIDE DEF k
    <3>2. hz[k] * Span[k] >= hz[top] * Span[top]  BY <1>2, <3>1, RunReaches
    <3> QED  BY <3>2 DEF k
  <2> QED  BY <2>7, <2>9
<1>4. CASE ~Anchored(l)
  <2>1. \E k \in (l + 1)..top : levels[k].subgoals < hz[k]  BY <1>2, <1>4, RunReaches
  <2> QED  BY <1>4, <2>1 DEF Anchored, top, w
<1> QED  BY <1>3, <1>4

\* Each level aims at what it should, in the space it should: waypoints are of this
\* call's plan above, the real goal is where the plans above lead, and a level without a
\* plan above is scored where the levels above it asked.
THEOREM GoalsHold == PlannerSpec => []GoalsAreRight
<1>1. PlannerInv => GoalsAreRight
  BY WaypointsHold, RealGoalHolds, GoalLevelHolds DEF GoalsAreRight
<1> QED  BY <1>1, PlannerInvHolds, PTL
=============================================================================
