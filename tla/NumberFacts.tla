---------------------------- MODULE NumberFacts ----------------------------
(***************************************************************************)
(* What the proofs need to know of numbers: induction and recursion on     *)
(* them, and the unsigned 64-bit arithmetic of the loaders.                *)
(***************************************************************************)
EXTENDS Integers, WellFoundedInduction, TLAPS

-----------------------------------------------------------------------------
\* Induction, for a set of numbers.

LEMMA NatMin ==
  ASSUME NEW T, T \subseteq Nat, T # {}
  PROVE  \E n \in T : \A j \in T : n <= j
<1> DEFINE R == {ss \in Nat \X Nat : ss[1] < ss[2]}
<1>1. IsWellFoundedOn(R, Nat)
  BY NatLessThanWellFounded DEF OpToRel
<1>2. PICK n \in T : \A j \in T : <<j, n>> \notin R
  BY <1>1, WFMin
<1>3. ASSUME NEW j \in T PROVE n <= j
  <2>1. j \in Nat /\ n \in Nat
    OBVIOUS
  <2>2. j < n => <<j, n>> \in R
    BY <2>1
  <2>3. ~(j < n)
    BY <1>2, <2>2
  <2>4. QED
    BY <2>1, <2>3
<1>4. QED
  BY <1>3

LEMMA SetInduction ==
  ASSUME NEW T, T \subseteq Nat, 0 \in T, \A k \in T : k + 1 \in T
  PROVE  T = Nat
<1> DEFINE U == Nat \ T
<1>1. SUFFICES ASSUME U # {} PROVE FALSE
  OBVIOUS
<1>2. U \subseteq Nat
  OBVIOUS
<1> HIDE DEF U
<1>3. PICK n \in U : \A j \in U : n <= j
  BY <1>1, <1>2, NatMin
<1>4. n \in Nat /\ n # 0
  BY <1>2 DEF U
<1>5. n - 1 \in Nat /\ ~(n <= n - 1)
  BY <1>4
<1>6. n - 1 \in T
  BY <1>3, <1>5 DEF U
<1>7. n \in T
  BY <1>4, <1>6
<1>8. QED
  BY <1>7 DEF U

\* g is b at 0, and F tells it at each number from the one before.
Recurs(g, b, F) == g[0] = b /\ \A n \in Nat : g[n + 1] = F[<<n, g[n]>>]

(* There is a function like that.                                             *)
LEMMA NatRecursion ==
  ASSUME NEW V, NEW b \in V, NEW F \in [Nat \X V -> V]
  PROVE  \E g \in [Nat -> V] : Recurs(g, b, F)
<1> DEFINE Start(g, n) == g[0] = b /\ \A i \in 0 .. n - 1 : g[i + 1] = F[<<i, g[i]>>]
           T == {n \in Nat : \E g \in [Nat -> V] : Start(g, n)}
           Same(n) == \A g, h \in [Nat -> V] : Start(g, n) /\ Start(h, n) => g[n] = h[n]
           U == {n \in Nat : Same(n)}
<1>1. T = Nat
  <2>1. 0 \in T
    <3>1. [i \in Nat |-> b] \in [Nat -> V] /\ Start([i \in Nat |-> b], 0)
      OBVIOUS
    <3>2. QED
      BY <3>1
  <2>2. ASSUME NEW n \in T PROVE n + 1 \in T
    <3>1. n \in Nat
      OBVIOUS
    <3>2. PICK g \in [Nat -> V] : Start(g, n)
      OBVIOUS
    <3> DEFINE v == F[<<n, g[n]>>]
               h == [i \in Nat |-> IF i = n + 1 THEN v ELSE g[i]]
    <3>3. v \in V
      BY <3>1
    <3>4. h \in [Nat -> V] /\ h[n + 1] = v /\ \A i \in 0 .. n : h[i] = g[i]
      BY <3>1, <3>3
    <3> HIDE DEF h
    <3>5. h[0] = b
      BY <3>1, <3>2, <3>4
    <3>6. ASSUME NEW i \in 0 .. n PROVE h[i + 1] = F[<<i, h[i]>>]
      <4>1. CASE i = n
        BY <3>4, <4>1
      <4>2. CASE i # n
        <5>1. i \in 0 .. n - 1 /\ i + 1 \in 0 .. n
          BY <3>1, <4>2
        <5>2. QED
          BY <3>2, <3>4, <5>1
      <4>3. QED
        BY <4>1, <4>2
    <3>7. Start(h, n + 1)
      BY <3>1, <3>5, <3>6
    <3>8. QED
      BY <3>1, <3>4, <3>7
  <2>3. T \subseteq Nat
    OBVIOUS
  <2> HIDE DEF T
  <2>4. QED
    BY <2>1, <2>2, <2>3, SetInduction
<1>2. U = Nat
  <2>1. 0 \in U
    OBVIOUS
  <2>2. ASSUME NEW n \in U PROVE n + 1 \in U
    <3>1. n \in Nat /\ Same(n)
      OBVIOUS
    <3>2. ASSUME NEW g \in [Nat -> V], NEW h \in [Nat -> V], Start(g, n + 1), Start(h, n + 1)
          PROVE  g[n + 1] = h[n + 1]
      <4>1. n \in 0 .. n + 1 - 1 /\ \A i \in 0 .. n - 1 : i \in 0 .. n + 1 - 1
        BY <3>1
      <4>2. Start(g, n) /\ Start(h, n)
        BY <3>2, <4>1
      <4>3. g[n] = h[n]
        BY <3>1, <4>2
      <4>4. g[n + 1] = F[<<n, g[n]>>] /\ h[n + 1] = F[<<n, h[n]>>]
        BY <3>2, <4>1
      <4>5. QED
        BY <4>3, <4>4
    <3> HIDE DEF Start
    <3>3. Same(n + 1)
      BY <3>2
    <3>4. QED
      BY <3>1, <3>3
  <2>3. U \subseteq Nat
    OBVIOUS
  <2> HIDE DEF U
  <2>4. QED
    BY <2>1, <2>2, <2>3, SetInduction
<1> DEFINE G == [n \in Nat |-> CHOOSE g \in [Nat -> V] : Start(g, n)]
           H == [n \in Nat |-> G[n][n]]
<1>3. ASSUME NEW n \in Nat PROVE G[n] \in [Nat -> V] /\ Start(G[n], n)
  <2>1. \E g \in [Nat -> V] : Start(g, n)
    BY <1>1
  <2> HIDE DEF Start
  <2>2. QED
    BY <2>1
<1>4. \A n \in Nat : Same(n)
  BY <1>2
<1> HIDE DEF G
<1>5. H \in [Nat -> V]
  BY <1>3
<1>6. H[0] = b
  BY <1>3
<1>7. ASSUME NEW n \in Nat PROVE H[n + 1] = F[<<n, H[n]>>]
  <2>1. /\ G[n] \in [Nat -> V] /\ Start(G[n], n)
        /\ G[n + 1] \in [Nat -> V] /\ Start(G[n + 1], n + 1)
    BY <1>3
  <2>2. n \in 0 .. n + 1 - 1 /\ \A i \in 0 .. n - 1 : i \in 0 .. n + 1 - 1
    OBVIOUS
  <2>3. Start(G[n + 1], n)
    BY <2>1, <2>2
  <2>4. G[n + 1][n + 1] = F[<<n, G[n + 1][n]>>]
    BY <2>1, <2>2
  <2> HIDE DEF Start
  <2>5. G[n + 1][n] = G[n][n]
    BY <1>4, <2>1, <2>3
  <2>6. QED
    BY <2>4, <2>5
<1> HIDE DEF H
<1>8. QED
  BY <1>5, <1>6, <1>7 DEF Recurs

-----------------------------------------------------------------------------
\* Both loaders compute the file position of a word from an int difference of two
\* addresses, converted to ut64, doubled and added to an offset (bpun_entries,
\* aout16_symbols, aout16_binsym).  What that comes to when it is negative.

(* Remainders, named so that the provers need not look inside them.           *)
Rem(a, U) == a % U

(* The position computed for the difference d, each operation modulo U.       *)
Shifted(U, off, d) == Rem(off + Rem(2 * Rem(d, U), U), U)

(* The remainder of a number that is at most one divisor away.                *)
LEMMA RemLow ==
  ASSUME NEW U \in Nat, NEW a \in Int, 0 <= a, a < U
  PROVE  Rem(a, U) = a
  BY DEF Rem

LEMMA RemNeg ==
  ASSUME NEW U \in Nat, NEW a \in Int, -U <= a, a < 0
  PROVE  Rem(a, U) = a + U
  BY DEF Rem

LEMMA RemHigh ==
  ASSUME NEW U \in Nat, NEW a \in Int, U <= a, a < 2 * U
  PROVE  Rem(a, U) = a - U
  BY DEF Rem

(* The three remainders come to one: d = b - l wraps when it is negative, and *)
(* doubling and adding the offset wrap back when the sum is not.              *)
LEMMA ShiftedIs ==
  ASSUME NEW U \in Nat, NEW off \in Nat, NEW d \in Int,
         -131072 <= d, d < 65536, off + 524288 < U
  PROVE  Shifted(U, off, d) = IF off + 2 * d >= 0 THEN off + 2 * d ELSE off + 2 * d + U
<1>1. CASE d >= 0
  <2>1. Rem(d, U) = d
    BY <1>1, RemLow
  <2>2. Rem(2 * d, U) = 2 * d
    BY <1>1, RemLow
  <2>3. Rem(off + 2 * d, U) = off + 2 * d
    BY <1>1, RemLow
  <2>4. QED
    BY <1>1, <2>1, <2>2, <2>3 DEF Shifted
<1>2. CASE d < 0
  <2>1. Rem(d, U) = d + U
    BY <1>2, RemNeg
  <2>2. Rem(2 * (d + U), U) = 2 * d + U
    BY <1>2, RemHigh
  <2>3. Rem(off + (2 * d + U), U)
          = IF off + 2 * d >= 0 THEN off + 2 * d ELSE off + 2 * d + U
    BY <1>2, RemHigh, RemLow
  <2>4. QED
    BY <2>1, <2>2, <2>3 DEF Shifted
<1>3. QED
  BY <1>1, <1>2

(* Seen from address l, which lies at off, the position of address b is right *)
(* when b lies past l, and right modulo U in any case.                        *)
LEMMA Wrap ==
  ASSUME NEW U \in Nat, NEW b \in Nat, NEW l \in Nat, NEW off \in Nat, NEW d \in Int,
         b < 65536, l <= 131072, off + 524288 < U, d = b - l
  PROVE  /\ b >= l => Shifted(U, off, d) = off + 2 * d
         /\ Rem(Shifted(U, off, d) + 2 * l, U) = Rem(off + 2 * b, U)
<1>1. Shifted(U, off, d) = IF off + 2 * d >= 0 THEN off + 2 * d ELSE off + 2 * d + U
  BY ShiftedIs
<1>2. Rem(off + 2 * b + U, U) = off + 2 * b /\ Rem(off + 2 * b, U) = off + 2 * b
  BY RemHigh, RemLow
<1>3. CASE off + 2 * d >= 0
  <2>1. Shifted(U, off, d) + 2 * l = off + 2 * b
    BY <1>1, <1>3
  <2>2. QED
    BY <1>1, <1>3, <2>1
<1>4. CASE off + 2 * d < 0
  <2>1. Shifted(U, off, d) + 2 * l = off + 2 * b + U
    BY <1>1, <1>4
  <2>2. QED
    BY <1>2, <1>4, <2>1
<1>5. QED
  BY <1>3, <1>4
=============================================================================
