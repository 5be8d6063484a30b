----------------------------- MODULE ModuloFacts -----------------------------
(***************************************************************************)
(* What the proofs about the round-robin counters of the two proxies need  *)
(* of the remainder of a division.                                         *)
(***************************************************************************)
EXTENDS Integers, TLAPS

(* Quotient and remainder. *)
LEMMA DivMod ==
  ASSUME NEW n \in Nat \ {0}, NEW a \in Nat
  PROVE  /\ a \div n \in Nat /\ a % n \in 0..(n - 1)
         /\ a = (n * (a \div n)) + (a % n)
  OBVIOUS

(* One addition of less than n to a remainder wraps around at most once. *)
LEMMA ModWraps ==
  ASSUME NEW n \in Nat \ {0}, NEW a \in 0..(n - 1), NEW b \in 0..(n - 1)
  PROVE  (a + b) % n = IF a + b < n THEN a + b ELSE a + b - n
<1>1. CASE a + b < n
  BY <1>1
<1>2. CASE a + b >= n
  <2>1. a + b = 1 * n + (a + b - n) /\ a + b - n \in 0..(n - 1)
    BY <1>2
  <2>2. \A q \in Int, r \in 0..(n - 1) : (q * n + r) % n = r
    OBVIOUS
  <2> QED  BY <1>2, <2>1, <2>2
<1> QED  BY <1>1, <1>2

(* Different offsets from the same place of a ring are different places. *)
LEMMA ModShift ==
  ASSUME NEW n \in Nat \ {0}, NEW a \in 0..(n - 1),
         NEW b \in 0..(n - 1), NEW c \in 0..(n - 1),
         (a + b) % n = (a + c) % n
  PROVE  b = c
<1>1. (a + b) % n = IF a + b < n THEN a + b ELSE a + b - n
  BY ModWraps
<1>2. (a + c) % n = IF a + c < n THEN a + c ELSE a + c - n
  BY ModWraps
<1> QED  BY <1>1, <1>2

(* Two counter values less than one round apart are different places. *)
LEMMA ModApart ==
  ASSUME NEW n \in Nat \ {0}, NEW a \in Nat, NEW b \in Nat, a < b, b < a + n
  PROVE  a % n # b % n
<1> DEFINE q == a \div n
           r == a % n
           p == b \div n
           s == b % n
<1>1. q \in Nat /\ r \in 0..(n - 1) /\ a = n * q + r
  BY DivMod
<1>2. p \in Nat /\ s \in 0..(n - 1) /\ b = n * p + s
  BY DivMod
<1> SUFFICES ASSUME r = s PROVE FALSE
  OBVIOUS
<1> HIDE DEF q, r, p, s
<1>3. n * p - n * q = n * (p - q)
  BY <1>1, <1>2
<1>4. 0 < n * (p - q) /\ n * (p - q) < n * 1
  BY <1>1, <1>2, <1>3
<1>5. p - q \in Int /\ (p - q <= 0 \/ p - q >= 1)
  BY <1>1, <1>2
<1>6. CASE p - q <= 0
  BY <1>1, <1>2, <1>4, <1>6
<1>7. CASE p - q >= 1
  BY <1>1, <1>2, <1>4, <1>7
<1> QED  BY <1>5, <1>6, <1>7
=============================================================================
