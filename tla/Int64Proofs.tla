---------------------------- MODULE Int64Proofs -----------------------------
(* Arithmetic of a fixed width, for every width.                            *)
EXTENDS Int64, TLAPS

LEMMA ProductMonotonic ==
  ASSUME NEW a \in Int, NEW b \in Int, NEW f \in Nat \ {0}, a <= b
  PROVE  a * f <= b * f
OBVIOUS

LEMMA QuotientBounds ==
  ASSUME NEW m \in Nat, NEW f \in Nat \ {0}
  PROVE  m \div f \in Nat /\ (m \div f) * f <= m /\ m < ((m \div f) + 1) * f
OBVIOUS

LEMMA SmallRemainder ==
  ASSUME NEW a \in Nat, NEW b \in Nat \ {0}, a < b
  PROVE  a % b = a
OBVIOUS

LEMMA RemainderOfDouble ==
  ASSUME NEW a \in Nat, NEW b \in Nat \ {0}, b <= a, a < 2 * b
  PROVE  a % b = a - b
OBVIOUS

\* What fits is left as it is.
LEMMA WrapIsExact ==
  ASSUME NEW n \in Int, 0 <= n, n <= MaxInt
  PROVE  Wrap(n) = n
<1>1. /\ n + MaxInt + 1 \in Nat /\ 2 * (MaxInt + 1) \in Nat \ {0}
      /\ n + MaxInt + 1 < 2 * (MaxInt + 1)
  BY MaxIntAssumption
<1>2. (n + MaxInt + 1) % (2 * (MaxInt + 1)) = n + MaxInt + 1
  BY <1>1, SmallRemainder
<1> QED
  BY <1>2, MaxIntAssumption DEF Wrap

\* What exceeds the width by less than its double comes out as a smaller number.
LEMMA WrapOverflows ==
  ASSUME NEW n \in Int, MaxInt < n, n <= 3 * MaxInt + 2
  PROVE  Wrap(n) = n - 2 * (MaxInt + 1)
<1>1. /\ n + MaxInt + 1 \in Nat /\ 2 * (MaxInt + 1) \in Nat \ {0}
      /\ 2 * (MaxInt + 1) <= n + MaxInt + 1
      /\ n + MaxInt + 1 < 2 * (2 * (MaxInt + 1))
  BY MaxIntAssumption
<1>2. (n + MaxInt + 1) % (2 * (MaxInt + 1)) = (n + MaxInt + 1) - 2 * (MaxInt + 1)
  BY <1>1, RemainderOfDouble
<1> QED
  BY <1>2, MaxIntAssumption DEF Wrap

\* Comparing with a quotient, as parseByteSize does, is the same as comparing the product:
\* it rejects every product that does not fit and no other (config.go:249).
THEOREM QuotientGuardIsExact ==
  ASSUME NEW n \in Int, NEW f \in Nat \ {0}
  PROVE  n <= MaxInt \div f <=> n * f <= MaxInt
<1> DEFINE q == MaxInt \div f
<1>1. q \in Nat /\ q * f <= MaxInt /\ MaxInt < (q + 1) * f
  BY QuotientBounds, MaxIntAssumption
<1>2. ASSUME n <= q PROVE n * f <= MaxInt
  <2>1. n * f <= q * f
    BY <1>1, <1>2, ProductMonotonic
  <2> QED
    BY <1>1, <2>1, MaxIntAssumption
<1>3. ASSUME ~(n <= q) PROVE ~(n * f <= MaxInt)
  <2>1. q + 1 <= n
    BY <1>1, <1>3
  <2>2. (q + 1) * f <= n * f
    BY <1>1, <2>1, ProductMonotonic
  <2> QED
    BY <1>1, <2>2, MaxIntAssumption
<1> QED
  BY <1>2, <1>3
=============================================================================
