------------------------------- MODULE Int64 --------------------------------
(* Go's signed integers of a fixed width, with MaxInt for math.MaxInt64.    *)
EXTENDS Integers

CONSTANT MaxInt

ASSUME MaxIntAssumption == MaxInt \in Nat \ {0}

Fits(n) == -MaxInt - 1 <= n /\ n <= MaxInt

\* What is left of a sum or a product: arithmetic wraps around silently.
Wrap(n) == ((n + MaxInt + 1) % (2 * (MaxInt + 1))) - MaxInt - 1
=============================================================================
