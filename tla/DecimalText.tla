---------------------------- MODULE DecimalText ----------------------------
(***************************************************************************)
(* Supersede versions as the scripts compare them: Lua numbers are         *)
(* doubles, so an integer version stays the decimal text that str() wrote, *)
(* a sign and digits, and texts are compared.                              *)
(***************************************************************************)
EXTENDS Integers, Sequences

\* A natural number without its last digits, one more at each step.
Shifted(n) ==
    LET shifted[k \in Nat] == IF k = 0 THEN n ELSE shifted[k - 1] \div 10
    IN  shifted

Length(n) ==
    IF n = 0 THEN 1 ELSE CHOOSE k \in 1..n : Shifted(n)[k - 1] # 0 /\ Shifted(n)[k] = 0

Digits(n) == [i \in 1..Length(n) |-> Shifted(n)[Length(n) - i] % 10]

Text(n) == [negative |-> n < 0, digits |-> Digits(IF n < 0 THEN -n ELSE n)]

\* The order of two strings of the same length.
Before(a, b) ==
    \E i \in DOMAIN a : a[i] < b[i] /\ \A j \in 1..(i - 1) : a[j] = b[j]

\* Mutant: the digits are compared as strings of any length.
IntegerIsNewerByText(candidate, current) ==
    IF candidate.negative # current.negative THEN ~candidate.negative
    ELSE IF candidate.negative
    THEN candidate.digits[1] < current.digits[1]
    ELSE candidate.digits[1] > current.digits[1]

\* Digits by their number, then as strings.
Smaller(a, b) == Len(a) < Len(b) \/ (Len(a) = Len(b) /\ Before(a, b))

\* integer_is_newer.
IntegerIsNewer(candidate, current) ==
    IF candidate.negative # current.negative THEN ~candidate.negative
    ELSE IF candidate.negative THEN Smaller(candidate.digits, current.digits)
    ELSE Smaller(current.digits, candidate.digits)

\* assert_counter: a metric counter that cannot be incremented; the limit is
\* 2^63 - 2, one less than the largest counter of Redis.
CounterOverflows(raw, limit) == Smaller(Digits(limit), raw.digits)
=============================================================================
