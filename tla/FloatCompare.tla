----------------------------- MODULE FloatCompare -----------------------------
(***************************************************************************)
(* Tema2: arrays_double_equal (main.c), by which the results are judged,   *)
(* and the comparison of two doubles by their bit patterns under it.       *)
(*                                                                         *)
(* A floating-point number is its pattern: a sign bit, ExpBits bits of     *)
(* exponent and ManBits bits of mantissa; 11 and 52 in a double.           *)
(***************************************************************************)
EXTENDS Integers, FiniteSets

CONSTANTS ExpBits, ManBits,
  max_ulps,  (* MAX_ULPS                                                   *)
  size       (* the length of the arrays                                   *)

(* The powers of two.                                                      *)
Pow2[n \in Nat] == IF n = 0 THEN 1 ELSE 2 * Pow2[n - 1]

(* The number of patterns of one sign.                                     *)
Half == Pow2[ExpBits + ManBits]
Infinity == Half - Pow2[ManBits]

(* The assertion on max_ulps, at the width of a double: it must be smaller *)
(* than the number of patterns that stand for NaN.                         *)
ASSUME CompareAssumption ==
  /\ ExpBits \in Nat \ {0} /\ ManBits \in Nat \ {0} /\ size \in Nat \ {0}
  /\ max_ulps \in 1 .. Pow2[ManBits] - 1

Patterns == 0 .. 2 * Half - 1
Index == 0 .. size - 1

VARIABLES
  arr1, arr2,  (* the arrays                                               *)
  i,           (* the loop's index                                         *)
  result       (* "running", and then what the function returns            *)

compareVars == <<arr1, arr2, i, result>>

CompareInit ==
  /\ arr1 \in [Index -> Patterns] /\ arr2 \in [Index -> Patterns]
  /\ i = 0 /\ result = "running"

------------------------------------------------------------------------------
(* The pattern read as a signed integer.                                   *)
Signed(p) == IF p < Half THEN p ELSE p - 2 * Half

(* Mutant: negative patterns stay in the order of their magnitudes.        *)
OrderedBySign(p) == Signed(p)

(* A negative one is subtracted from the pattern of minus zero, so that    *)
(* the integers are ordered as the numbers.                                *)
Ordered(p) == IF Signed(p) < 0 THEN -Half - Signed(p) ELSE Signed(p)

Abs(n) == IF n < 0 THEN -n ELSE n

(* What llabs(a_int - b_int) may be.  A difference that overflows wraps;   *)
(* the absolute value of the least integer is itself, or the compiler      *)
(* tests the range in a way that takes it for too large.                   *)
IntDiffs(p, q) ==
  LET diff == Ordered(p) - Ordered(q)
      wrapped == IF diff >= Half THEN diff - 2 * Half
                 ELSE IF diff < -Half THEN diff + 2 * Half ELSE diff
  IN  IF wrapped = -Half THEN {-Half, Half} ELSE {Abs(wrapped)}

almost_equal_2s_complement(p, q) == {d <= max_ulps : d \in IntDiffs(p, q)}

CompareElement ==
  /\ result = "running" /\ i < size
  /\ \E equal \in almost_equal_2s_complement(arr1[i], arr2[i]) :
       IF equal THEN i' = i + 1 /\ UNCHANGED result
       ELSE result' = "FALSE" /\ UNCHANGED i
  /\ UNCHANGED <<arr1, arr2>>

CompareDone ==
  /\ result = "running" /\ i = size
  /\ result' = "TRUE"
  /\ UNCHANGED <<arr1, arr2, i>>

CompareNext ==
  CompareElement \/ CompareDone \/ (result # "running" /\ UNCHANGED compareVars)

CompareSpec == CompareInit /\ [][CompareNext]_compareVars
------------------------------------------------------------------------------
(* What the patterns mean, in units of the smallest number above zero.     *)
Magnitude(p) == p % Half
IsNaN(p) == Magnitude(p) > Infinity

(* How large the numbers are of that magnitude: without an exponent the    *)
(* denormal ones, and then each exponent doubles the distance.             *)
Size(m) ==
  LET e == m \div Pow2[ManBits]
      mantissa == m % Pow2[ManBits]
  IN  IF e = 0 THEN mantissa ELSE (Pow2[ManBits] + mantissa) * Pow2[e - 1]

Number(p) == IF p < Half THEN Size(Magnitude(p)) ELSE -Size(Magnitude(p))

Numbers == {Number(p) : p \in {q \in Patterns : ~IsNaN(q)}}

(* Two numbers are near when at most max_ulps steps lead from one to the   *)
(* other through the numbers there are.                                    *)
Near(p, q) ==
  Cardinality({n \in Numbers : \/ Number(p) < n /\ n <= Number(q)
                               \/ Number(q) < n /\ n <= Number(p)}) <= max_ulps

(* Numbers whose patterns do not differ by exactly the least integer,      *)
(* which has no absolute value.                                            *)
Comparable(p, q) ==
  /\ ~IsNaN(p) /\ ~IsNaN(q)
  /\ (p < Half <=> q < Half) \/ Magnitude(p) + Magnitude(q) # Half

(* On arrays of such numbers the result is TRUE exactly if all pairs are   *)
(* near: across the exponents, the denormal numbers, both zeroes and       *)
(* infinity, and where the difference overflows (main.c:184-217).          *)
EqualIffNear ==
  (result # "running" /\ \A k \in Index : Comparable(arr1[k], arr2[k])) =>
    (result = "TRUE" <=> \A k \in Index : Near(arr1[k], arr2[k]))
==============================================================================
