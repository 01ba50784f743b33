------------------------------ MODULE Compact -------------------------------
(***************************************************************************)
(* chain::compact, the floating representation of a proof-of-work target:  *)
(* an exponent digit, a sign bit and a mantissa of three digits.  The code *)
(* has Radix 256 and BigBytes 32.                                          *)
(***************************************************************************)
EXTENDS Integers, FiniteSets

CONSTANTS
  Radix,          \* values of a digit (a byte), even
  BigBytes        \* digits of the big number (uint256_t)

ASSUME CompactAssumption ==
  /\ Radix \in Nat /\ Radix > 1 /\ Radix % 2 = 0
  /\ BigBytes \in Nat /\ BigBytes >= 3 /\ BigBytes + 1 < Radix * Radix

BigRange == Radix^BigBytes
MantissaRange == Radix^3                   \* mantissa and sign
SignBit == MantissaRange \div 2

IsNegated(compact) == compact % MantissaRange >= SignBit

(* Significant digits: log_256 of a mantissa, logical_size of a big value. *)
Digits(value) ==
  CHOOSE n \in 0..BigBytes : value < Radix^n /\ (n = 0 \/ value >= Radix^(n - 1))

IsOverflow(exponent, mantissa) ==
  /\ mantissa > 0
  /\ exponent > BigBytes + 3 - Digits(mantissa)

(* The value and whether it fits; an overflow leaves the big number zero.  *)
FromCompact(compact) ==
  LET mantissa == compact % SignBit
      exponent == compact \div MantissaRange
  IN  CASE IsNegated(compact) -> [ok |-> TRUE, big |-> 0]
        [] ~IsNegated(compact) /\ exponent <= 3 ->
             [ok |-> TRUE, big |-> mantissa \div Radix^(3 - exponent)]
        [] ~IsNegated(compact) /\ exponent > 3 /\ IsOverflow(exponent, mantissa) ->
             [ok |-> FALSE, big |-> 0]
        [] OTHER ->
             [ok |-> TRUE, big |-> (mantissa * Radix^(exponent - 3)) % BigRange]

(* Fault: a mantissa with its high bit set is not moved into the exponent. *)
FromBigKeepsSign(big) ==
  LET exponent == Digits(big)
      mantissa == IF exponent <= 3 THEN big * Radix^(3 - exponent)
                                   ELSE big \div Radix^(exponent - 3)
  IN  exponent * MantissaRange + mantissa

(* A mantissa that reaches the sign bit is moved one digit down.           *)
FromBig(big) ==
  LET exponent == Digits(big)
      mantissa == IF exponent <= 3 THEN big * Radix^(3 - exponent)
                                   ELSE big \div Radix^(exponent - 3)
  IN  IF IsNegated(mantissa)
      THEN (exponent + 1) * MantissaRange + mantissa \div Radix
      ELSE exponent * MantissaRange + mantissa

(* header::proof: 2^256 / (target + 1), zero for bits that overflow.       *)
Proof(bits) ==
  LET target == FromCompact(bits).big
  IN  IF ~FromCompact(bits).ok \/ target + 1 = BigRange THEN 0
      ELSE (BigRange - 1 - target) \div (target + 1) + 1

=============================================================================
