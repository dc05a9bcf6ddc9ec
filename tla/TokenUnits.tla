------------------------------ MODULE TokenUnits ------------------------------
(***************************************************************************)
(* src/gateway/utils/token.service.ts: an amount is an integer on the      *)
(* chain and in the database, and a JavaScript number in the webhook.      *)
(*                                                                         *)
(* A number is a binary floating-point one with a significand of Bits      *)
(* bits; here it is an integer, how many times 1/Grid it is.  The exponent *)
(* is unbounded, which for amounts of coins it is.                         *)
(***************************************************************************)
EXTENDS Naturals

CONSTANTS
  Decimals,   \* of the token: 9 for TON and NOT, 6 for USDT
  Bits        \* of a significand: 53 in JavaScript

ASSUME UnitsAssumption == Decimals \in Nat /\ Bits \in Nat \ {0}

\* [Nat -> Nat]: the powers of base.
Power(base) ==
  LET power[k \in Nat] == IF k = 0 THEN 1 ELSE base * power[k - 1]
  IN  power

\* Coins of the smallest unit in one token.
One == Power(10)[Decimals]

\* The least power of two with LeastPower * step >= bound; it is 2^bound at most.
LeastPower(bound, step) ==
  Power(2)[CHOOSE k \in 0..bound :
             /\ Power(2)[k] * step >= bound
             /\ \A j \in 0..(k - 1) : Power(2)[j] * step < bound]

\* Fine enough to hold every significand of an amount of at least one unit.
Grid == LeastPower(One * Power(2)[Bits - 1], 1)

\* The distance of two numbers near amount / One.
Ulp(amount) == LeastPower(amount * Grid + 1, One * Power(2)[Bits])

\* Mutant of Format: the digits beyond the significand are cut off.
FormatTruncated(amount) ==
  ((amount * Grid) \div (One * Ulp(amount))) * Ulp(amount)

\* +formatUnits(value, decimals): the number nearest to the exact decimal, and
\* the one with the even significand of two that are.
Format(amount) ==
  LET step     == One * Ulp(amount)
      quotient == (amount * Grid) \div step
      rest     == (amount * Grid) % step
      up       == 2 * rest > step \/ (2 * rest = step /\ quotient % 2 = 1)
  IN  (IF up THEN quotient + 1 ELSE quotient) * Ulp(amount)

\* parseUnits(value.toFixed(decimals), decimals): the nearest integer, and the
\* greater of two that are.
Parse(number) == (2 * number * One + Grid) \div (2 * Grid)

\* Below this amount two numbers are closer to each other than two amounts.
ExactBelow ==
  (One * LeastPower(Grid, One) * Power(2)[Bits - 1]) \div Grid
===============================================================================
