------------------------------- MODULE Codec -------------------------------
(***************************************************************************)
(* How a dispatched number becomes an integer of a register or CAN value,  *)
(* and back.  Numbers are counted in halves, so that every rounding case   *)
(* occurs with small integers; a word (a byte, a register) has base values *)
(* instead of 2^8 or 2^16.                                                 *)
(***************************************************************************)
EXTENDS Integers

Abs(x) == IF x < 0 THEN -x ELSE x

\* round(n / d) of the C library: halves are rounded away from zero.
RoundQuotient(n, d) ==
  LET q == (2 * Abs(n) + Abs(d)) \div (2 * Abs(d)) IN
  IF (n < 0) = (d < 0) THEN q ELSE -q

\* utl_val_limit().
Limit(x, lo, hi) == IF x < lo THEN lo ELSE IF x > hi THEN hi ELSE x

\* Integers of n words, signed or not: the least and the greatest one.
IntMin(base, n, signed) == IF signed THEN -(base^n \div 2) ELSE 0
IntMax(base, n, signed) == IF signed THEN base^n \div 2 - 1 ELSE base^n - 1

\* The integer a number h/2 is stored as.
Stored(h, scale, offset, lo, hi) ==
  Limit(RoundQuotient(h - 2 * offset, 2 * scale), lo, hi)

\* What ^ means, for exponents up to n: the provers know it only as an
\* operator, so a module that proves something about powers assumes this.
PowerLaw(b, n) == b^0 = 1 /\ \A k \in 0..(n - 1) : b^(k + 1) = b * b^k

\* The C conversion to an unsigned integer, and to a signed one.
Unsigned(x, base, n) == x % base^n
Signed(u, base, n)   == IF u < base^n \div 2 THEN u ELSE u - base^n

\* A bit of a word, and the word with this bit set or cleared.
BitAt(w, n) == (w \div 2^n) % 2
SetBit(w, n, on) == w + ((IF on THEN 1 ELSE 0) - BitAt(w, n)) * 2^n

\* Reference: of all integers the type has, x is stored closest to h/2.
IsNearest(x, h, scale, offset, lo, hi) ==
  /\ x \in lo..hi
  /\ \A y \in lo..hi : Abs(2 * (x * scale + offset) - h) <= Abs(2 * (y * scale + offset) - h)
=============================================================================
