------------------------------ MODULE Backoff ------------------------------
(***************************************************************************)
(* The arithmetic of sleepBackoff: the delay before a further attempt on   *)
(* one proxy doubles with every attempt, by a shift of a signed integer    *)
(* of width bits, which wraps.  The code has 64 bits, tries no shift of 32 *)
(* or more, and caps the delay at 2 s, a number of nanoseconds of 31 bits; *)
(* a smaller width keeps these proportions.                                *)
(***************************************************************************)
EXTENDS Integers

(* n as a signed integer of width bits.                                    *)
Wrapped(width, n) ==
  LET m == n % 2^width IN IF m >= 2^(width - 1) THEN m - 2^width ELSE m

(* The delay before the given attempt, --retry-delay being base.  Up to    *)
(* half of it is added at random.                                          *)
Delay(width, cap, base, attempt) ==
  LET shift  == attempt - 2
      scaled == Wrapped(width, base * 2^shift)
  IN  IF shift \in 0..(width \div 2 - 1) /\ scaled > 0 /\ scaled < cap THEN scaled ELSE cap
=============================================================================
