------------------------------- MODULE Factor -------------------------------
(***************************************************************************)
(* factorize: the two primes behind the pq of a resPQ, by Brent's variant  *)
(* of Pollard's rho on machine words.  Where the code draws the start of   *)
(* the walk and its constant from a generator seeded with the attempt, the *)
(* draws are parameters here.                                              *)
(***************************************************************************)
EXTENDS Integers, Sequences

CONSTANTS WordBits,  \* the bits of a word (64)
          Batch,     \* differences multiplied before a gcd is taken (128)
          Budget     \* brentBudget (1 << 20)

Word == 2 ^ WordBits

AddMod(a, b, n) ==
  LET sum == (a + b) % Word
  IN  IF sum < a \/ sum >= n THEN (sum - n) % Word ELSE sum

(* Mul64 and Div64: the product in two words, the high one reduced first.  *)
MulMod(a, b, n) ==
  LET hi == (a * b) \div Word
      lo == (a * b) % Word
  IN  ((hi % n) * Word + lo) % n

Diff(a, b) == IF a > b THEN a - b ELSE b - a

RECURSIVE Gcd(_, _)
Gcd(a, b) == IF b = 0 THEN a ELSE Gcd(b, a % b)

Walk(x, c, n) == AddMod(MulMod(x, x, n), c, n)

RECURSIVE Walked(_, _, _, _)
Walked(x, c, n, k) == IF k = 0 THEN x ELSE Walked(Walk(x, c, n), c, n, k - 1)

RECURSIVE Multiplied(_, _, _, _)
Multiplied(s, c, n, k) ==
  IF k = 0 THEN s
  ELSE LET y == Walk(s.y, c, n)
       IN  Multiplied([s EXCEPT !.y = y, !.q = MulMod(s.q, Diff(s.x, y), n), !.steps = @ + 1],
                      c, n, k - 1)

(* The second half of a round: r more differences, batch by batch, as long *)
(* as they share nothing with n.                                           *)
RECURSIVE Batches(_, _, _, _)
Batches(s, c, n, k) ==
  IF k >= s.r \/ s.g # 1 THEN s
  ELSE LET count == IF Batch < s.r - k THEN Batch ELSE s.r - k
           t == Multiplied([s EXCEPT !.ys = s.y], c, n, count)
       IN  Batches([t EXCEPT !.g = Gcd(t.q, n)], c, n, k + Batch)

RECURSIVE Rounds(_, _, _)
Rounds(s, c, n) ==
  IF s.g # 1 \/ s.steps > Budget THEN s
  ELSE LET t == [s EXCEPT !.x = s.y, !.y = Walked(s.y, c, n, s.r), !.steps = @ + s.r]
           u == Batches(t, c, n, 0)
       IN  Rounds([u EXCEPT !.r = 2 * @], c, n)

(* A batch whose product vanished is walked again, difference by           *)
(* difference, from the point saved before it.                             *)
RECURSIVE Again(_, _, _)
Again(s, c, n) ==
  IF s.g # 1 THEN s.g
  ELSE IF s.steps > Budget THEN 1
  ELSE LET ys == Walk(s.ys, c, n)
       IN  Again([s EXCEPT !.ys = ys, !.g = Gcd(Diff(s.x, ys), n), !.steps = @ + 1], c, n)

Brent(n, y, c) ==
  LET s == Rounds([x |-> 0, y |-> y, ys |-> 0, g |-> 1, r |-> 1, q |-> 1, steps |-> 0], c, n)
  IN  IF n <= 3 THEN n
      ELSE IF s.g = n THEN Again([s EXCEPT !.g = 1], c, n) ELSE s.g

NoFactors == <<0, 0>>

(* draws: the start and the constant of each attempt.                      *)
RECURSIVE Attempts(_, _)
Attempts(pq, draws) ==
  IF draws = <<>> THEN NoFactors
  ELSE LET f == Brent(pq, Head(draws)[1], Head(draws)[2])
       IN  IF f > 1 /\ f < pq
           THEN IF f > pq \div f THEN <<pq \div f, f>> ELSE <<f, pq \div f>>
           ELSE Attempts(pq, Tail(draws))

Factorize(pq, draws) == IF pq % 2 = 0 THEN <<2, pq \div 2>> ELSE Attempts(pq, draws)
=============================================================================
