--------------------------- MODULE MCKeyExchange ---------------------------
(* A good group, one whose modulus only the primality tests refuse, and one *)
(* that is bad although its modulus may be in the cache.                   *)
EXTENDS KeyExchange, Factor, TLC

Good == [g |-> 3, prime |-> "safe", ga |-> "in range"]

MCGroups == {Good, [Good EXCEPT !.prime = "composite"], [Good EXCEPT !.ga = "one"]}

(* The two full exchanges, the nonces and the exponents are interchangeable. *)
Symmetry == Permutations(Exchanges \ Quick) \cup Permutations(Nonces) \cup Permutations(Exponents)

(* addmod and mulmod compute modulo n although the sum and the product of  *)
(* two words do not fit one.                                               *)
ASSUME ModularArithmetic ==
  \A n \in 1..(Word - 1) : \A a, b \in 0..(n - 1) :
    AddMod(a, b, n) = (a + b) % n /\ MulMod(a, b, n) = (a * b) % n

(* What the generator may draw for n.                                      *)
Draws(n) == (1..(n - 1)) \X (1..(n - 1))

Factors(pq) == {d \in 2..(pq - 1) : pq % d = 0}

(* Whatever is drawn, an answer is a factorization in ascending order, and *)
(* a number without proper factors has none.                               *)
ASSUME FactorizationSound ==
  \A pq \in {n \in 5..(Word - 1) : n % 2 = 1} : \A draw \in Draws(pq) :
    LET f == Factorize(pq, <<draw>>)
    IN  f # NoFactors => f[1] * f[2] = pq /\ f[1] \in Factors(pq) /\ f[1] <= f[2]

(* From 15 on, products of two odd primes are factored by most draws: the  *)
(* eight attempts of the code are seldom all in vain.                      *)
ASSUME FactorizationFinds ==
  \A pq \in {n \in 15..(Word - 1) : n % 2 = 1 /\ Cardinality(Factors(n)) \in {1, 2}} :
    Cardinality({draw \in Draws(pq) : Factorize(pq, <<draw>>) # NoFactors}) * 2
      > Cardinality(Draws(pq))
=============================================================================
