------------------------------ MODULE PrimeList ------------------------------
(***************************************************************************)
(* What the prime sieve promises: it prints the primes below N, each once, *)
(* in ascending order.                                                     *)
(***************************************************************************)
EXTENDS Integers, Sequences

CONSTANT N

VARIABLE printed

IsPrime(n) == n > 1 /\ \A d \in 2 .. n - 1 : n % d # 0

Primes == {n \in 2 .. N - 1 : IsPrime(n)}

Listed == {printed[k] : k \in DOMAIN printed}

Init == printed = << >>

PrintPrime(p) ==
  /\ p \in Primes \ Listed
  /\ \A q \in Primes \ Listed : p <= q
  /\ printed' = Append(printed, p)

Next == \E p \in 2 .. N - 1 : PrintPrime(p)

Safety == Init /\ [][Next]_printed

Spec == Safety /\ WF_printed(Next)
=============================================================================
