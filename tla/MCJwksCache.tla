----------------------------- MODULE MCJwksCache -----------------------------
(* A small instance of JwksCache: two requests at a time; a signing key is *)
(* published beside the first one, which is then malformed, and so         *)
(* withdrawn; and at last two keys are published under one kid.            *)
EXTENDS JwksCache, TLC

CONSTANTS c1, c2, a, b, k1, k2, k3, k4

Jwk1(kid, key) ==
  [kid |-> kid, key |-> key, kty |-> "RSA", use |-> "sig", alg |-> None, exponent |-> 3]

Published ==
  << <<Jwk1(a, k1), [Jwk1(b, k3) EXCEPT !.use = "enc"]>>,
     <<Jwk1(a, k1), Jwk1(b, k2), [Jwk1(b, k3) EXCEPT !.kty = "EC"]>>,
     <<[Jwk1(a, k1) EXCEPT !.exponent = 1], Jwk1(b, k4), Jwk1(b, k2)>> >>

Good(kid, key, exp) ==
  [kid |-> kid, key |-> key, alg |-> "RS256", iss |-> TRUE, aud |-> TRUE, sub |-> TRUE,
   exp |-> exp, nbf |-> None]

Tokens ==
  {Good(a, k1, 20), [Good(b, k2, 20) EXCEPT !.nbf = 3], Good(b, k3, 20), Good(a, k1, 1),
   [Good(b, k2, 20) EXCEPT !.alg = "HS256"], [Good(a, k1, 20) EXCEPT !.aud = FALSE]}

\* The requests are alike.
Alike == Permutations(Call)
=============================================================================
