------------------------------- MODULE Curve -------------------------------
(***************************************************************************)
(* crypto/ec_p256.py, crypto/ecdsa.py and crypto/ecdh.py over a curve      *)
(* y^2 = x^3 - 3x + B over the integers modulo P with prime order N < P,   *)
(* the parameters being small.  A hash is a number below 2 ^ qlen, and the *)
(* encoding of a number is the number.                                     *)
(***************************************************************************)
EXTENDS Integers, Sequences

CONSTANTS P, B, N, GX, GY

A == P - 3
Infinity == <<>>                                \* None
G == <<GX, GY>>

(* pow(a, -1, m)                                                           *)
mod_inv(a, m) == CHOOSE i \in 1 .. m - 1 : (a * i) % m = 1

is_on_curve(p) ==
    \/ p = Infinity
    \/ /\ p[1] \in 0 .. P - 1 /\ p[2] \in 0 .. P - 1
       /\ (p[2] * p[2]) % P = (p[1] * p[1] * p[1] + A * p[1] + B) % P

-----------------------------------------------------------------------------
(* The point on the line of slope m through p and a second point at x2.    *)
Third(m, p, x2) ==
    LET x3 == (m * m - p[1] - x2) % P
    IN <<x3, (m * (p[1] - x3) - p[2]) % P>>

(* Faulty variants, named after the bug, stand before the definition they  *)
(* are variants of; nothing else uses them.                                *)
double_without_a(p) ==
    IF p = Infinity \/ p[2] = 0 THEN Infinity
    ELSE Third((3 * p[1] * p[1] * mod_inv((2 * p[2]) % P, P)) % P, p, p[1])

point_double(p) ==
    IF p = Infinity \/ p[2] = 0 THEN Infinity
    ELSE Third(((3 * p[1] * p[1] + A) * mod_inv((2 * p[2]) % P, P)) % P, p, p[1])

point_add(p, q) ==
    IF p = Infinity THEN q
    ELSE IF q = Infinity THEN p
    ELSE IF p[1] = q[1]
         THEN IF (p[2] + q[2]) % P = 0 THEN Infinity ELSE point_double(p)
         ELSE Third(((q[2] - p[2]) * mod_inv((q[1] - p[1]) % P, P)) % P, p, q[1])

(* The loop of scalar_mul: double and add over the bits of k.              *)
RECURSIVE DoubleAndAdd(_, _, _)
DoubleAndAdd(k, result, addend) ==
    IF k = 0 THEN result
    ELSE DoubleAndAdd(k \div 2,
                      IF k % 2 = 1 THEN point_add(result, addend) ELSE result,
                      point_double(addend))

scalar_mul(k, p) ==
    IF p = Infinity \/ k % N = 0 THEN Infinity
    ELSE IF k < 0 THEN DoubleAndAdd(-k, Infinity, <<p[1], (P - p[2]) % P>>)
    ELSE DoubleAndAdd(k, Infinity, p)

scalar_mul_g(k) == scalar_mul(k, G)

is_valid_private_key(d) == d \in 1 .. N - 1

(* point_to_bytes and point_from_bytes: a prefix, which is 4 for an        *)
(* uncompressed point, and two coordinates.  <<>> is a ValueError.         *)
point_to_bytes(p) == IF p = Infinity THEN <<>> ELSE <<4, p[1], p[2]>>

point_from_bytes_unchecked(b) == IF Len(b) = 3 /\ b[1] = 4 THEN <<b[2], b[3]>> ELSE <<>>

point_from_bytes(b) ==
    IF Len(b) = 3 /\ b[1] = 4 /\ is_on_curve(<<b[2], b[3]>>) THEN <<b[2], b[3]>> ELSE <<>>

-----------------------------------------------------------------------------
(* sign.  The k of _rfc6979_generate_k is a function of the key and of the *)
(* hash: any number from 1 to N - 1, and the same one each time the loop   *)
(* comes round.  <<>> is the RuntimeError after the last time.             *)
sign(d, z, k) ==
    LET r == scalar_mul_g(k)[1] % N
        s == (mod_inv(k, N) * (z + r * d)) % N
    IN IF r = 0 \/ s = 0 THEN <<>> ELSE <<r, s>>

verify_any_range(b, z, sig) ==
    LET q == point_from_bytes(b)
        w == IF sig[2] % N = 0 THEN 0 ELSE mod_inv(sig[2], N)
        point == point_add(scalar_mul((z * w) % N, G), scalar_mul((sig[1] * w) % N, q))
    IN Len(sig) = 2 /\ q # <<>> /\ (point = Infinity \/ point[1] % N = sig[1] % N)

verify(b, z, sig) ==
    /\ Len(sig) = 2
    /\ sig[1] \in 1 .. N - 1 /\ sig[2] \in 1 .. N - 1
    /\ point_from_bytes(b) # <<>>
    /\ LET w == mod_inv(sig[2], N)
           point == point_add(scalar_mul((z * w) % N, G),
                              scalar_mul((sig[1] * w) % N, point_from_bytes(b)))
       IN point # Infinity /\ point[1] % N = sig[1]

(* _raw_shared_x; <<>> is a ValueError.                                    *)
raw_shared_x(d, b) ==
    LET q == point_from_bytes(b)
        shared == scalar_mul(d, q)
    IN IF ~is_valid_private_key(d) \/ q = <<>> \/ shared = Infinity THEN <<>> ELSE <<shared[1]>>
=============================================================================
