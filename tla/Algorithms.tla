----------------------------- MODULE Algorithms -----------------------------
(***************************************************************************)
(* The functions of crypto/ that compute on numbers and bits (the curve,   *)
(* AES, GCM), called on all inputs of a small domain and compared with     *)
(* what they should compute, beside the calls of Encodings.                *)
(*                                                                         *)
(* The reference definitions (Ref...) are mathematics, not code.           *)
(***************************************************************************)
EXTENDS Encodings, Curve, Aes, Gcm, FiniteSets

CONSTANTS Hashes,        \* message hashes
          Scalars,       \* private keys used with every signature
          AesInputs,     \* pairs of key and block
          Factors,       \* blocks to multiply
          Texts,         \* plaintexts, ciphertexts and additional data
          NonceGcm, KeyGcm

Point == {p \in (0 .. P - 1) \X (0 .. P - 1) : is_on_curve(p)} \cup {Infinity}

CallPointAdd == Idle /\ \E p, q \in Point :
    Calls([op |-> "point_add", p |-> p, q |-> q], point_add(p, q))
CallScalarMul == Idle /\ \E p \in Point, k \in -N .. 2 * N + 1 :
    Calls([op |-> "scalar_mul", p |-> p, k |-> k], scalar_mul(k, p))
CallSign == Idle /\ \E d, k \in 1 .. N - 1, z \in Hashes :
    Calls([op |-> "sign", d |-> d, z |-> z], sign(d, z, k))
CallVerify == Idle /\ \E d \in Scalars, z \in Hashes, r, s \in 0 .. N + 1 :
    Calls([op |-> "verify", d |-> d, z |-> z, sig |-> <<r, s>>],
          verify(point_to_bytes(scalar_mul_g(d)), z, <<r, s>>))
CallSharedKey == Idle /\ \E d \in Scalars, prefix \in {2, 4}, x, y \in 0 .. P :
    Calls([op |-> "shared_key", d |-> d, peer |-> <<prefix, x, y>>], raw_shared_x(d, <<prefix, x, y>>))
CallSbox == Idle /\ \E b \in 0 .. 255 : Calls([op |-> "sbox", byte |-> b], SBOX(b))
(* encrypt_block adds the first round key, and then runs round by round.   *)
CallAes == Idle /\ \E i \in AesInputs :
    Calls([op |-> "encrypt_block", keys |-> key_expansion(i[1]), round |-> 0, before |-> i[2]],
          add_round_key(i[2], key_expansion(i[1])[1]))
AesRound ==
    /\ call.op = "encrypt_block" /\ call.round + 1 < Len(call.keys)
    /\ call' = [call EXCEPT !.round = @ + 1, !.before = result]
    /\ result' = round(result, call.round + 1, call.keys)
    /\ UNCHANGED streamVars
CallGfMul == Idle /\ \E x, y \in Factors : Calls([op |-> "gf_mul", x |-> x, y |-> y], gf_mul(x, y))
CallEncrypt == Idle /\ \E p, aad \in Texts :
    Calls([op |-> "encrypt", text |-> p, aad |-> aad], encrypt(KeyGcm, NonceGcm, p, aad))

Next ==
    \/ EncodingNext
    \/ CallPointAdd \/ CallScalarMul \/ CallSign \/ CallVerify \/ CallSharedKey
    \/ CallSbox \/ CallAes \/ AesRound \/ CallGfMul \/ CallEncrypt

Spec == Init /\ [][Next]_vars

-----------------------------------------------------------------------------
(* p added up k times.                                                     *)
RefMultiple(k, p) == FoldLeft(LAMBDA s, i : point_add(s, p), Infinity, [i \in 1 .. k |-> i])
RefMinus(p) == IF p = Infinity THEN p ELSE <<p[1], (P - p[2]) % P>>

(* point_add makes the points of the curve a commutative group, and        *)
(* scalar_mul, also of a negative factor and of one beyond the order, is   *)
(* repeated addition in it.                                                *)
CurveIsGroup ==
    /\ call.op = "point_add" =>
          /\ result \in Point
          /\ result = point_add(call.q, call.p)
          /\ result = Infinity <=> call.q = RefMinus(call.p)
          /\ \A r \in Point : point_add(result, r) = point_add(call.p, point_add(call.q, r))
    /\ call.op = "scalar_mul" =>
          result = IF call.k < 0 THEN RefMultiple(-call.k, RefMinus(call.p))
                   ELSE RefMultiple(call.k, call.p)

(* What sign returns verifies under the signer's key, also where x exceeds *)
(* the order; and verify accepts a pair of numbers only if r is the        *)
(* x-coordinate, modulo N, of ((z + r d) / s) G, which takes the key d.    *)
SignaturesExact ==
    /\ call.op = "sign" /\ result # <<>> =>
          verify(point_to_bytes(scalar_mul_g(call.d)), call.z, result)
    /\ call.op = "verify" =>
          result <=> LET r == call.sig[1]  s == call.sig[2]
                     IN /\ r \in 1 .. N - 1 /\ s \in 1 .. N - 1
                        /\ \E u \in 1 .. N - 1 :
                              /\ (u * s) % N = (call.z + r * call.d) % N
                              /\ RefMultiple(u, G)[1] % N = r

(* Two parties derive the same secret, each from its own scalar and the    *)
(* other's public key; bytes that are no point of the curve are refused.   *)
SecretsAgree ==
    call.op = "shared_key" =>
        LET peers == {e \in 1 .. N - 1 : point_to_bytes(scalar_mul_g(e)) = call.peer}
        IN IF peers = {} THEN result = <<>>
           ELSE \A e \in peers : result # <<>> /\ result = raw_shared_x(e, point_to_bytes(scalar_mul_g(call.d)))

-----------------------------------------------------------------------------
RefBit(b, i) == (b \div 2 ^ (i % 8)) % 2
RefInverse(b) == IF b = 0 THEN 0 ELSE CHOOSE i \in 1 .. 255 : gmul(b, i) = 1

(* The inverse of a round, of FIPS 197, section 5.3.                       *)
RefInvTable == [v \in 0 .. 255 |-> CHOOSE b \in 0 .. 255 : SBOX(b) = v]
RefInvMix(s) == [i \in 1 .. 16 |->
    LET row == (i - 1) % 4  X(j) == s[4 * ((i - 1) \div 4) + ((row + j) % 4) + 1]
    IN Xor4(gmul(X(0), 14), gmul(X(1), 11), gmul(X(2), 13), gmul(X(3), 9))]
RefInvRound(s, r, keys) ==
    LET t == XorSeq(s, keys[r + 1])
        m == IF r + 1 = Len(keys) THEN t ELSE RefInvMix(t)
    IN [i \in 1 .. 16 |->
           LET row == (i - 1) % 4  col == (i - 1) \div 4
           IN RefInvTable[m[row + 4 * ((col - row) % 4) + 1]]]

(* SBOX is the table FIPS 197 defines: the inverse in GF(2^8), as _gmul    *)
(* multiplies, and an affine map.  And the inverse round of FIPS 197       *)
(* undoes every round of encrypt_block, for both key lengths, the last     *)
(* round, which mixes no columns, included: the cipher is a permutation of *)
(* the blocks.                                                             *)
AesIsStandard ==
    /\ call.op = "sbox" =>
          LET v == RefInverse(call.byte)
          IN \A i \in 0 .. 7 :
                RefBit(result, i) = (RefBit(v, i) + RefBit(v, i + 4) + RefBit(v, i + 5)
                                     + RefBit(v, i + 6) + RefBit(v, i + 7) + RefBit(99, i)) % 2
    /\ call.op = "encrypt_block" /\ call.round > 0 =>
          RefInvRound(result, call.round, call.keys) = call.before

-----------------------------------------------------------------------------
(* A block as the set of the exponents of its polynomial, and the product  *)
(* modulo the polynomial that R stands for.                                *)
RefWidth == BITS * BLOCK
RefPoly(x) == {i \in 0 .. RefWidth - 1 : (x \div 2 ^ (RefWidth - 1 - i)) % 2 = 1}
RefSymmetric(S, T) == (S \ T) \cup (T \ S)
RefProduct(S, T) ==
    LET all == {n \in 0 .. 2 * RefWidth : Cardinality({i \in S : n - i \in T}) % 2 = 1}
        Reduce(U, n) == IF n \in U THEN RefSymmetric(U, {n} \cup {n - RefWidth + i : i \in RefPoly(R)}) ELSE U
    IN FoldLeft(Reduce, all, [i \in 1 .. RefWidth + 1 |-> 2 * RefWidth + 1 - i])

(* _gf128_mul is the product of polynomials; decrypt returns what was      *)
(* encrypted; no block of the key stream is used twice or as the mask of   *)
(* the tag, up to the longest plaintext, where the counter would wrap; and *)
(* the input of GHASH determines the additional data and the ciphertext,   *)
(* so that nothing can be moved across the border between the two.         *)
GcmSound ==
    /\ call.op = "gf_mul" => RefPoly(result) = RefProduct(RefPoly(call.x), RefPoly(call.y))
    /\ call.op = "encrypt" /\ result # <<>> =>
          LET c == result[1]
              counters == [i \in 1 .. Blocks(c) |-> Counter(inc32(J0(NonceGcm)), i)]
          IN /\ decrypt(KeyGcm, NonceGcm, c, result[2], call.aad) = <<call.text>>
             /\ Cardinality(ToSet(counters) \cup {J0(NonceGcm)}) = Blocks(c) + 1
             /\ \A aad, d \in Texts :
                    ghash_input(aad, d) = ghash_input(call.aad, call.text) => aad = call.aad /\ d = call.text
=============================================================================
