-------------------------------- MODULE Gcm --------------------------------
(***************************************************************************)
(* crypto/gcm.py over a block cipher E, with the sizes scaled down: a byte *)
(* has BITS bits, a block BLOCK bytes, its last byte is the counter, and R *)
(* reduces modulo the polynomial of the field of blocks.  _MAX_PT_LEN is   *)
(* what the counter allows: all its values but the first two, in bytes.    *)
(***************************************************************************)
EXTENDS Integers, Bitwise, SequencesExt

CONSTANTS BITS, BLOCK, R, E(_, _)

BYTES == 2 ^ BITS
MAX_PT_LEN == (BYTES - 2) * BLOCK

int_of(b) == FoldLeft(LAMBDA n, x : n * BYTES + x, 0, b)
bytes_of(x, w) == [i \in 1 .. w |-> (x \div BYTES ^ (w - i)) % BYTES]
Zeros(n) == [i \in 1 .. n |-> 0]

(* Faulty variants, named after the bug, stand before the definition they  *)
(* are variants of; nothing else uses them.                                *)
gf_mul_from_the_lowest_bit(x, y) ==
    FoldLeft(LAMBDA acc, i :
                << IF (x \div 2 ^ (i - 1)) % 2 = 1 THEN acc[1] ^^ acc[2] ELSE acc[1],
                   IF acc[2] % 2 = 1 THEN (acc[2] \div 2) ^^ R ELSE acc[2] \div 2 >>,
             <<0, y>>, [i \in 1 .. BITS * BLOCK |-> i])[1]

(* _gf128_mul: for every bit of x from the highest.                        *)
gf_mul(x, y) ==
    FoldLeft(LAMBDA acc, i :
                << IF (x \div 2 ^ (BITS * BLOCK - i)) % 2 = 1 THEN acc[1] ^^ acc[2] ELSE acc[1],
                   IF acc[2] % 2 = 1 THEN (acc[2] \div 2) ^^ R ELSE acc[2] \div 2 >>,
             <<0, y>>, [i \in 1 .. BITS * BLOCK |-> i])[1]

(* The i-th block of data; the last one may be shorter.                    *)
Blocks(data) == (Len(data) + BLOCK - 1) \div BLOCK
Chunk(data, i) == SubSeq(data, (i - 1) * BLOCK + 1, IF i * BLOCK < Len(data) THEN i * BLOCK ELSE Len(data))

ghash(h, data) ==
    LET Step(y, i) == gf_mul(y ^^ int_of(Chunk(data, i)), int_of(h))
    IN bytes_of(FoldLeft(Step, 0, [i \in 1 .. Blocks(data) |-> i]), BLOCK)

inc32(b) == Front(b) \o <<(Last(b) + 1) % BYTES>>

Counter(icb, i) == FoldLeft(LAMBDA c, j : inc32(c), icb, [j \in 1 .. i - 1 |-> j])

gctr(key, icb, data) ==
    FlattenSeq([i \in 1 .. Blocks(data) |->
        LET keystream == E(key, Counter(icb, i))
        IN [j \in DOMAIN Chunk(data, i) |-> Chunk(data, i)[j] ^^ keystream[j]]])

zero_pad(n) == Zeros((BLOCK - (n % BLOCK)) % BLOCK)

ghash_input(aad, c) ==
    aad \o zero_pad(Len(aad)) \o c \o zero_pad(Len(c))
        \o bytes_of(Len(aad) * BITS, BLOCK \div 2) \o bytes_of(Len(c) * BITS, BLOCK \div 2)

J0(nonce) == nonce \o <<1>>

Tag(key, nonce, c, aad) ==
    LET s == ghash(E(key, Zeros(BLOCK)), ghash_input(aad, c))
        mask == E(key, J0(nonce))
    IN [i \in 1 .. BLOCK |-> s[i] ^^ mask[i]]

(* <<>> is a ValueError; None is written <<>> as well.                     *)
encrypt(key, nonce, p, aad) ==
    LET c == gctr(key, inc32(J0(nonce)), p)
    IN IF Len(p) > MAX_PT_LEN \/ Len(nonce) # BLOCK - 1 THEN <<>>
       ELSE <<c, Tag(key, nonce, c, aad)>>

decrypt(key, nonce, c, tag, aad) ==
    IF Len(nonce) # BLOCK - 1 \/ Len(tag) # BLOCK \/ tag # Tag(key, nonce, c, aad) THEN <<>>
    ELSE <<gctr(key, inc32(J0(nonce)), c)>>
=============================================================================
