-------------------------------- MODULE Aes --------------------------------
(***************************************************************************)
(* crypto/aes.py.  Nothing is scaled: bytes are numbers below 256, blocks  *)
(* have 16 of them and keys 16 or 32.  Sequences count from 1 where the    *)
(* lists of the code count from 0.                                         *)
(***************************************************************************)
EXTENDS Integers, Bitwise, SequencesExt

Table == <<
     99, 124, 119, 123, 242, 107, 111, 197,  48,   1, 103,  43, 254, 215, 171, 118,
    202, 130, 201, 125, 250,  89,  71, 240, 173, 212, 162, 175, 156, 164, 114, 192,
    183, 253, 147,  38,  54,  63, 247, 204,  52, 165, 229, 241, 113, 216,  49,  21,
      4, 199,  35, 195,  24, 150,   5, 154,   7,  18, 128, 226, 235,  39, 178, 117,
      9, 131,  44,  26,  27, 110,  90, 160,  82,  59, 214, 179,  41, 227,  47, 132,
     83, 209,   0, 237,  32, 252, 177,  91, 106, 203, 190,  57,  74,  76,  88, 207,
    208, 239, 170, 251,  67,  77,  51, 133,  69, 249,   2, 127,  80,  60, 159, 168,
     81, 163,  64, 143, 146, 157,  56, 245, 188, 182, 218,  33,  16, 255, 243, 210,
    205,  12,  19, 236,  95, 151,  68,  23, 196, 167, 126,  61, 100,  93,  25, 115,
     96, 129,  79, 220,  34,  42, 144, 136,  70, 238, 184,  20, 222,  94,  11, 219,
    224,  50,  58,  10,  73,   6,  36,  92, 194, 211, 172,  98, 145, 149, 228, 121,
    231, 200,  55, 109, 141, 213,  78, 169, 108,  86, 244, 234, 101, 122, 174,   8,
    186, 120,  37,  46,  28, 166, 180, 198, 232, 221, 116,  31,  75, 189, 139, 138,
    112,  62, 181, 102,  72,   3, 246,  14,  97,  53,  87, 185, 134, 193,  29, 158,
    225, 248, 152,  17, 105, 217, 142, 148, 155,  30, 135, 233, 206,  85,  40, 223,
    140, 161, 137,  13, 191, 230,  66, 104,  65, 153,  45,  15, 176,  84, 187,  22 >>
SBOX(b) == Table[b + 1]
RCON == <<1, 2, 4, 8, 16, 32, 64, 128, 27, 54>>

Xor4(a, b, c, d) == (a ^^ b) ^^ (c ^^ d)
(* SubSeq changes nothing, but TLC evaluates its argument only once.       *)
XorSeq(s, t) == SubSeq([i \in DOMAIN s |-> s[i] ^^ t[i]], 1, Len(s))

xtime(b) == IF b >= 128 THEN ((2 * b) % 256) ^^ 27 ELSE 2 * b

(* _gmul: for every bit of b from the lowest, add a and double it.         *)
gmul(a, b) ==
    FoldLeft(LAMBDA acc, i : <<IF (b \div 2 ^ i) % 2 = 1 THEN acc[1] ^^ acc[2] ELSE acc[1], xtime(acc[2])>>,
             <<0, a>>, [i \in 1 .. 8 |-> i - 1])[1]

-----------------------------------------------------------------------------
sub_word(w) == [i \in DOMAIN w |-> SBOX(w[i])]
rot_word(w) == Tail(w) \o <<Head(w)>>

(* Word number i (from 0) of the key schedule, from the words before it.   *)
NextWord(words, nk) ==
    LET i == Len(words)
        temp == Last(words)
        new == IF i % nk = 0
               THEN LET t == sub_word(rot_word(temp)) IN <<Head(t) ^^ RCON[i \div nk]>> \o Tail(t)
               ELSE IF nk > 6 /\ i % nk = 4 THEN sub_word(temp) ELSE temp
    IN Append(words, XorSeq(words[i - nk + 1], new))

RECURSIVE Expand(_, _, _)
Expand(words, nk, total) == IF Len(words) = total THEN words ELSE Expand(NextWord(words, nk), nk, total)

(* _key_expansion: the round keys for a key of nk words.                   *)
key_expansion(key) ==
    LET nk == Len(key) \div 4
        nr == nk + 6
        given == [i \in 1 .. nk |-> SubSeq(key, 4 * i - 3, 4 * i)]
        words == Expand(given, nk, 4 * (nr + 1))
    IN [r \in 1 .. nr + 1 |-> FlattenSeq(SubSeq(words, 4 * r - 3, 4 * r))]

-----------------------------------------------------------------------------
sub_bytes(s) == [i \in 1 .. 16 |-> SBOX(s[i])]

(* Faulty variants, named after the bug, stand before the definition they  *)
(* are variants of; nothing else uses them.                                *)
shift_rows_to_the_right(s) ==
    << s[1], s[14], s[11], s[8],  s[5], s[2], s[15], s[12],
       s[9], s[6], s[3], s[16],   s[13], s[10], s[7], s[4] >>

shift_rows(s) ==
    << s[1], s[6], s[11], s[16],  s[5], s[10], s[15], s[4],
       s[9], s[14], s[3], s[8],   s[13], s[2], s[7], s[12] >>

mix_columns(s) ==
    FlattenSeq([c \in 1 .. 4 |->
        LET x == SubSeq(s, 4 * c - 3, 4 * c)
        IN << Xor4(gmul(x[1], 2), gmul(x[2], 3), x[3], x[4]),
              Xor4(x[1], gmul(x[2], 2), gmul(x[3], 3), x[4]),
              Xor4(x[1], x[2], gmul(x[3], 2), gmul(x[4], 3)),
              Xor4(gmul(x[1], 3), x[2], x[3], gmul(x[4], 2)) >>])

add_round_key(s, k) == XorSeq(s, k)

(* The r-th of the rounds of encrypt_block, from 1; the last one does not  *)
(* mix the columns.                                                        *)
round(s, r, keys) ==
    LET t == shift_rows(sub_bytes(s))
    IN add_round_key(IF r + 1 = Len(keys) THEN t ELSE mix_columns(t), keys[r + 1])
=============================================================================
