---------------------------- MODULE MCAlgorithms ----------------------------
(* The inputs the algorithms are called on.                                *)
EXTENDS Algorithms

MCName == BoundedSeq({"a", "b", "e"}, 2)
MCOwner == BoundedSeq({"a", "e"}, 2)

MCRecords ==
    [document |-> [doc_id : {<<0>>, <<3>>, <<0, 1>>}, owner : MCOwner, version : {0, 3, 4}, created_ms : {1, 15, 16},
                   nonce : {<<1>>}, ciphertext : {<<>>, <<0>>, <<1, 2>>}, tag : {<<2>>}],
     payload  |-> [filename : MCOwner, mime : {<<>>, <<"b", "b">>},
                   content : {[i \in 1 .. n |-> i % 4] : n \in 0 .. 5}, content_sig : {<<1>>}],
     share    |-> [doc_id : {<<3>>}, version : {0, 4}, doc_hash : {<<1>>}, sender : MCOwner,
                   recipient : {<<>>, <<"b">>}, issued_ms : {2}, eph_pub : {<<2>>}, nonce : {<<3>>},
                   wrapped_fk : {<<1>>}, tag : {<<0>>}, share_sig : {<<2>>}]]

(* What is packed, with one byte changed, cut off anywhere, or extended.   *)
Damaged(b) ==
    {ReplaceAt(b, i, x) : i \in DOMAIN b, x \in Byte}
        \cup {SubSeq(b, 1, n) : n \in 0 .. Len(b)} \cup {Append(b, x) : x \in Byte}
Parts(t, d) == [i \in DOMAIN Layout[t] |-> pack_field(Layout[t][i].kind, d[Layout[t][i].name])]
Packed(t) ==
    {Magic[t] \o FlattenSeq(p) : p \in {q \in {Parts(t, d) : d \in MCRecords[t]} : Refused \notin ToSet(q)}}

MCBlobs ==
    [document |-> UNION {Damaged(b) : b \in {p \in Packed("document") : p[2] = 3}},
     payload  |-> BoundedSeq(Byte, 6),
     share    |-> UNION {Damaged(b) : b \in Packed("share")}]

MCString == {<<"d">>, <<":">>, <<"d", ":">>, <<":", "d">>, <<"d", ":", "d">>, <<"d", "d">>}
MCDocId == {<<"d">>, <<"f">>, <<"d", "d">>}
MCSignedRequest ==
    [type : {"share"}, user : MCString, doc_id : MCDocId, recipient : MCString, nonce : MCString]
    \cup [type : {"download"}, user : MCString, doc_id : MCDocId, nonce : MCString]
    \cup [type : {"upload", "change_password"}, user : MCString, nonce : MCString]

MCHashes == {0, 1, 7, 16, 17, 30}

Ramp(n, step) == [i \in 1 .. n |-> (i * step) % 256]
MCAesInputs == {<<Ramp(n, k), Ramp(16, b)>> : n \in {16, 32}, k \in {0, 1, 37}, b \in {0, 17, 91}}

MCFactors == {0, 1, 2, 5, 1023, 2048, 2741, 4095}

(* A permutation of the blocks for every key stands in for AES.            *)
StandInCipher(key, b) == bytes_of((int_of(b) * 1365 + 2 * key + 77) % 4096, 6)
MCNonceGcm == <<1, 2, 3, 0, 1>>
MCTexts == {[i \in 1 .. n |-> (i * k) % 4] : n \in {0, 1, 5, 6, 7, 12, 13, 19}, k \in {0, 3}}

MCPieces == BoundedSeq({"00", "80"}, 2) \cup {<<"80", "00", "80", "80", "00", "80", "00", "00", "80">>}
MCKeys256 == BoundedSeq({"00", "80"}, 5)
=============================================================================
