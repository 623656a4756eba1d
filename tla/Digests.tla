------------------------------- MODULE Digests -------------------------------
(***************************************************************************)
(* The hand-written SHA-1 and base64 of the WebSocket handshake and the    *)
(* SHA-256 of the commit ids.  A message is a sequence of bytes; a word is *)
(* the set of the positions of its 1 bits, so that & and | are \cap and    *)
(* \cup, and a rotation moves every position.  What is printed of a digest *)
(* (hexadecimal, the letters of base64) is left out: a letter is the six   *)
(* bits it stands for.                                                     *)
(***************************************************************************)
EXTENDS Integers, Sequences

Width == 32
Bit == 0 .. Width - 1

\* for (k = 1; k <= n; ++k) state = Step(k, state).  (The comparison has TLC
\* evaluate a state before the next one.)
Repeated(Step(_, _), start, n) ==
    LET after[k \in 0 .. n] ==
            LET state == after[k - 1]
            IN  IF k = 0 THEN start ELSE IF state = state THEN Step(k, state) ELSE start
    IN  after[n]

\* n >> k, and the bits of n.
Halved(n, k) == Repeated(LAMBDA i, rest : rest \div 2, n, k)
BitOf(n, b) == Halved(n, b) % 2 = 1
Bits(n, width) == {b \in 0 .. width - 1 : BitOf(n, b)}

\* The word with the given halves, and the word of four bytes.
W(high, low) == Bits(low, 16) \cup {b + 16 : b \in Bits(high, 16)}
WordOf(bytes) == {b \in Bit : BitOf(bytes[4 - (b \div 8)], b % 8)}

Xor2(x, y) == (x \ y) \cup (y \ x)
Xor3(x, y, z) == Xor2(x, Xor2(y, z))
Inverted(x) == Bit \ x
Rotl(x, n) == {(b + n) % Width : b \in x}
Rotr(x, n) == Rotl(x, Width - n)
Shr(x, n)  == {b - n : b \in {c \in x : c >= n}}

\* Addition modulo 2^32.  A carry reaches a bit from a place at which both have
\* a 1 if no place between has two 0s.
Carry(x, y, b) == \E j \in x \cap y : j < b /\ \A i \in j + 1 .. b - 1 : i \in x \cup y
Add(x, y) == Xor3(x, y, {b \in Bit : Carry(x, y, b)})
x ++ y == Add(x, y)

AddEach(h, s) == [i \in DOMAIN h |-> h[i] ++ s[i]]

-----------------------------------------------------------------------------
(* Padding, the same for both hashes.                                      *)

\* The zero is appended before the length is looked at.
PaddedByOneOrMore(data, remainder) ==
    LET zeros == CHOOSE k \in 1 .. 64 : (Len(data) + k) % 64 = remainder
    IN  data \o [i \in 1 .. zeros |-> 0]

PaddedTo(data, remainder) ==
    LET zeros == CHOOSE k \in 0 .. 63 : (Len(data) + k) % 64 = remainder
    IN  data \o [i \in 1 .. zeros |-> 0]

WithLength(data, bits) == data \o [i \in 1 .. 8 |-> Halved(bits, 8 * (8 - i)) % 256]

Padded(message) == WithLength(PaddedTo(Append(message, 128), 56), 8 * Len(message))

\* The 16 words of the block that begins after `at' bytes.
BlockAt(data, at) == [i \in 1 .. 16 |-> WordOf([k \in 1 .. 4 |-> data[at + 4 * (i - 1) + k]])]

Blocks(message) ==
    LET data == Padded(message)
    IN  [n \in 1 .. Len(data) \div 64 |-> BlockAt(data, 64 * (n - 1))]

-----------------------------------------------------------------------------
(* sha1                                                                    *)

Sha1Initial == <<
    W(\h6745,\h2301), W(\hEFCD,\hAB89), W(\h98BA,\hDCFE), W(\h1032,\h5476),
    W(\hC3D2,\hE1F0)>>

Sha1Word(w, i) == Rotl(Xor2(Xor2(w[i - 3], w[i - 8]), Xor2(w[i - 14], w[i - 16])), 1)
Sha1Schedule(block) == Repeated(LAMBDA k, w : Append(w, Sha1Word(w, 16 + k)), block, 64)

Sha1F(i, b, c, d) ==
    IF i < 20 THEN (b \cap c) \cup (Inverted(b) \cap d)
    ELSE IF i >= 40 /\ i < 60 THEN (b \cap c) \cup (b \cap d) \cup (c \cap d)
    ELSE Xor3(b, c, d)

Sha1K(i) ==
    <<W(\h5A82,\h7999), W(\h6ED9,\hEBA1), W(\h8F1B,\hBCDC), W(\hCA62,\hC1D6)>>[1 + (i \div 20)]

Sha1Round(s, w, i) ==
    <<Rotl(s[1], 5) ++ Sha1F(i, s[2], s[3], s[4]) ++ s[5] ++ Sha1K(i) ++ w[i + 1],
      s[1], Rotl(s[2], 30), s[3], s[4]>>

Sha1Rounds(h, w) == Repeated(LAMBDA k, s : Sha1Round(s, w, k - 1), h, 80)

Sha1Chunk(h, block) == AddEach(h, Sha1Rounds(h, Sha1Schedule(block)))

Sha1(message) ==
    LET blocks == Blocks(message)
    IN  Repeated(LAMBDA n, h : Sha1Chunk(h, blocks[n]), Sha1Initial, Len(blocks))

-----------------------------------------------------------------------------
(* sha256_hex                                                              *)

Sha256Initial == <<
    W(\h6a09,\he667), W(\hbb67,\hae85), W(\h3c6e,\hf372), W(\ha54f,\hf53a),
    W(\h510e,\h527f), W(\h9b05,\h688c), W(\h1f83,\hd9ab), W(\h5be0,\hcd19)>>

Sha256K == <<
    W(\h428a,\h2f98), W(\h7137,\h4491), W(\hb5c0,\hfbcf), W(\he9b5,\hdba5),
    W(\h3956,\hc25b), W(\h59f1,\h11f1), W(\h923f,\h82a4), W(\hab1c,\h5ed5),
    W(\hd807,\haa98), W(\h1283,\h5b01), W(\h2431,\h85be), W(\h550c,\h7dc3),
    W(\h72be,\h5d74), W(\h80de,\hb1fe), W(\h9bdc,\h06a7), W(\hc19b,\hf174),
    W(\he49b,\h69c1), W(\hefbe,\h4786), W(\h0fc1,\h9dc6), W(\h240c,\ha1cc),
    W(\h2de9,\h2c6f), W(\h4a74,\h84aa), W(\h5cb0,\ha9dc), W(\h76f9,\h88da),
    W(\h983e,\h5152), W(\ha831,\hc66d), W(\hb003,\h27c8), W(\hbf59,\h7fc7),
    W(\hc6e0,\h0bf3), W(\hd5a7,\h9147), W(\h06ca,\h6351), W(\h1429,\h2967),
    W(\h27b7,\h0a85), W(\h2e1b,\h2138), W(\h4d2c,\h6dfc), W(\h5338,\h0d13),
    W(\h650a,\h7354), W(\h766a,\h0abb), W(\h81c2,\hc92e), W(\h9272,\h2c85),
    W(\ha2bf,\he8a1), W(\ha81a,\h664b), W(\hc24b,\h8b70), W(\hc76c,\h51a3),
    W(\hd192,\he819), W(\hd699,\h0624), W(\hf40e,\h3585), W(\h106a,\ha070),
    W(\h19a4,\hc116), W(\h1e37,\h6c08), W(\h2748,\h774c), W(\h34b0,\hbcb5),
    W(\h391c,\h0cb3), W(\h4ed8,\haa4a), W(\h5b9c,\hca4f), W(\h682e,\h6ff3),
    W(\h748f,\h82ee), W(\h78a5,\h636f), W(\h84c8,\h7814), W(\h8cc7,\h0208),
    W(\h90be,\hfffa), W(\ha450,\h6ceb), W(\hbef9,\ha3f7), W(\hc671,\h78f2)>>

Sha256Word(w, i) ==
    LET s0 == Xor3(Rotr(w[i - 15], 7), Rotr(w[i - 15], 18), Shr(w[i - 15], 3))
        s1 == Xor3(Rotr(w[i - 2], 17), Rotr(w[i - 2], 19), Shr(w[i - 2], 10))
    IN  w[i - 16] ++ s0 ++ w[i - 7] ++ s1
Sha256Schedule(block) == Repeated(LAMBDA k, w : Append(w, Sha256Word(w, 16 + k)), block, 48)

\* s is a, b, c, d, e, f, g, hh.
Sha256Round(s, w, i) ==
    LET s1 == Xor3(Rotr(s[5], 6), Rotr(s[5], 11), Rotr(s[5], 25))
        ch == Xor2(s[5] \cap s[6], Inverted(s[5]) \cap s[7])
        temp1 == s[8] ++ s1 ++ ch ++ Sha256K[i] ++ w[i]
        s0 == Xor3(Rotr(s[1], 2), Rotr(s[1], 13), Rotr(s[1], 22))
        maj == Xor3(s[1] \cap s[2], s[1] \cap s[3], s[2] \cap s[3])
    IN  <<temp1 ++ (s0 ++ maj), s[1], s[2], s[3], s[4] ++ temp1, s[5], s[6], s[7]>>

Sha256Rounds(h, w) == Repeated(LAMBDA k, s : Sha256Round(s, w, k), h, 64)

Sha256Chunk(h, block) == AddEach(h, Sha256Rounds(h, Sha256Schedule(block)))

Sha256(message) ==
    LET blocks == Blocks(message)
    IN  Repeated(LAMBDA n, h : Sha256Chunk(h, blocks[n]), Sha256Initial, Len(blocks))

-----------------------------------------------------------------------------
(* base64_encode                                                           *)

Pad == 64
Sextet(n, k) == (n \div <<1, 64, 4096, 262144>>[k + 1]) % 64

Triple(data, g) == 65536 * data[3 * g + 1] + 256 * data[3 * g + 2] + data[3 * g + 3]

\* What is left when the groups of three are done: nothing, one byte or two.
Rest(data) ==
    LET n == 65536 * data[1] + (IF Len(data) = 2 THEN 256 * data[2] ELSE 0)
    IN  IF data = <<>> THEN <<>>
        ELSE <<Sextet(n, 3), Sextet(n, 2), IF Len(data) = 2 THEN Sextet(n, 1) ELSE Pad, Pad>>

Base64(data) ==
    LET groups == Len(data) \div 3
    IN  [i \in 1 .. 4 * groups |-> Sextet(Triple(data, (i - 1) \div 4), 3 - ((i - 1) % 4))]
            \o Rest(SubSeq(data, 3 * groups + 1, Len(data)))

\* The digest as bytes, highest first, and the answer to a handshake.
ByteOf(word, k) ==
    Repeated(LAMBDA i, n : 2 * n + (IF 8 * (5 - k) - i \in word THEN 1 ELSE 0), 0, 8)

BytesOf(words) ==
    [i \in 1 .. 4 * Len(words) |-> ByteOf(words[1 + ((i - 1) \div 4)], 1 + ((i - 1) % 4))]

AcceptKey(keyAndGuid) == Base64(BytesOf(Sha1(keyAndGuid)))

=============================================================================
