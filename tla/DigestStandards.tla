--------------------------- MODULE DigestStandards ---------------------------
(***************************************************************************)
(* What the functions of Digests are to compute, written from the          *)
(* standards the code names and in another form than the code: SHA-1 by    *)
(* the circular buffer of RFC 3174's method 2, the padded message bit by   *)
(* bit, base64 by its inverse.                                             *)
(***************************************************************************)
EXTENDS Digests

\* The number a word stands for.
Value(word) == Repeated(LAMBDA k, n : 2 * n + (IF 32 - k \in word THEN 1 ELSE 0), 0, 32)

(* Both hashes: the message, a 1 bit, the fewest 0 bits, the length.       *)

\* Bit j of the padded message, counted from 0; a byte's first bit is its highest.
PaddedLength(n) == 64 * ((n + 72) \div 64)
MessageBit(m, j) ==
    LET n == Len(m)
        ending == 8 * PaddedLength(n) - 1 - j
    IN  IF j < 8 * n THEN BitOf(m[1 + (j \div 8)], 7 - (j % 8))
        ELSE j = 8 * n \/ (ending < 64 /\ BitOf(8 * n, ending))

MessageWord(m, t) == {b \in Bit : MessageBit(m, 32 * t + 31 - b)}

\* How many of three words have a 1 at b.
Ones(b, x, y, z) ==
    (IF b \in x THEN 1 ELSE 0) + (IF b \in y THEN 1 ELSE 0) + (IF b \in z THEN 1 ELSE 0)
Choose(x, y, z) == {b \in Bit : IF b \in x THEN b \in y ELSE b \in z}
Majority(x, y, z) == {b \in Bit : Ones(b, x, y, z) >= 2}
Parity(x, y, z) == {b \in Bit : Ones(b, x, y, z) % 2 = 1}

\* RFC 3174, 6.2: 16 words are kept, and the one of round t is rewritten in place.
Rewritten(words, t) ==
    LET at(k) == words[(t + k) % 16]
    IN  IF t < 16 THEN words
        ELSE [words EXCEPT ![t % 16] = {(b + 1) % 32 : b \in Parity(Xor2(at(13), at(8)), at(2), at(0))}]

Rfc3174Round(run, t) ==
    LET s == run.s
        words == Rewritten(run.words, t)
        f == CASE t \div 20 = 0 -> Choose(s[2], s[3], s[4])
               [] t \div 20 = 2 -> Majority(s[2], s[3], s[4])
               [] OTHER -> Parity(s[2], s[3], s[4])
        temp == (Rotl(s[1], 5) ++ f) ++ (s[5] ++ (words[t % 16] ++ Sha1K(t)))
    IN  [s |-> <<temp, s[1], Rotl(s[2], 30), s[3], s[4]>>, words |-> words]

Rfc3174Rounds(h, words) ==
    Repeated(LAMBDA k, run : Rfc3174Round(run, k - 1), [s |-> h, words |-> words], 80)

Rfc3174(h, words) ==
    LET run == Rfc3174Rounds(h, words)
    IN  [i \in 1 .. 5 |-> h[i] ++ run.s[i]]

\* FIPS 180-4, 6.2.2: the words W[0] to W[63], and the 64 rounds.
Moved(x, m, n, k) == Parity(Rotr(x, m), Rotr(x, n), k)

Fips180Word(w) ==
    LET back(k) == w[Len(w) + 1 - k]
        s0 == Moved(back(15), 7, 18, Shr(back(15), 3))
        s1 == Moved(back(2), 17, 19, Shr(back(2), 10))
    IN  (s1 ++ back(7)) ++ (s0 ++ back(16))
Fips180Words(block) == Repeated(LAMBDA k, w : Append(w, Fips180Word(w)), block, 48)

Fips180Round(s, w, t) ==
    LET one == ((s[8] ++ Moved(s[5], 6, 11, Rotr(s[5], 25)))
                  ++ (Choose(s[5], s[6], s[7]) ++ Sha256K[t])) ++ w[t]
        two == Moved(s[1], 2, 13, Rotr(s[1], 22)) ++ Majority(s[1], s[2], s[3])
    IN  <<one ++ two, s[1], s[2], s[3], s[4] ++ one, s[5], s[6], s[7]>>

Fips180Rounds(h, w) == Repeated(LAMBDA t, s : Fips180Round(s, w, t), h, 64)

Fips180(h, block) ==
    LET s == Fips180Rounds(h, Fips180Words(block))
    IN  [i \in 1 .. 8 |-> h[i] ++ s[i]]

\* Block by block.
Sha1Digest(m) ==
    LET kept(n) == [i \in 0 .. 15 |-> MessageWord(m, 16 * (n - 1) + i)]
    IN  Repeated(LAMBDA n, h : Rfc3174(h, kept(n)), Sha1Initial, PaddedLength(Len(m)) \div 64)

Sha256Digest(m) ==
    LET words(n) == [i \in 1 .. 16 |-> MessageWord(m, 16 * (n - 1) + i - 1)]
    IN  Repeated(LAMBDA n, h : Fips180(h, words(n)), Sha256Initial, PaddedLength(Len(m)) \div 64)

-----------------------------------------------------------------------------
(* RFC 4648: every letter is six bits, = fills the last group of four.     *)

\* Four letters are 24 bits, or three bytes; a padding is taken for no bits.
Letter(letters, i) == IF letters[i] = Pad THEN 0 ELSE letters[i]
Quantum(letters, g) ==
    LET letter(k) == Letter(letters, 4 * g + k)
    IN  64 * (64 * (64 * letter(1) + letter(2)) + letter(3)) + letter(4)

Paddings(letters) ==
    LET n == Len(letters)
    IN  IF n = 0 \/ letters[n] # Pad THEN 0 ELSE IF letters[n - 1] # Pad THEN 1 ELSE 2

Base64Decoded(letters) ==
    [i \in 1 .. 3 * (Len(letters) \div 4) - Paddings(letters) |->
        (Quantum(letters, (i - 1) \div 3) \div <<65536, 256, 1>>[1 + ((i - 1) % 3)]) % 256]

\* Nothing is lost: the letters come in groups of four, filled up at the end
\* only, and decode to the bytes, whatever their number leaves divided by three.
Base64Decodes(message) ==
    LET letters == Base64(message)
    IN  /\ Len(letters) = 4 * ((Len(message) + 2) \div 3)
        /\ \A i \in 1 .. Len(letters) - 2 : letters[i] # Pad
        /\ Base64Decoded(letters) = message

-----------------------------------------------------------------------------

\* Message by message.  The answer to a handshake is the digest, byte by byte.
AsSpecified(message) ==
    LET digest == Sha1Digest(message)
        answer == Base64Decoded(AcceptKey(message))
    IN  /\ Sha1(message) = digest
        /\ Sha256(message) = Sha256Digest(message)
        /\ Base64Decodes(message)
        /\ Len(answer) = 20
        /\ \A t \in 1 .. 5 : WordOf(SubSeq(answer, 4 * t - 3, 4 * t)) = digest[t]

=============================================================================
