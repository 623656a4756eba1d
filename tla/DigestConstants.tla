--------------------------- MODULE DigestConstants ---------------------------
(***************************************************************************)
(* The constants of both hashes, as the roots whose first bits they are    *)
(* (RFC 3174, 5; FIPS 180-4, 4.2.2 and 5.3.3).                             *)
(***************************************************************************)
EXTENDS Digests, FiniteSetsExt

\* Natural numbers of any size, as the sets of their 1 bits.
RECURSIVE Sum2(_, _)
Sum2(x, y) == IF y = {} THEN x ELSE Sum2(Xor2(x, y), {b + 1 : b \in x \cap y})

Product(x, y) == FoldSet(LAMBDA b, sum : Sum2(sum, {b + c : c \in y}), {}, x)

RECURSIVE Power(_, _)
Power(x, n) == IF n = 1 THEN x ELSE Product(x, Power(x, n - 1))

Below(x, y) == x # y /\ Max(Xor2(x, y)) \in y

\* r is the n-th root of p, scaled by 2^scale and rounded down.
IsRoot(r, n, p, scale) ==
    LET scaled == {b + n * scale : b \in Bits(p, 16)}
    IN  /\ ~Below(scaled, Power(r, n))
        /\ Below(scaled, Power(Sum2(r, {0}), n))

\* word is the first 32 bits after the point of that root.
IsFraction(word, n, p) ==
    \E whole \in 0 .. 18 : IsRoot(word \cup {b + 32 : b \in Bits(whole, 16)}, n, p, 32)

Primes == {p \in 2 .. 311 : \A d \in 2 .. 17 : d < p => p % d # 0}
Prime(i) == CHOOSE p \in Primes : Cardinality({q \in Primes : q < p}) = i - 1

Constants ==
    /\ \A i \in 1 .. 64 : IsFraction(Sha256K[i], 3, Prime(i))
    /\ \A i \in 1 .. 8 : IsFraction(Sha256Initial[i], 2, Prime(i))
    /\ \A i \in 1 .. 4 : IsRoot(Sha1K(20 * (i - 1)), 2, <<2, 3, 5, 10>>[i], 30)

=============================================================================
