---------------------------- MODULE DigestProofs ----------------------------
(***************************************************************************)
(* The digests and base64 of Digests are those of DigestStandards, for     *)
(* every message; words are added modulo 2^32; a handshake is answered     *)
(* with them.  First what recursive functions and loops compute: states    *)
(* are followed in a function of the number of steps taken.                *)
(***************************************************************************)
EXTENDS Handshake, SequenceTheorems, WellFoundedInduction, TLAPS

(* Recursive functions.                                                  *)

LEMMA LessIsWellFounded == IsWellFoundedOn({p \in Nat \X Nat : p[1] < p[2]}, Nat)
BY NatLessThanWellFounded DEF OpToRel

(* A set of numbers that has 0 and every successor has them all.         *)
LEMMA SetInduction ==
    ASSUME NEW T \in SUBSET Nat, 0 \in T, \A n \in T : n + 1 \in T
    PROVE  T = Nat
<1> SUFFICES ASSUME Nat \ T # {} PROVE FALSE
  OBVIOUS
<1>1. PICK x \in Nat \ T :
         \A y \in Nat \ T : ~ (<<y, x>> \in {p \in Nat \X Nat : p[1] < p[2]})
  BY LessIsWellFounded, WFMin
<1>2. x # 0 /\ x - 1 \in Nat /\ x - 1 < x
  BY <1>1
<1>3. x - 1 \notin T
  BY <1>2
<1> QED
  BY <1>1, <1>2, <1>3

(* f computes by recursion: at each place of R from the value at an      *)
(* earlier place p, and a elsewhere.                                     *)
Computes(f, n, a, R, p, g) ==
    \A i \in 0 .. n : f[i] = IF i \in R THEN g[<<i, f[p[i]]>>] ELSE a

(* Such a function exists.                                               *)
LEMMA Recursion ==
    ASSUME NEW N \in Nat, NEW S, NEW a \in S, NEW R \in SUBSET (1 .. N),
           NEW p \in [R -> Nat], \A i \in R : p[i] < i, NEW g \in [R \X S -> S]
    PROVE  \E f \in [0 .. N -> S] : Computes(f, N, a, R, p, g)
<1> DEFINE T == {n \in Nat : n <= N => \E f \in [0 .. n -> S] : Computes(f, n, a, R, p, g)}
<1>1. 0 \in T
  <2>1. 0 \notin R /\ 0 .. 0 = {0}
    OBVIOUS
  <2>2. [i \in 0 .. 0 |-> a] \in [0 .. 0 -> S]
    OBVIOUS
  <2>3. Computes([i \in 0 .. 0 |-> a], 0, a, R, p, g)
    BY <2>1 DEF Computes
  <2> QED
    BY <2>2, <2>3
<1>2. ASSUME NEW n \in T PROVE n + 1 \in T
  <2> SUFFICES ASSUME n + 1 <= N
               PROVE  \E f \in [0 .. n + 1 -> S] : Computes(f, n + 1, a, R, p, g)
    BY <1>2
  <2>1. n \in Nat /\ n <= N
    BY <1>2
  <2>2. PICK f \in [0 .. n -> S] : Computes(f, n, a, R, p, g)
    BY <1>2, <2>1
  <2> DEFINE last == IF n + 1 \in R THEN g[<<n + 1, f[p[n + 1]]>>] ELSE a
             h == [i \in 0 .. n + 1 |-> IF i = n + 1 THEN last ELSE f[i]]
  <2>3. \A i \in 0 .. n + 1 : i \in R => p[i] \in 0 .. n /\ p[i] # n + 1
    BY <2>1
  <2>4. last \in S
    <3>1. CASE n + 1 \in R
      <4>1. f[p[n + 1]] \in S
        BY <2>1, <2>3, <3>1
      <4>2. <<n + 1, f[p[n + 1]]>> \in R \X S
        BY <3>1, <4>1
      <4> QED
        BY <3>1, <4>2
    <3> QED
      BY <3>1
  <2>5. h \in [0 .. n + 1 -> S]
    BY <2>1, <2>4
  <2>6. \A i \in 0 .. n + 1 : i # n + 1 => i \in 0 .. n /\ h[i] = f[i]
    BY <2>1
  <2>7. h[n + 1] = last
    BY <2>1
  <2> HIDE DEF h
  <2>8. ASSUME NEW i \in 0 .. n + 1 PROVE h[i] = IF i \in R THEN g[<<i, h[p[i]]>>] ELSE a
    <3>1. i \in R => h[p[i]] = f[p[i]]
      <4> SUFFICES ASSUME i \in R PROVE h[p[i]] = f[p[i]]
        OBVIOUS
      <4>1. p[i] \in 0 .. n + 1
        BY <2>1, <2>3
      <4> QED
        BY <2>3, <2>6, <4>1
    <3>2. CASE i = n + 1
      BY <2>7, <3>1, <3>2
    <3>3. CASE i # n + 1
      BY <2>2, <2>6, <3>1, <3>3 DEF Computes
    <3> QED
      BY <3>2, <3>3
  <2> QED
    BY <2>5, <2>8 DEF Computes
<1> HIDE DEF T
<1>3. T = Nat
  <2>1. T \subseteq Nat
    BY DEF T
  <2> QED
    BY <1>1, <1>2, <2>1, SetInduction
<1> QED
  BY <1>3 DEF T

(* Two functions that agree wherever they agree earlier agree everywhere.*)
LEMMA Agree ==
    ASSUME NEW N \in Nat, NEW R \in SUBSET (1 .. N), NEW p \in [R -> Nat], \A i \in R : p[i] < i,
           NEW f, NEW h,
           \A i \in 0 .. N : i \notin R => h[i] = f[i],
           \A i \in R : h[p[i]] = f[p[i]] => h[i] = f[i]
    PROVE  \A i \in 0 .. N : h[i] = f[i]
<1> DEFINE T == {n \in Nat : n <= N => \A i \in 0 .. n : h[i] = f[i]}
<1>1. ASSUME NEW n \in 0 .. N, \A i \in 0 .. n - 1 : h[i] = f[i] PROVE h[n] = f[n]
  <2>1. n \in R => p[n] \in 0 .. n - 1
    OBVIOUS
  <2> QED
    BY <1>1, <2>1
<1>2. 0 \in T
  BY <1>1
<1>3. ASSUME NEW n \in T PROVE n + 1 \in T
  <2> SUFFICES ASSUME n + 1 <= N PROVE \A i \in 0 .. n + 1 : h[i] = f[i]
    OBVIOUS
  <2>1. n \in Nat /\ \A i \in 0 .. n : h[i] = f[i]
    BY <1>3
  <2>2. (n + 1) - 1 = n /\ n + 1 \in 0 .. N
    BY <2>1
  <2>3. h[n + 1] = f[n + 1]
    BY <1>1, <2>1, <2>2
  <2> QED
    BY <2>1, <2>3
<1> HIDE DEF T
<1>4. T = Nat
  <2>1. T \subseteq Nat
    BY DEF T
  <2> QED
    BY <1>2, <1>3, <2>1, SetInduction
<1>5. \A n \in Nat : n <= N => \A i \in 0 .. n : h[i] = f[i]
  BY <1>4 DEF T
<1>6. N <= N
  OBVIOUS
<1> QED
  BY <1>5, <1>6

(* Induction up to n.                                                    *)
LEMMA UpTo ==
    ASSUME NEW N \in Nat, NEW T, 0 \in T, \A i \in 1 .. N : i - 1 \in T => i \in T
    PROVE  0 .. N \subseteq T
<1> DEFINE U == {n \in Nat : n <= N => n \in T}
<1>1. 0 \in U
  OBVIOUS
<1>2. ASSUME NEW n \in U PROVE n + 1 \in U
  <2> SUFFICES ASSUME n + 1 <= N PROVE n + 1 \in T
    OBVIOUS
  <2>1. n + 1 \in 1 .. N /\ (n + 1) - 1 = n /\ n \in T
    BY <1>2
  <2> QED
    BY <2>1
<1>3. U = Nat
  <2>1. U \subseteq Nat
    OBVIOUS
  <2> HIDE DEF U
  <2> QED
    BY <1>1, <1>2, <2>1, SetInduction
<1> QED
  BY <1>3

(* The predecessors, for recursion from n - 1.                           *)
Before1(n) == [i \in 1 .. n |-> i - 1]

LEMMA Predecessors ==
    ASSUME NEW n \in Nat
    PROVE  /\ Before1(n) \in [1 .. n -> Nat]
           /\ \A i \in 1 .. n : Before1(n)[i] < i /\ Before1(n)[i] = i - 1
  BY DEF Before1

-----------------------------------------------------------------------------
(* Loops.  step takes the state s to the next at <<k, s>>; from a it stays *)
(* in S, and V holds at every step.                                      *)
Stepping(N, S, a, step, V) ==
    /\ a \in S /\ <<0, a>> \in V
    /\ \A k \in 1 .. N : \A s \in S : <<k - 1, s>> \in V =>
          step[<<k, s>>] \in S /\ <<k, step[<<k, s>>]>> \in V

(* f is the states that are passed.                                      *)
Passes(f, N, a, step, V) ==
    /\ f[0] = a
    /\ \A k \in 1 .. N : f[k] = step[<<k, f[k - 1]>>]
    /\ \A k \in 0 .. N : <<k, f[k]>> \in V

LEMMA Loop ==
    ASSUME NEW N \in Nat, NEW S, NEW a, NEW step, NEW V, Stepping(N, S, a, step, V)
    PROVE  \E f \in [0 .. N -> S] : Passes(f, N, a, step, V)
<1> a \in S
  BY DEF Stepping
<1> DEFINE g == [q \in (1 .. N) \X S |-> IF step[q] \in S THEN step[q] ELSE a]
<1>1. g \in [(1 .. N) \X S -> S]
  OBVIOUS
<1>2. PICK f \in [0 .. N -> S] : Computes(f, N, a, 1 .. N, Before1(N), g)
  <2> HIDE DEF g
  <2> QED
    BY <1>1, Predecessors, Recursion
<1>3. f[0] = a
  <2>1. 0 \in 0 .. N /\ 0 \notin 1 .. N
    OBVIOUS
  <2> QED
    BY <1>2, <2>1 DEF Computes
<1>4. ASSUME NEW k \in 1 .. N, <<k - 1, f[k - 1]>> \in V
      PROVE  f[k] = step[<<k, f[k - 1]>>] /\ <<k, f[k]>> \in V
  <2>1. k \in 0 .. N /\ k - 1 \in 0 .. N /\ Before1(N)[k] = k - 1
    BY Predecessors
  <2>2. f[k] = g[<<k, f[k - 1]>>] /\ f[k - 1] \in S
    BY <1>2, <2>1 DEF Computes
  <2>3. step[<<k, f[k - 1]>>] \in S /\ <<k, step[<<k, f[k - 1]>>]>> \in V
    BY <1>4, <2>2 DEF Stepping
  <2>4. g[<<k, f[k - 1]>>] = step[<<k, f[k - 1]>>]
    BY <2>2, <2>3
  <2> QED
    BY <2>2, <2>3, <2>4
<1>5. \A k \in 0 .. N : <<k, f[k]>> \in V
  <2> DEFINE T == {k \in 0 .. N : <<k, f[k]>> \in V}
  <2>1. 0 \in T
    BY <1>3 DEF Stepping
  <2>2. ASSUME NEW k \in 1 .. N, k - 1 \in T PROVE k \in T
    <3>1. k \in 0 .. N
      OBVIOUS
    <3> QED
      BY <1>4, <2>2, <3>1
  <2> HIDE DEF T
  <2>3. 0 .. N \subseteq T
    BY <2>1, <2>2, UpTo
  <2> QED
    BY <2>3 DEF T
<1>6. \A k \in 1 .. N : f[k] = step[<<k, f[k - 1]>>]
  <2> SUFFICES ASSUME NEW k \in 1 .. N PROVE f[k] = step[<<k, f[k - 1]>>]
    OBVIOUS
  <2>1. k - 1 \in 0 .. N
    OBVIOUS
  <2> QED
    BY <1>4, <1>5, <2>1
<1> QED
  BY <1>3, <1>5, <1>6 DEF Passes

(* Two computations that take the same steps go the same way.            *)
Alike(f, h, N) == f[0] = h[0] /\ \A k \in 1 .. N : f[k - 1] = h[k - 1] => f[k] = h[k]

LEMMA SameLoop ==
    ASSUME NEW N \in Nat, NEW f, NEW h, Alike(f, h, N)
    PROVE  \A k \in 0 .. N : f[k] = h[k]
<1> DEFINE T == {k \in 0 .. N : f[k] = h[k]}
<1>1. 0 \in T /\ \A k \in 1 .. N : k - 1 \in T => k \in T
  BY DEF Alike
<1> HIDE DEF T
<1>2. 0 .. N \subseteq T
  BY <1>1, UpTo
<1> QED
  BY <1>2 DEF T

-----------------------------------------------------------------------------
(* Bits.                                                                 *)

LEMMA Halving == \A n \in Nat : n \div 2 \in Nat
OBVIOUS

(* n >> k halves n k times.                                              *)
LEMMA HalvedLoop ==
    ASSUME NEW n \in Nat, NEW k \in Nat
    PROVE  \E f \in [0 .. k -> Nat] :
              /\ f[0] = n
              /\ \A i \in 1 .. k : f[i] = f[i - 1] \div 2
              /\ \A i \in 0 .. k : Halved(n, i) = f[i]
<1> DEFINE step == [q \in (1 .. k) \X Nat |-> q[2] \div 2]
           V == (0 .. k) \X Nat
<1>1. \A i \in 1 .. k : \A s \in Nat : step[<<i, s>>] = s \div 2
  OBVIOUS
<1> HIDE DEF step
<1>2. PICK f \in [0 .. k -> Nat] : Passes(f, k, n, step, V)
  <2>1. ASSUME NEW i \in 1 .. k, NEW s \in Nat PROVE step[<<i, s>>] \in Nat /\ <<i, step[<<i, s>>]>> \in V
    <3>1. i \in 0 .. k /\ step[<<i, s>>] = s \div 2
      BY <1>1
    <3> QED
      BY <3>1, Halving
  <2>2. Stepping(k, Nat, n, step, V)
    BY <2>1 DEF Stepping
  <2> HIDE DEF V
  <2> QED
    BY <2>2, Loop
<1> f[0] = n
  BY <1>2 DEF Passes
<1>3. ASSUME NEW i \in 1 .. k PROVE f[i] = f[i - 1] \div 2
  <2>1. f[i - 1] \in Nat
    OBVIOUS
  <2>2. f[i] = step[<<i, f[i - 1]>>]
    BY <1>2 DEF Passes
  <2> QED
    BY <1>1, <2>1, <2>2
<1>4. ASSUME NEW m \in 0 .. k PROVE Halved(n, m) = f[m]
  <2> DEFINE Next1(h, i) == IF i = 0 THEN n ELSE IF h[i - 1] = h[i - 1] THEN h[i - 1] \div 2 ELSE n
             Solves(h) == h = [i \in 0 .. m |-> Next1(h, i)]
             h == CHOOSE s : Solves(s)
  <2>1. \E s : Solves(s)
    <3> DEFINE s == [i \in 0 .. m |-> f[i]]
    <3>1. ASSUME NEW i \in 0 .. m PROVE s[i] = Next1(s, i)
      <4>1. i # 0 => i \in 1 .. k /\ i - 1 \in 0 .. m
        OBVIOUS
      <4> QED
        BY <1>2, <1>3, <4>1
    <3>2. s = [i \in 0 .. m |-> s[i]]
      OBVIOUS
    <3> HIDE DEF s
    <3>3. Solves(s)
      BY <3>1, <3>2
    <3> QED
      BY <3>3
  <2>2. Solves(h)
    <3> HIDE DEF Solves
    <3> QED
      BY <2>1
  <2>3. Halved(n, m) = h[m]
    BY DEF Halved, Repeated
  <2> HIDE DEF h
  <2>4. h[0] = f[0]
    BY <1>2, <2>2
  <2>5. ASSUME NEW i \in 1 .. m, h[i - 1] = f[i - 1] PROVE h[i] = f[i]
    <3>1. i \in 0 .. m /\ i \in 1 .. k /\ i # 0
      OBVIOUS
    <3> QED
      BY <1>3, <2>2, <2>5, <3>1
  <2>6. m \in Nat /\ m \in 0 .. m
    OBVIOUS
  <2>7. Alike(h, f, m)
    BY <2>4, <2>5 DEF Alike
  <2> HIDE DEF Solves
  <2>8. \A i \in 0 .. m : h[i] = f[i]
    BY <2>6, <2>7, SameLoop
  <2> QED
    BY <2>3, <2>6, <2>8
<1> QED
  BY <1>2, <1>3, <1>4

LEMMA HalvedStep ==
    ASSUME NEW n \in Nat, NEW k \in Nat
    PROVE  Halved(n, k) \in Nat /\ Halved(n, 0) = n /\ Halved(n, k + 1) = Halved(n, k) \div 2
<1>1. k + 1 \in Nat
  OBVIOUS
<1>2. PICK f \in [0 .. k + 1 -> Nat] : /\ f[0] = n
                                       /\ \A i \in 1 .. k + 1 : f[i] = f[i - 1] \div 2
                                       /\ \A i \in 0 .. k + 1 : Halved(n, i) = f[i]
  BY <1>1, HalvedLoop
<1>3. 0 \in 0 .. k + 1 /\ k \in 0 .. k + 1 /\ k + 1 \in 1 .. k + 1 /\ k + 1 \in 0 .. k + 1 /\ (k + 1) - 1 = k
  OBVIOUS
<1> QED
  BY <1>2, <1>3

-----------------------------------------------------------------------------
(* Words.                                                                *)

Word == SUBSET Bit

LEMMA BitNumbers == Bit = 0 .. 31 /\ Width = 32
BY DEF Bit, Width

LEMMA AddType == ASSUME NEW x \in Word, NEW y \in Word PROVE x ++ y \in Word
BY DEF ++, Add, Word, Xor2, Xor3

LEMMA Xor2Type == ASSUME NEW x \in Word, NEW y \in Word PROVE Xor2(x, y) \in Word
BY DEF Word, Xor2

LEMMA Xor3Type == ASSUME NEW x \in Word, NEW y \in Word, NEW z \in Word PROVE Xor3(x, y, z) \in Word
BY DEF Word, Xor2, Xor3

LEMMA RotlType == ASSUME NEW x \in Word, NEW n \in Nat PROVE Rotl(x, n) \in Word
<1> SUFFICES ASSUME NEW b \in x PROVE (b + n) % Width \in Bit
  BY DEF Rotl, Word
<1>1. b + n \in Nat
  BY BitNumbers DEF Word
<1> QED
  BY <1>1, BitNumbers

LEMMA RotrType == ASSUME NEW x \in Word, NEW n \in 0 .. 32 PROVE Rotr(x, n) \in Word
<1>1. Width - n \in Nat
  BY BitNumbers
<1> QED
  BY <1>1, RotlType DEF Rotr

LEMMA ShrType == ASSUME NEW x \in Word, NEW n \in Nat PROVE Shr(x, n) \in Word
BY BitNumbers DEF Shr, Word

LEMMA WType == ASSUME NEW high, NEW low PROVE W(high, low) \in Word
BY BitNumbers DEF W, Word, Bits

LEMMA WordOfType == ASSUME NEW bytes PROVE WordOf(bytes) \in Word
BY DEF WordOf, Word

(* Addition: the carry goes from bit to bit.                             *)
LEMMA CarryOn ==
    ASSUME NEW x \in Word, NEW y \in Word, NEW b \in Nat
    PROVE  /\ ~ Carry(x, y, 0)
           /\ Carry(x, y, b + 1) <=> (b \in x /\ b \in y) \/ ((b \in x \/ b \in y) /\ Carry(x, y, b))
BY DEF Carry, Word, Bit, Width

LEMMA AddBit ==
    ASSUME NEW x \in Word, NEW y \in Word, NEW b \in Bit
    PROVE  b \in x ++ y <=> ((b \in x) <=> ((b \in y) <=> Carry(x, y, b)))
BY DEF ++, Add, Xor3, Xor2, Word

LEMMA AddCommutes == ASSUME NEW x \in Word, NEW y \in Word PROVE x ++ y = y ++ x
<1>1. ASSUME NEW b \in Bit PROVE b \in x ++ y <=> b \in y ++ x
  <2>1. Carry(x, y, b) <=> Carry(y, x, b)
    BY DEF Carry
  <2>2. /\ b \in x ++ y <=> ((b \in x) <=> ((b \in y) <=> Carry(x, y, b)))
        /\ b \in y ++ x <=> ((b \in y) <=> ((b \in x) <=> Carry(y, x, b)))
    BY AddBit
  <2> QED
    BY <2>1, <2>2
<1>2. x ++ y \in Word /\ y ++ x \in Word
  BY AddType
<1> QED
  BY <1>1, <1>2 DEF Word

(* At each bit, what (x + y) + z carries there in its two additions is   *)
(* what x + (y + z) carries in its two.                                  *)
LEMMA AddAssociates ==
    ASSUME NEW x \in Word, NEW y \in Word, NEW z \in Word
    PROVE  (x ++ y) ++ z = x ++ (y ++ z)
<1> DEFINE One(p) == IF p THEN 1 ELSE 0
           Same(b) == One(Carry(x, y, b)) + One(Carry(x ++ y, z, b))
                         = One(Carry(y, z, b)) + One(Carry(x, y ++ z, b))
<1>1. x ++ y \in Word /\ y ++ z \in Word
  BY AddType
<1>2. ASSUME NEW b \in Bit, Same(b)
      PROVE  Same(b + 1) /\ (b \in (x ++ y) ++ z <=> b \in x ++ (y ++ z))
  <2>1. b \in Nat
    BY BitNumbers
  <2>2. /\ Carry(x, y, b + 1) <=> (b \in x /\ b \in y) \/ ((b \in x \/ b \in y) /\ Carry(x, y, b))
        /\ Carry(y, z, b + 1) <=> (b \in y /\ b \in z) \/ ((b \in y \/ b \in z) /\ Carry(y, z, b))
        /\ Carry(x ++ y, z, b + 1)
              <=> (b \in x ++ y /\ b \in z) \/ ((b \in x ++ y \/ b \in z) /\ Carry(x ++ y, z, b))
        /\ Carry(x, y ++ z, b + 1)
              <=> (b \in x /\ b \in y ++ z) \/ ((b \in x \/ b \in y ++ z) /\ Carry(x, y ++ z, b))
    BY <1>1, <2>1, CarryOn
  <2>3. /\ b \in x ++ y <=> ((b \in x) <=> ((b \in y) <=> Carry(x, y, b)))
        /\ b \in y ++ z <=> ((b \in y) <=> ((b \in z) <=> Carry(y, z, b)))
        /\ b \in (x ++ y) ++ z <=> ((b \in x ++ y) <=> ((b \in z) <=> Carry(x ++ y, z, b)))
        /\ b \in x ++ (y ++ z) <=> ((b \in x) <=> ((b \in y ++ z) <=> Carry(x, y ++ z, b)))
    BY <1>1, AddBit
  <2> QED
    BY <1>2, <2>2, <2>3
<1>3. Same(0)
  BY <1>1, CarryOn
<1>4. \A b \in 0 .. 31 : Same(b)
  <2> DEFINE T == {b \in 0 .. 31 : Same(b)}
  <2>1. 0 \in T
    BY <1>3
  <2>2. ASSUME NEW b \in 1 .. 31, b - 1 \in T PROVE b \in T
    <3>1. b - 1 \in Bit /\ Same(b - 1) /\ (b - 1) + 1 = b /\ b \in 0 .. 31
      BY <2>2, BitNumbers
    <3> QED
      BY <1>2, <3>1
  <2> HIDE DEF T
  <2>3. 0 .. 31 \subseteq T
    BY <2>1, <2>2, UpTo
  <2> QED
    BY <2>3 DEF T
<1>5. \A b \in Bit : b \in (x ++ y) ++ z <=> b \in x ++ (y ++ z)
  BY <1>2, <1>4, BitNumbers
<1>6. (x ++ y) ++ z \in Word /\ x ++ (y ++ z) \in Word
  BY <1>1, AddType
<1> QED
  BY <1>5, <1>6 DEF Word

(* The 32 bits of a word, from the highest.                              *)
LEMMA ValueLoop ==
    ASSUME NEW word
    PROVE  \E f \in [0 .. 32 -> Nat] :
              /\ f[0] = 0
              /\ \A i \in 1 .. 32 : f[i] = 2 * f[i - 1] + (IF 32 - i \in word THEN 1 ELSE 0)
              /\ \A i \in 0 .. 32 : f[i] \in Nat
              /\ Value(word) = f[32]
<1> DEFINE N == 32
           S == Nat
           Step(i, n) == 2 * n + (IF 32 - i \in word THEN 1 ELSE 0)
           step == [q \in (1 .. N) \X S |-> Step(q[1], q[2])]
           Good(i, n) == n \in Nat
           V == {q \in (0 .. N) \X S : Good(q[1], q[2])}
<1>1. 0 \in S /\ Good(0, 0)
  OBVIOUS
<1>2. ASSUME NEW i \in 1 .. N, NEW n \in S, Good(i - 1, n)
      PROVE  Step(i, n) \in S /\ Good(i, Step(i, n))
  OBVIOUS
<1> N \in Nat
  BY DEF N
<1> HIDE DEF Step, Good, N, S
<1>3. \A i \in 1 .. N : \A n \in S : step[<<i, n>>] = Step(i, n)
  OBVIOUS
<1> HIDE DEF step
<1>4. PICK f \in [0 .. N -> S] : Passes(f, N, 0, step, V)
  <2>1. ASSUME NEW i \in 1 .. N, NEW n \in S, <<i - 1, n>> \in V
        PROVE  step[<<i, n>>] \in S /\ <<i, step[<<i, n>>]>> \in V
    <3>1. i \in 0 .. N /\ Good(i - 1, n)
      BY <2>1
    <3> QED
      BY <1>2, <1>3, <3>1
  <2>2. <<0, 0>> \in V
    BY <1>1
  <2>3. Stepping(N, S, 0, step, V)
    BY <1>1, <2>1, <2>2 DEF Stepping
  <2> HIDE DEF V
  <2> QED
    BY <2>3, Loop
<1>5. f[0] = 0
  BY <1>4 DEF Passes
<1>6. ASSUME NEW i \in 1 .. N PROVE f[i] = Step(i, f[i - 1])
  <2>1. f[i - 1] \in S
    OBVIOUS
  <2>2. f[i] = step[<<i, f[i - 1]>>]
    BY <1>4 DEF Passes
  <2> QED
    BY <1>3, <2>1, <2>2
<1>7. ASSUME NEW i \in 0 .. N PROVE Good(i, f[i])
  <2>1. <<i, f[i]>> \in V
    BY <1>4 DEF Passes
  <2> QED
    BY <2>1
<1>8. Value(word) = f[N]
  <2> DEFINE Next1(after, i) ==
                IF i = 0 THEN 0 ELSE IF after[i - 1] = after[i - 1] THEN Step(i, after[i - 1]) ELSE 0
             Solves(after) == after = [i \in 0 .. N |-> Next1(after, i)]
             after == CHOOSE x : Solves(x)
  <2>1. Value(word) = after[N]
    BY DEF N, Step, Value, Repeated
  <2>2. \E x : Solves(x)
    <3>1. ASSUME NEW i \in 0 .. N PROVE f[i] = Next1(f, i)
      <4>1. i # 0 => i \in 1 .. N
        OBVIOUS
      <4> QED
        BY <1>5, <1>6, <4>1
    <3>2. f = [i \in 0 .. N |-> f[i]]
      OBVIOUS
    <3>3. Solves(f)
      BY <3>1, <3>2
    <3> QED
      BY <3>3
  <2>3. Solves(after)
    <3> HIDE DEF Solves
    <3> QED
      BY <2>2
  <2> HIDE DEF after
  <2>4. Alike(f, after, N)
    <3>1. after[0] = f[0]
      BY <1>5, <2>3
    <3>2. ASSUME NEW i \in 1 .. N, f[i - 1] = after[i - 1] PROVE f[i] = after[i]
      <4>1. i \in 0 .. N /\ i # 0
        OBVIOUS
      <4> QED
        BY <1>6, <2>3, <3>2, <4>1
    <3> QED
      BY <3>1, <3>2 DEF Alike
  <2>5. N \in Nat /\ N \in 0 .. N
    OBVIOUS
  <2>6. f[N] = after[N]
    BY <2>4, <2>5, SameLoop
  <2> QED
    BY <2>1, <2>6
<1> QED
  BY <1>5, <1>6, <1>7, <1>8 DEF N, S, Step, Good

(* Eight doublings, and 32.                                              *)
LEMMA EightDoublings ==
    ASSUME NEW d \in [0 .. 32 -> Int], NEW k \in 0 .. 24
    PROVE  /\ (\A i \in 1 .. 32 : d[i] = 2 * d[i - 1]) => d[k + 8] = 256 * d[k]
           /\ (\A i \in 1 .. 32 : d[i] <= 2 * d[i - 1]) => d[k + 8] <= 256 * d[k]
<1>1. /\ k \in 0 .. 32 /\ k + 1 \in 0 .. 32 /\ k + 2 \in 0 .. 32 /\ k + 3 \in 0 .. 32 /\ k + 4 \in 0 .. 32
      /\ k + 5 \in 0 .. 32 /\ k + 6 \in 0 .. 32 /\ k + 7 \in 0 .. 32 /\ k + 8 \in 0 .. 32
  OBVIOUS
<1>2. /\ d[k] \in Int /\ d[k + 1] \in Int /\ d[k + 2] \in Int /\ d[k + 3] \in Int /\ d[k + 4] \in Int
      /\ d[k + 5] \in Int /\ d[k + 6] \in Int /\ d[k + 7] \in Int /\ d[k + 8] \in Int
  BY <1>1
<1>3. \A j \in 0 .. 7 : (k + (j + 1)) \in 1 .. 32 /\ (k + (j + 1)) - 1 = k + j
  OBVIOUS
<1>4. ASSUME \A i \in 1 .. 32 : d[i] = 2 * d[i - 1] PROVE d[k + 8] = 256 * d[k]
  <2>1. \A j \in 0 .. 7 : d[k + (j + 1)] = 2 * d[k + j]
    BY <1>3, <1>4
  <2>2. /\ d[k + 1] = 2 * d[k] /\ d[k + 2] = 2 * d[k + 1] /\ d[k + 3] = 2 * d[k + 2]
        /\ d[k + 4] = 2 * d[k + 3] /\ d[k + 5] = 2 * d[k + 4] /\ d[k + 6] = 2 * d[k + 5]
        /\ d[k + 7] = 2 * d[k + 6] /\ d[k + 8] = 2 * d[k + 7]
    BY <2>1
  <2> QED
    BY <1>2, <2>2
<1>5. ASSUME \A i \in 1 .. 32 : d[i] <= 2 * d[i - 1] PROVE d[k + 8] <= 256 * d[k]
  <2>1. \A j \in 0 .. 7 : d[k + (j + 1)] <= 2 * d[k + j]
    BY <1>3, <1>5
  <2>2. /\ d[k + 1] <= 2 * d[k] /\ d[k + 2] <= 2 * d[k + 1] /\ d[k + 3] <= 2 * d[k + 2]
        /\ d[k + 4] <= 2 * d[k + 3] /\ d[k + 5] <= 2 * d[k + 4] /\ d[k + 6] <= 2 * d[k + 5]
        /\ d[k + 7] <= 2 * d[k + 6] /\ d[k + 8] <= 2 * d[k + 7]
    BY <2>1
  <2> QED
    BY <1>2, <2>2
<1> QED
  BY <1>4, <1>5

LEMMA Doublings ==
    ASSUME NEW d \in [0 .. 32 -> Int]
    PROVE  /\ (\A i \in 1 .. 32 : d[i] = 2 * d[i - 1]) => d[32] = 4294967296 * d[0]
           /\ (\A i \in 1 .. 32 : d[i] <= 2 * d[i - 1]) => d[32] <= 4294967296 * d[0]
<1>1. 0 + 8 = 8 /\ 8 + 8 = 16 /\ 16 + 8 = 24 /\ 24 + 8 = 32
  OBVIOUS
<1>2. d[0] \in Int /\ d[8] \in Int /\ d[16] \in Int /\ d[24] \in Int /\ d[32] \in Int
  OBVIOUS
<1>3. ASSUME \A i \in 1 .. 32 : d[i] = 2 * d[i - 1] PROVE d[32] = 4294967296 * d[0]
  <2>1. \A k \in 0 .. 24 : d[k + 8] = 256 * d[k]
    BY <1>3, EightDoublings
  <2>2. d[8] = 256 * d[0] /\ d[16] = 256 * d[8] /\ d[24] = 256 * d[16] /\ d[32] = 256 * d[24]
    BY <1>1, <2>1
  <2> QED
    BY <1>2, <2>2, SMT
<1>4. ASSUME \A i \in 1 .. 32 : d[i] <= 2 * d[i - 1] PROVE d[32] <= 4294967296 * d[0]
  <2>1. \A k \in 0 .. 24 : d[k + 8] <= 256 * d[k]
    BY <1>4, EightDoublings
  <2>2. d[8] <= 256 * d[0] /\ d[16] <= 256 * d[8] /\ d[24] <= 256 * d[16] /\ d[32] <= 256 * d[24]
    BY <1>1, <2>1
  <2> QED
    BY <1>2, <2>2, SMT
<1> QED
  BY <1>3, <1>4, SMT

(* A word stands for a number below 2^32.                                *)
LEMMA ValueRange == ASSUME NEW x PROVE Value(x) \in Nat /\ Value(x) < 4294967296
<1>1. PICK f \in [0 .. 32 -> Nat] :
         /\ f[0] = 0
         /\ \A i \in 1 .. 32 : f[i] = 2 * f[i - 1] + (IF 32 - i \in x THEN 1 ELSE 0)
         /\ \A i \in 0 .. 32 : f[i] \in Nat
         /\ Value(x) = f[32]
  BY ValueLoop
<1> DEFINE d == [i \in 0 .. 32 |-> f[i] + 1]
<1>2. d \in [0 .. 32 -> Int] /\ d[0] = 1 /\ d[32] = f[32] + 1
  BY <1>1
<1>3. \A i \in 1 .. 32 : d[i] <= 2 * d[i - 1]
  <2> SUFFICES ASSUME NEW i \in 1 .. 32 PROVE d[i] <= 2 * d[i - 1]
    OBVIOUS
  <2>1. i \in 0 .. 32 /\ i - 1 \in 0 .. 32 /\ f[i] \in Nat /\ f[i - 1] \in Nat
    OBVIOUS
  <2>2. f[i] = 2 * f[i - 1] + (IF 32 - i \in x THEN 1 ELSE 0)
    BY <1>1
  <2>3. f[i] <= 2 * f[i - 1] + 1
    <3>1. CASE 32 - i \in x
      BY <2>1, <2>2, <3>1
    <3>2. CASE 32 - i \notin x
      BY <2>1, <2>2, <3>2
    <3> QED
      BY <3>1, <3>2
  <2> QED
    BY <2>1, <2>3
<1> HIDE DEF d
<1>4. d[32] <= 4294967296 * d[0]
  BY <1>2, <1>3, Doublings, SMT
<1>5. f[32] \in Nat /\ 32 \in 0 .. 32
  BY <1>1
<1> QED
  BY <1>1, <1>2, <1>4, <1>5, SMT

-----------------------------------------------------------------------------
(* The words of sha1 (telemetry_server.cpp:46) and sha256_hex            *)
(* (config_archive.cpp:75) are uint32_t: what carries do to the bits is  *)
(* addition modulo 2^32.                                                 *)
THEOREM AdditionWraps ==
    \A x, y \in SUBSET Bit : Value(x ++ y) = (Value(x) + Value(y)) % 4294967296
<1> SUFFICES ASSUME NEW x \in Word, NEW y \in Word
             PROVE  Value(x ++ y) = (Value(x) + Value(y)) % 4294967296
  BY DEF Word
<1> DEFINE s == x ++ y
           One(p) == IF p THEN 1 ELSE 0
<1>1. s \in Word
  BY AddType
<1>2. PICK f \in [0 .. 32 -> Nat] :
         /\ f[0] = 0
         /\ \A i \in 1 .. 32 : f[i] = 2 * f[i - 1] + (IF 32 - i \in x THEN 1 ELSE 0)
         /\ Value(x) = f[32]
  BY ValueLoop
<1>3. PICK g \in [0 .. 32 -> Nat] :
         /\ g[0] = 0
         /\ \A i \in 1 .. 32 : g[i] = 2 * g[i - 1] + (IF 32 - i \in y THEN 1 ELSE 0)
         /\ Value(y) = g[32]
  BY ValueLoop
<1>4. PICK h \in [0 .. 32 -> Nat] :
         /\ h[0] = 0
         /\ \A i \in 1 .. 32 : h[i] = 2 * h[i - 1] + (IF 32 - i \in s THEN 1 ELSE 0)
         /\ Value(s) = h[32]
  BY ValueLoop
<1> DEFINE C(i) == One(Carry(x, y, 32 - i))
           d == [i \in 0 .. 32 |-> f[i] + g[i] + C(i) - h[i]]
<1>5. \A i \in 0 .. 32 : C(i) = 0 \/ C(i) = 1
  OBVIOUS
<1>6. d \in [0 .. 32 -> Int] /\ d[0] = C(0) /\ d[32] = f[32] + g[32] + C(32) - h[32]
  <2>1. \A i \in 0 .. 32 : f[i] \in Int /\ g[i] \in Int /\ h[i] \in Int /\ C(i) \in Int
    BY <1>5
  <2> HIDE DEF C
  <2>2. \A i \in 0 .. 32 : f[i] + g[i] + C(i) - h[i] \in Int
    BY <2>1
  <2>3. d[0] = f[0] + g[0] + C(0) - h[0] /\ C(0) \in Int
    BY <2>1
  <2> QED
    BY <1>2, <1>3, <1>4, <2>2, <2>3
<1>7. ASSUME NEW i \in 1 .. 32 PROVE d[i] = 2 * d[i - 1]
  <2> DEFINE b == 32 - i
  <2>1. i \in 0 .. 32 /\ i - 1 \in 0 .. 32 /\ b \in Bit /\ b \in Nat /\ 32 - (i - 1) = b + 1
    BY BitNumbers
  <2>2. One(b \in x) + One(b \in y) + C(i) = One(b \in s) + 2 * C(i - 1)
    <3>1. Carry(x, y, b + 1) <=> (b \in x /\ b \in y) \/ ((b \in x \/ b \in y) /\ Carry(x, y, b))
      BY <2>1, CarryOn
    <3>2. b \in s <=> ((b \in x) <=> ((b \in y) <=> Carry(x, y, b)))
      BY <2>1, AddBit
    <3>3. C(i) = One(Carry(x, y, b)) /\ C(i - 1) = One(Carry(x, y, b + 1))
      BY <2>1
    <3> QED
      BY <3>1, <3>2, <3>3
  <2>3. /\ f[i] = 2 * f[i - 1] + One(b \in x)
        /\ g[i] = 2 * g[i - 1] + One(b \in y)
        /\ h[i] = 2 * h[i - 1] + One(b \in s)
    BY <1>2, <1>3, <1>4
  <2>4. /\ d[i] = f[i] + g[i] + C(i) - h[i]
        /\ d[i - 1] = f[i - 1] + g[i - 1] + C(i - 1) - h[i - 1]
    BY <2>1
  <2>5. /\ f[i - 1] \in Nat /\ g[i - 1] \in Nat /\ h[i - 1] \in Nat
        /\ One(b \in x) \in Int /\ One(b \in y) \in Int /\ One(b \in s) \in Int
        /\ C(i) \in Int /\ C(i - 1) \in Int
    BY <2>1
  <2> HIDE DEF C, One, d, b
  <2> QED
    BY <2>2, <2>3, <2>4, <2>5
<1>8. C(32) = 0
  BY CarryOn
<1> HIDE DEF d, C
<1>9. d[32] = 4294967296 * C(0)
  BY <1>6, <1>7, Doublings, SMT
<1>10. C(0) = 0 \/ C(0) = 1
  BY <1>5
<1> DEFINE a == f[32]
           c == g[32]
           r == h[32]
<1>11. a \in Nat /\ c \in Nat /\ r \in Nat /\ r < 4294967296
  BY <1>4, ValueRange, SMT
<1>12. a + c = r + 4294967296 * C(0)
  BY <1>6, <1>8, <1>9, <1>10, <1>11, SMT
<1> HIDE DEF a, c, r
<1>13. (a + c) % 4294967296 = r
  BY <1>10, <1>11, <1>12, SMT
<1> QED
  BY <1>2, <1>3, <1>4, <1>13, SMT DEF a, c, r

(* The eight bits of a byte of a word, from the highest.                 *)
LEMMA ByteOfLoop ==
    ASSUME NEW word, NEW k \in 1 .. 4
    PROVE  \E f \in [0 .. 8 -> Nat] :
              /\ f[0] = 0
              /\ \A i \in 1 .. 8 : f[i] = 2 * f[i - 1] + (IF 8 * (5 - k) - i \in word THEN 1 ELSE 0)
              /\ \A i \in 0 .. 8 : f[i] \in Nat
              /\ ByteOf(word, k) = f[8]
<1> DEFINE N == 8
           S == Nat
           Step(i, n) == 2 * n + (IF 8 * (5 - k) - i \in word THEN 1 ELSE 0)
           step == [q \in (1 .. N) \X S |-> Step(q[1], q[2])]
           Good(i, n) == n \in Nat
           V == {q \in (0 .. N) \X S : Good(q[1], q[2])}
<1>1. 0 \in S /\ Good(0, 0)
  OBVIOUS
<1>2. ASSUME NEW i \in 1 .. N, NEW n \in S, Good(i - 1, n)
      PROVE  Step(i, n) \in S /\ Good(i, Step(i, n))
  OBVIOUS
<1> N \in Nat
  BY DEF N
<1> HIDE DEF Step, Good, N, S
<1>3. \A i \in 1 .. N : \A n \in S : step[<<i, n>>] = Step(i, n)
  OBVIOUS
<1> HIDE DEF step
<1>4. PICK f \in [0 .. N -> S] : Passes(f, N, 0, step, V)
  <2>1. ASSUME NEW i \in 1 .. N, NEW n \in S, <<i - 1, n>> \in V
        PROVE  step[<<i, n>>] \in S /\ <<i, step[<<i, n>>]>> \in V
    <3>1. i \in 0 .. N /\ Good(i - 1, n)
      BY <2>1
    <3> QED
      BY <1>2, <1>3, <3>1
  <2>2. <<0, 0>> \in V
    BY <1>1
  <2>3. Stepping(N, S, 0, step, V)
    BY <1>1, <2>1, <2>2 DEF Stepping
  <2> HIDE DEF V
  <2> QED
    BY <2>3, Loop
<1>5. f[0] = 0
  BY <1>4 DEF Passes
<1>6. ASSUME NEW i \in 1 .. N PROVE f[i] = Step(i, f[i - 1])
  <2>1. f[i - 1] \in S
    OBVIOUS
  <2>2. f[i] = step[<<i, f[i - 1]>>]
    BY <1>4 DEF Passes
  <2> QED
    BY <1>3, <2>1, <2>2
<1>7. ASSUME NEW i \in 0 .. N PROVE Good(i, f[i])
  <2>1. <<i, f[i]>> \in V
    BY <1>4 DEF Passes
  <2> QED
    BY <2>1
<1>8. ByteOf(word, k) = f[N]
  <2> DEFINE Next1(after, i) ==
                IF i = 0 THEN 0 ELSE IF after[i - 1] = after[i - 1] THEN Step(i, after[i - 1]) ELSE 0
             Solves(after) == after = [i \in 0 .. N |-> Next1(after, i)]
             after == CHOOSE x : Solves(x)
  <2>1. ByteOf(word, k) = after[N]
    BY DEF N, Step, ByteOf, Repeated
  <2>2. \E x : Solves(x)
    <3>1. ASSUME NEW i \in 0 .. N PROVE f[i] = Next1(f, i)
      <4>1. i # 0 => i \in 1 .. N
        OBVIOUS
      <4> QED
        BY <1>5, <1>6, <4>1
    <3>2. f = [i \in 0 .. N |-> f[i]]
      OBVIOUS
    <3>3. Solves(f)
      BY <3>1, <3>2
    <3> QED
      BY <3>3
  <2>3. Solves(after)
    <3> HIDE DEF Solves
    <3> QED
      BY <2>2
  <2> HIDE DEF after
  <2>4. Alike(f, after, N)
    <3>1. after[0] = f[0]
      BY <1>5, <2>3
    <3>2. ASSUME NEW i \in 1 .. N, f[i - 1] = after[i - 1] PROVE f[i] = after[i]
      <4>1. i \in 0 .. N /\ i # 0
        OBVIOUS
      <4> QED
        BY <1>6, <2>3, <3>2, <4>1
    <3> QED
      BY <3>1, <3>2 DEF Alike
  <2>5. N \in Nat /\ N \in 0 .. N
    OBVIOUS
  <2>6. f[N] = after[N]
    BY <2>4, <2>5, SameLoop
  <2> QED
    BY <2>1, <2>6
<1> QED
  BY <1>5, <1>6, <1>7, <1>8 DEF N, S, Step, Good

-----------------------------------------------------------------------------
(* SHA-1, block by block.                                                *)

Words(n) == [1 .. n -> Word]

LEMMA Five ==
    ASSUME NEW a \in Word, NEW b \in Word, NEW c \in Word, NEW d \in Word, NEW e \in Word
    PROVE  <<a, b, c, d, e>> \in Words(5)
BY DEF Words

LEMMA Eight ==
    ASSUME NEW a \in Word, NEW b \in Word, NEW c \in Word, NEW d \in Word,
           NEW e \in Word, NEW f \in Word, NEW g \in Word, NEW h \in Word
    PROVE  <<a, b, c, d, e, f, g, h>> \in Words(8)
BY DEF Words

LEMMA WordsAreSequences ==
    ASSUME NEW n \in Nat, NEW w \in Words(n)
    PROVE  w \in Seq(Word) /\ Len(w) = n
BY DEF Words

LEMMA SequencesAreWords ==
    ASSUME NEW w \in Seq(Word)
    PROVE  w \in Words(Len(w))
BY DEF Words

LEMMA Sha1WordType ==
    ASSUME NEW w, NEW i, w[i - 3] \in Word, w[i - 8] \in Word, w[i - 14] \in Word, w[i - 16] \in Word
    PROVE  Sha1Word(w, i) \in Word
<1>1. Xor2(Xor2(w[i - 3], w[i - 8]), Xor2(w[i - 14], w[i - 16])) \in Word
  BY Xor2Type
<1> QED
  BY <1>1, RotlType DEF Sha1Word

LEMMA Appended ==
    ASSUME NEW w \in Seq(Word), NEW x \in Word
    PROVE  /\ Append(w, x) \in Seq(Word) /\ Len(Append(w, x)) = Len(w) + 1
           /\ \A i \in 1 .. Len(w) : Append(w, x)[i] = w[i] /\ w[i] \in Word
           /\ Append(w, x)[Len(w) + 1] = x
OBVIOUS

LEMMA EmptyWord == {} \in Word
BY DEF Word

LEMMA Sha1WordAppended ==
    ASSUME NEW w \in Seq(Word), NEW x \in Word, NEW i \in 17 .. Len(w) + 1
    PROVE  Sha1Word(Append(w, x), i) = Sha1Word(w, i) /\ Sha1Word(w, i) \in Word
<1>1. Len(w) \in Nat
  OBVIOUS
<1>2. /\ i - 3 \in 1 .. Len(w) /\ i - 8 \in 1 .. Len(w) /\ i - 14 \in 1 .. Len(w)
      /\ i - 16 \in 1 .. Len(w)
  BY <1>1
<1>3. /\ Append(w, x)[i - 3] = w[i - 3] /\ w[i - 3] \in Word
      /\ Append(w, x)[i - 8] = w[i - 8] /\ w[i - 8] \in Word
      /\ Append(w, x)[i - 14] = w[i - 14] /\ w[i - 14] \in Word
      /\ Append(w, x)[i - 16] = w[i - 16] /\ w[i - 16] \in Word
  BY <1>2, Appended
<1>4. Sha1Word(w, i) \in Word
  BY <1>3, Sha1WordType
<1> QED
  BY <1>3, <1>4 DEF Sha1Word

Lists == Seq(Word)

(* The words a block is extended to.                                     *)
Sha1Words(block, n) ==
    {w \in Seq(Word) : /\ Len(w) = n
                       /\ \A i \in 1 .. 16 : w[i] = block[i]
                       /\ \A i \in 17 .. n : w[i] = Sha1Word(w, i)}

(* The 80 words of a block: its 16, then every one from those before it. *)
LEMMA Sha1ScheduleLoop ==
    ASSUME NEW block \in Words(16)
    PROVE  \E f \in [0 .. 64 -> Lists] :
              /\ f[0] = block
              /\ \A k \in 1 .. 64 : f[k] = Append(f[k - 1], Sha1Word(f[k - 1], 16 + k))
              /\ \A k \in 0 .. 64 : f[k] \in Sha1Words(block, 16 + k)
              /\ Sha1Schedule(block) = f[64]
<1> DEFINE N == 64
           S == Lists
           Step(k, w) == Append(w, Sha1Word(w, 16 + k))
           step == [q \in (1 .. N) \X S |-> Step(q[1], q[2])]
           Good(k, w) == w \in Sha1Words(block, 16 + k)
           V == {q \in (0 .. N) \X S : Good(q[1], q[2])}
<1>1. block \in S /\ Good(0, block)
  <2>1. 16 \in Nat
    OBVIOUS
  <2>2. block \in Seq(Word) /\ Len(block) = 16
    BY <2>1, WordsAreSequences
  <2> QED
    BY <2>2 DEF Sha1Words, Lists
<1>2. ASSUME NEW k \in 1 .. N, NEW w \in S, Good(k - 1, w)
      PROVE  Step(k, w) \in S /\ Good(k, Step(k, w))
  <2> DEFINE v == Append(w, Sha1Word(w, 16 + k))
  <2>1. /\ w \in Seq(Word) /\ Len(w) = 15 + k /\ k \in 1 .. 64
        /\ \A i \in 1 .. 16 : w[i] = block[i]
        /\ \A i \in 17 .. 15 + k : w[i] = Sha1Word(w, i)
    <3>1. k \in 1 .. 64 /\ 16 + (k - 1) = 15 + k
      OBVIOUS
    <3>2. w \in Sha1Words(block, 16 + (k - 1))
      BY <1>2
    <3> HIDE DEF N, S, Step, step, Good, V, v
    <3>3. w \in Sha1Words(block, 15 + k)
      BY <3>1, <3>2
    <3> QED
      BY <3>1, <3>3 DEF Sha1Words
  <2>2. Sha1Word(w, 16 + k) \in Word
    <3>1. w \in Seq(Word) /\ 16 + k \in 17 .. Len(w) + 1
      BY <2>1
    <3> QED
      BY <3>1, Sha1WordAppended, EmptyWord
  <2>3. /\ v \in Seq(Word) /\ Len(v) = 16 + k /\ v[16 + k] = Sha1Word(w, 16 + k)
        /\ \A i \in 1 .. 15 + k : v[i] = w[i]
    BY <2>1, <2>2, Appended
  <2>4. \A i \in 17 .. 16 + k : Sha1Word(v, i) = Sha1Word(w, i)
    <3> SUFFICES ASSUME NEW i \in 17 .. 16 + k PROVE Sha1Word(v, i) = Sha1Word(w, i)
      OBVIOUS
    <3>1. i \in 17 .. Len(w) + 1
      BY <2>1
    <3> QED
      BY <2>1, <2>2, <3>1, Sha1WordAppended
  <2> HIDE DEF v
  <2>5. \A i \in 1 .. 16 : v[i] = block[i]
    <3> SUFFICES ASSUME NEW i \in 1 .. 16 PROVE v[i] = block[i]
      OBVIOUS
    <3>1. i \in 1 .. 15 + k
      BY <2>1
    <3> QED
      BY <2>1, <2>3, <3>1
  <2>6. \A i \in 17 .. 16 + k : v[i] = Sha1Word(v, i)
    BY <2>1, <2>3, <2>4
  <2> QED
    BY <2>1, <2>3, <2>5, <2>6 DEF v, Sha1Words, Lists
<1> N \in Nat
  BY DEF N
<1> HIDE DEF Step, Good, N, S
<1>3. \A k \in 1 .. N : \A w \in S : step[<<k, w>>] = Step(k, w)
  OBVIOUS
<1> HIDE DEF step
<1>4. PICK f \in [0 .. N -> S] : Passes(f, N, block, step, V)
  <2>1. ASSUME NEW k \in 1 .. N, NEW w \in S, <<k - 1, w>> \in V
        PROVE  step[<<k, w>>] \in S /\ <<k, step[<<k, w>>]>> \in V
    <3>1. k \in 0 .. N /\ Good(k - 1, w)
      BY <2>1
    <3> QED
      BY <1>2, <1>3, <3>1
  <2>2. <<0, block>> \in V
    BY <1>1
  <2>3. Stepping(N, S, block, step, V)
    BY <1>1, <2>1, <2>2 DEF Stepping
  <2> HIDE DEF V
  <2> QED
    BY <2>3, Loop
<1>5. f[0] = block
  BY <1>4 DEF Passes
<1>6. ASSUME NEW k \in 1 .. N PROVE f[k] = Step(k, f[k - 1])
  <2>1. f[k - 1] \in S
    OBVIOUS
  <2>2. f[k] = step[<<k, f[k - 1]>>]
    BY <1>4 DEF Passes
  <2> QED
    BY <1>3, <2>1, <2>2
<1>7. ASSUME NEW k \in 0 .. N PROVE Good(k, f[k])
  <2>1. <<k, f[k]>> \in V
    BY <1>4 DEF Passes
  <2> QED
    BY <2>1
<1>8. Sha1Schedule(block) = f[N]
  <2> DEFINE Next1(after, k) ==
                IF k = 0 THEN block ELSE IF after[k - 1] = after[k - 1] THEN Step(k, after[k - 1]) ELSE block
             Solves(after) == after = [k \in 0 .. N |-> Next1(after, k)]
             after == CHOOSE x : Solves(x)
  <2>1. Sha1Schedule(block) = after[N]
    BY DEF N, Step, Sha1Schedule, Repeated
  <2>2. \E x : Solves(x)
    <3>1. ASSUME NEW k \in 0 .. N PROVE f[k] = Next1(f, k)
      <4>1. k # 0 => k \in 1 .. N
        OBVIOUS
      <4> QED
        BY <1>5, <1>6, <4>1
    <3>2. f = [k \in 0 .. N |-> f[k]]
      OBVIOUS
    <3>3. Solves(f)
      BY <3>1, <3>2
    <3> QED
      BY <3>3
  <2>3. Solves(after)
    <3> HIDE DEF Solves
    <3> QED
      BY <2>2
  <2> HIDE DEF after
  <2>4. Alike(f, after, N)
    <3>1. after[0] = f[0]
      BY <1>5, <2>3
    <3>2. ASSUME NEW k \in 1 .. N, f[k - 1] = after[k - 1] PROVE f[k] = after[k]
      <4>1. k \in 0 .. N /\ k # 0
        OBVIOUS
      <4> QED
        BY <1>6, <2>3, <3>2, <4>1
    <3> QED
      BY <3>1, <3>2 DEF Alike
  <2>5. N \in Nat /\ N \in 0 .. N
    OBVIOUS
  <2>6. f[N] = after[N]
    BY <2>4, <2>5, SameLoop
  <2> QED
    BY <2>1, <2>6
<1> QED
  BY <1>5, <1>6, <1>7, <1>8 DEF N, S, Step, Good

(* Choose, majority and parity, in the forms of the code.                *)
LEMMA ParityIs ==
    ASSUME NEW x \in Word, NEW y \in Word, NEW z \in Word
    PROVE  Parity(x, y, z) = Xor3(x, y, z) /\ Parity(x, y, z) \in Word
<1>1. ASSUME NEW b \in Bit PROVE b \in Xor3(x, y, z) <=> Ones(b, x, y, z) % 2 = 1
  <2>1. b \in Xor3(x, y, z) <=> ((b \in x) <=> ((b \in y) <=> (b \in z)))
    BY DEF Xor3, Xor2
  <2> QED
    BY <2>1 DEF Ones
<1>2. Xor3(x, y, z) \in Word
  BY Xor3Type
<1> QED
  BY <1>1, <1>2 DEF Parity, Word

LEMMA ChooseIs ==
    ASSUME NEW x \in Word, NEW y \in Word, NEW z \in Word
    PROVE  /\ Choose(x, y, z) \in Word
           /\ (x \cap y) \cup (Inverted(x) \cap z) = Choose(x, y, z)
           /\ Xor2(x \cap y, Inverted(x) \cap z) = Choose(x, y, z)
BY DEF Choose, Inverted, Xor2, Word

LEMMA MajorityIs ==
    ASSUME NEW x \in Word, NEW y \in Word, NEW z \in Word
    PROVE  /\ Majority(x, y, z) \in Word
           /\ (x \cap y) \cup (x \cap z) \cup (y \cap z) = Majority(x, y, z)
           /\ Xor3(x \cap y, x \cap z, y \cap z) = Majority(x, y, z)
<1>1. \A b \in Bit : Ones(b, x, y, z) >= 2
                        <=> (b \in x /\ b \in y) \/ (b \in x /\ b \in z) \/ (b \in y /\ b \in z)
  BY DEF Ones
<1> QED
  BY <1>1 DEF Majority, Xor3, Xor2, Word

LEMMA Sha1KType == ASSUME NEW i \in 0 .. 79 PROVE Sha1K(i) \in Word
<1>1. 1 + (i \div 20) \in 1 .. 4
  OBVIOUS
<1>2. ASSUME NEW a \in Word, NEW b \in Word, NEW c \in Word, NEW d \in Word, NEW j \in 1 .. 4
      PROVE  <<a, b, c, d>>[j] \in Word
  <2> j = 1 \/ j = 2 \/ j = 3 \/ j = 4
    OBVIOUS
  <2> QED
    OBVIOUS
<1> QED
  BY <1>1, <1>2, WType DEF Sha1K

LEMMA Sha256KType == ASSUME NEW i \in 1 .. 64 PROVE Sha256K[i] \in Word
<1>1. Sha256K \in Words(64)
  BY WType DEF Sha256K, Words
<1> QED
  BY <1>1 DEF Words

LEMMA Sha1FIs ==
    ASSUME NEW i \in 0 .. 79, NEW b \in Word, NEW c \in Word, NEW d \in Word
    PROVE  /\ Sha1F(i, b, c, d) \in Word
           /\ Sha1F(i, b, c, d) = CASE i \div 20 = 0 -> Choose(b, c, d)
                                    [] i \div 20 = 2 -> Majority(b, c, d)
                                    [] OTHER -> Parity(b, c, d)
<1>1. /\ i \div 20 = 0 <=> i < 20
      /\ i \div 20 = 2 <=> i >= 40 /\ i < 60
  OBVIOUS
<1>2. /\ (b \cap c) \cup (Inverted(b) \cap d) = Choose(b, c, d) /\ Choose(b, c, d) \in Word
      /\ (b \cap c) \cup (b \cap d) \cup (c \cap d) = Majority(b, c, d) /\ Majority(b, c, d) \in Word
      /\ Xor3(b, c, d) = Parity(b, c, d) /\ Parity(b, c, d) \in Word
  <2>1. /\ (b \cap c) \cup (Inverted(b) \cap d) = Choose(b, c, d)
        /\ Choose(b, c, d) \in Word
    BY ChooseIs
  <2>2. /\ (b \cap c) \cup (b \cap d) \cup (c \cap d) = Majority(b, c, d)
        /\ Majority(b, c, d) \in Word
    BY MajorityIs
  <2>3. Xor3(b, c, d) = Parity(b, c, d) /\ Parity(b, c, d) \in Word
    BY ParityIs
  <2> QED
    BY <2>1, <2>2, <2>3
<1> DEFINE choose == Choose(b, c, d)
           majority == Majority(b, c, d)
           parity == Parity(b, c, d)
<1>3. Sha1F(i, b, c, d) = IF i < 20 THEN choose ELSE IF i >= 40 /\ i < 60 THEN majority ELSE parity
  BY <1>2 DEF Sha1F
<1>4. choose \in Word /\ majority \in Word /\ parity \in Word
  BY <1>2
<1> HIDE DEF choose, majority, parity
<1>5. /\ Sha1F(i, b, c, d) \in Word
      /\ Sha1F(i, b, c, d) = CASE i \div 20 = 0 -> choose
                               [] i \div 20 = 2 -> majority
                               [] OTHER -> parity
  BY <1>1, <1>3, <1>4
<1> QED
  BY <1>5 DEF choose, majority, parity

LEMMA Sha1RoundType ==
    ASSUME NEW s \in Words(5), NEW w \in Words(80), NEW i \in 0 .. 79
    PROVE  Sha1Round(s, w, i) \in Words(5)
<1>1. s[1] \in Word /\ s[2] \in Word /\ s[3] \in Word /\ s[4] \in Word /\ s[5] \in Word
  BY DEF Words
<1>2. w[i + 1] \in Word /\ Sha1K(i) \in Word /\ Sha1F(i, s[2], s[3], s[4]) \in Word
  <2>1. i + 1 \in 1 .. 80
    OBVIOUS
  <2>2. w[i + 1] \in Word
    BY <2>1 DEF Words
  <2> QED
    BY <1>1, <2>2, Sha1KType, Sha1FIs
<1>3. Rotl(s[1], 5) \in Word /\ Rotl(s[2], 30) \in Word
  BY <1>1, RotlType
<1>4. Rotl(s[1], 5) ++ Sha1F(i, s[2], s[3], s[4]) ++ s[5] ++ Sha1K(i) ++ w[i + 1] \in Word
  BY <1>1, <1>2, <1>3, AddType
<1> QED
  BY <1>1, <1>3, <1>4, Five DEF Sha1Round

(* The 80 rounds.                                                        *)
LEMMA Sha1RoundsLoop ==
    ASSUME NEW h \in Words(5), NEW w \in Words(80)
    PROVE  \E f \in [0 .. 80 -> Words(5)] :
              /\ f[0] = h
              /\ \A k \in 1 .. 80 : f[k] = Sha1Round(f[k - 1], w, k - 1)
              /\ \A k \in 0 .. 80 : TRUE
              /\ Sha1Rounds(h, w) = f[80]
<1> DEFINE N == 80
           S == Words(5)
           Step(k, s) == Sha1Round(s, w, k - 1)
           step == [q \in (1 .. N) \X S |-> Step(q[1], q[2])]
           Good(k, s) == TRUE
           V == {q \in (0 .. N) \X S : Good(q[1], q[2])}
<1>1. h \in S /\ Good(0, h)
  OBVIOUS
<1>2. ASSUME NEW k \in 1 .. N, NEW s \in S, Good(k - 1, s)
      PROVE  Step(k, s) \in S /\ Good(k, Step(k, s))
  <2>1. k - 1 \in 0 .. 79 /\ s \in Words(5)
    BY <1>2
  <2> QED
    BY <2>1, Sha1RoundType
<1> N \in Nat
  BY DEF N
<1> HIDE DEF Step, Good, N, S
<1>3. \A k \in 1 .. N : \A s \in S : step[<<k, s>>] = Step(k, s)
  OBVIOUS
<1> HIDE DEF step
<1>4. PICK f \in [0 .. N -> S] : Passes(f, N, h, step, V)
  <2>1. ASSUME NEW k \in 1 .. N, NEW s \in S, <<k - 1, s>> \in V
        PROVE  step[<<k, s>>] \in S /\ <<k, step[<<k, s>>]>> \in V
    <3>1. k \in 0 .. N /\ Good(k - 1, s)
      BY <2>1
    <3> QED
      BY <1>2, <1>3, <3>1
  <2>2. <<0, h>> \in V
    BY <1>1
  <2>3. Stepping(N, S, h, step, V)
    BY <1>1, <2>1, <2>2 DEF Stepping
  <2> HIDE DEF V
  <2> QED
    BY <2>3, Loop
<1>5. f[0] = h
  BY <1>4 DEF Passes
<1>6. ASSUME NEW k \in 1 .. N PROVE f[k] = Step(k, f[k - 1])
  <2>1. f[k - 1] \in S
    OBVIOUS
  <2>2. f[k] = step[<<k, f[k - 1]>>]
    BY <1>4 DEF Passes
  <2> QED
    BY <1>3, <2>1, <2>2
<1>7. ASSUME NEW k \in 0 .. N PROVE Good(k, f[k])
  <2>1. <<k, f[k]>> \in V
    BY <1>4 DEF Passes
  <2> QED
    BY <2>1
<1>8. Sha1Rounds(h, w) = f[N]
  <2> DEFINE Next1(after, k) ==
                IF k = 0 THEN h ELSE IF after[k - 1] = after[k - 1] THEN Step(k, after[k - 1]) ELSE h
             Solves(after) == after = [k \in 0 .. N |-> Next1(after, k)]
             after == CHOOSE x : Solves(x)
  <2>1. Sha1Rounds(h, w) = after[N]
    BY DEF N, Step, Sha1Rounds, Repeated
  <2>2. \E x : Solves(x)
    <3>1. ASSUME NEW k \in 0 .. N PROVE f[k] = Next1(f, k)
      <4>1. k # 0 => k \in 1 .. N
        OBVIOUS
      <4> QED
        BY <1>5, <1>6, <4>1
    <3>2. f = [k \in 0 .. N |-> f[k]]
      OBVIOUS
    <3>3. Solves(f)
      BY <3>1, <3>2
    <3> QED
      BY <3>3
  <2>3. Solves(after)
    <3> HIDE DEF Solves
    <3> QED
      BY <2>2
  <2> HIDE DEF after
  <2>4. Alike(f, after, N)
    <3>1. after[0] = f[0]
      BY <1>5, <2>3
    <3>2. ASSUME NEW k \in 1 .. N, f[k - 1] = after[k - 1] PROVE f[k] = after[k]
      <4>1. k \in 0 .. N /\ k # 0
        OBVIOUS
      <4> QED
        BY <1>6, <2>3, <3>2, <4>1
    <3> QED
      BY <3>1, <3>2 DEF Alike
  <2>5. N \in Nat /\ N \in 0 .. N
    OBVIOUS
  <2>6. f[N] = after[N]
    BY <2>4, <2>5, SameLoop
  <2> QED
    BY <2>1, <2>6
<1> QED
  BY <1>5, <1>6, <1>7, <1>8 DEF N, S, Step, Good

Buffer == [0 .. 15 -> Word]
Run == [s : Words(5), words : Buffer]

LEMMA RewrittenType ==
    ASSUME NEW words \in Buffer, NEW t \in 0 .. 79
    PROVE  Rewritten(words, t) \in Buffer
<1>1. \A k \in 0 .. 15 : words[(t + k) % 16] \in Word
  BY DEF Buffer
<1>2. /\ words[(t + 13) % 16] \in Word /\ words[(t + 8) % 16] \in Word
      /\ words[(t + 2) % 16] \in Word /\ words[(t + 0) % 16] \in Word
  BY <1>1
<1> DEFINE x == Parity(Xor2(words[(t + 13) % 16], words[(t + 8) % 16]),
                       words[(t + 2) % 16], words[(t + 0) % 16])
<1>3. x \in Word
  BY <1>2, Xor2Type, ParityIs
<1> HIDE DEF x
<1>4. {(b + 1) % 32 : b \in x} \in Word
  BY <1>3, RotlType, BitNumbers DEF Rotl
<1> QED
  BY <1>4 DEF Rewritten, Buffer, x

LEMMA Rfc3174RoundType ==
    ASSUME NEW run \in Run, NEW t \in 0 .. 79
    PROVE  Rfc3174Round(run, t) \in Run
<1> DEFINE s == run.s
           words == Rewritten(run.words, t)
           f == CASE t \div 20 = 0 -> Choose(s[2], s[3], s[4])
                  [] t \div 20 = 2 -> Majority(s[2], s[3], s[4])
                  [] OTHER -> Parity(s[2], s[3], s[4])
<1>1. words \in Buffer /\ s \in Words(5)
  BY RewrittenType DEF Run
<1> HIDE DEF s, words
<1>2. s[1] \in Word /\ s[2] \in Word /\ s[3] \in Word /\ s[4] \in Word /\ s[5] \in Word
  BY <1>1 DEF Words
<1>3. f \in Word
  BY <1>2, Sha1FIs
<1> HIDE DEF f
<1>4. words[t % 16] \in Word
  BY <1>1 DEF Buffer
<1>5. Rotl(s[1], 5) \in Word /\ Rotl(s[2], 30) \in Word /\ Sha1K(t) \in Word
  BY <1>2, RotlType, Sha1KType
<1>6. (Rotl(s[1], 5) ++ f) ++ (s[5] ++ (words[t % 16] ++ Sha1K(t))) \in Word
  BY <1>2, <1>3, <1>4, <1>5, AddType
<1> DEFINE n == <<(Rotl(s[1], 5) ++ f) ++ (s[5] ++ (words[t % 16] ++ Sha1K(t))),
                  s[1], Rotl(s[2], 30), s[3], s[4]>>
<1>7. n \in Words(5)
  BY <1>2, <1>5, <1>6, Five
<1>8. Rfc3174Round(run, t) = [s |-> n, words |-> words]
  BY DEF Rfc3174Round, f, s, words
<1> HIDE DEF n
<1> QED
  BY <1>1, <1>7, <1>8 DEF Run

(* The same rounds with the words kept in place.                         *)
LEMMA Rfc3174Loop ==
    ASSUME NEW h \in Words(5), NEW words \in Buffer
    PROVE  \E f \in [0 .. 80 -> Run] :
              /\ f[0] = [s |-> h, words |-> words]
              /\ \A k \in 1 .. 80 : f[k] = Rfc3174Round(f[k - 1], k - 1)
              /\ \A k \in 0 .. 80 : TRUE
              /\ Rfc3174Rounds(h, words) = f[80]
<1> DEFINE N == 80
           S == Run
           Step(k, run) == Rfc3174Round(run, k - 1)
           step == [q \in (1 .. N) \X S |-> Step(q[1], q[2])]
           Good(k, run) == TRUE
           V == {q \in (0 .. N) \X S : Good(q[1], q[2])}
<1>1. [s |-> h, words |-> words] \in S /\ Good(0, [s |-> h, words |-> words])
  BY DEF Run
<1>2. ASSUME NEW k \in 1 .. N, NEW run \in S, Good(k - 1, run)
      PROVE  Step(k, run) \in S /\ Good(k, Step(k, run))
  <2>1. k - 1 \in 0 .. 79 /\ run \in Run
    BY <1>2
  <2> QED
    BY <2>1, Rfc3174RoundType
<1> N \in Nat
  BY DEF N
<1> HIDE DEF Step, Good, N, S
<1>3. \A k \in 1 .. N : \A run \in S : step[<<k, run>>] = Step(k, run)
  OBVIOUS
<1> HIDE DEF step
<1>4. PICK f \in [0 .. N -> S] : Passes(f, N, [s |-> h, words |-> words], step, V)
  <2>1. ASSUME NEW k \in 1 .. N, NEW run \in S, <<k - 1, run>> \in V
        PROVE  step[<<k, run>>] \in S /\ <<k, step[<<k, run>>]>> \in V
    <3>1. k \in 0 .. N /\ Good(k - 1, run)
      BY <2>1
    <3> QED
      BY <1>2, <1>3, <3>1
  <2>2. <<0, [s |-> h, words |-> words]>> \in V
    BY <1>1
  <2>3. Stepping(N, S, [s |-> h, words |-> words], step, V)
    BY <1>1, <2>1, <2>2 DEF Stepping
  <2> HIDE DEF V
  <2> QED
    BY <2>3, Loop
<1>5. f[0] = [s |-> h, words |-> words]
  BY <1>4 DEF Passes
<1>6. ASSUME NEW k \in 1 .. N PROVE f[k] = Step(k, f[k - 1])
  <2>1. f[k - 1] \in S
    OBVIOUS
  <2>2. f[k] = step[<<k, f[k - 1]>>]
    BY <1>4 DEF Passes
  <2> QED
    BY <1>3, <2>1, <2>2
<1>7. ASSUME NEW k \in 0 .. N PROVE Good(k, f[k])
  <2>1. <<k, f[k]>> \in V
    BY <1>4 DEF Passes
  <2> QED
    BY <2>1
<1>8. Rfc3174Rounds(h, words) = f[N]
  <2> DEFINE Next1(after, k) ==
                IF k = 0 THEN [s |-> h, words |-> words]
                ELSE IF after[k - 1] = after[k - 1] THEN Step(k, after[k - 1]) ELSE [s |-> h, words |-> words]
             Solves(after) == after = [k \in 0 .. N |-> Next1(after, k)]
             after == CHOOSE x : Solves(x)
  <2>1. Rfc3174Rounds(h, words) = after[N]
    BY DEF N, Step, Rfc3174Rounds, Repeated
  <2>2. \E x : Solves(x)
    <3>1. ASSUME NEW k \in 0 .. N PROVE f[k] = Next1(f, k)
      <4>1. k # 0 => k \in 1 .. N
        OBVIOUS
      <4> QED
        BY <1>5, <1>6, <4>1
    <3>2. f = [k \in 0 .. N |-> f[k]]
      OBVIOUS
    <3>3. Solves(f)
      BY <3>1, <3>2
    <3> QED
      BY <3>3
  <2>3. Solves(after)
    <3> HIDE DEF Solves
    <3> QED
      BY <2>2
  <2> HIDE DEF after
  <2>4. Alike(f, after, N)
    <3>1. after[0] = f[0]
      BY <1>5, <2>3
    <3>2. ASSUME NEW k \in 1 .. N, f[k - 1] = after[k - 1] PROVE f[k] = after[k]
      <4>1. k \in 0 .. N /\ k # 0
        OBVIOUS
      <4> QED
        BY <1>6, <2>3, <3>2, <4>1
    <3> QED
      BY <3>1, <3>2 DEF Alike
  <2>5. N \in Nat /\ N \in 0 .. N
    OBVIOUS
  <2>6. f[N] = after[N]
    BY <2>4, <2>5, SameLoop
  <2> QED
    BY <2>1, <2>6
<1> QED
  BY <1>5, <1>6, <1>7, <1>8 DEF N, S, Step, Good

(* Round t of the code and of the RFC.  The RFC keeps word j at j % 16.  *)
Keeps(words, w, t) ==
    \A j \in 0 .. 79 : j < t /\ t <= j + 16 => words[j % 16] = w[j + 1]

LEMMA RewrittenKeeps ==
    ASSUME NEW words \in Buffer, NEW w \in Words(80), NEW t \in 0 .. 79,
           \A i \in 17 .. 80 : w[i] = Sha1Word(w, i),
           Keeps(words, w, IF t < 16 THEN 16 ELSE t)
    PROVE  Keeps(Rewritten(words, t), w, IF t + 1 < 16 THEN 16 ELSE t + 1)
<1>1. CASE t < 16
  <2>1. Rewritten(words, t) = words /\ (IF t + 1 < 16 THEN 16 ELSE t + 1) = 16
    BY <1>1 DEF Rewritten
  <2> QED
    BY <1>1, <2>1
<1>2. CASE t >= 16
  <2> DEFINE x == Xor2(words[(t + 13) % 16], words[(t + 8) % 16])
             y == words[(t + 2) % 16]
             z == words[(t + 0) % 16]
             new == {(b + 1) % 32 : b \in Parity(x, y, z)}
  <2>1. Keeps(words, w, t)
    BY <1>2
  <2>2. /\ t - 3 \in 0 .. 79 /\ t - 8 \in 0 .. 79 /\ t - 14 \in 0 .. 79 /\ t - 16 \in 0 .. 79
        /\ (t + 13) % 16 = (t - 3) % 16 /\ (t + 8) % 16 = (t - 8) % 16
        /\ (t + 2) % 16 = (t - 14) % 16 /\ (t + 0) % 16 = (t - 16) % 16
    BY <1>2
  <2>3. /\ words[(t - 3) % 16] = w[(t - 3) + 1] /\ words[(t - 8) % 16] = w[(t - 8) + 1]
        /\ words[(t - 14) % 16] = w[(t - 14) + 1] /\ words[(t - 16) % 16] = w[(t - 16) + 1]
    BY <2>1, <2>2 DEF Keeps
  <2>4. /\ (t - 3) + 1 = (t + 1) - 3 /\ (t - 8) + 1 = (t + 1) - 8
        /\ (t - 14) + 1 = (t + 1) - 14 /\ (t - 16) + 1 = (t + 1) - 16
        /\ (t + 1) - 3 \in 1 .. 80 /\ (t + 1) - 8 \in 1 .. 80
        /\ (t + 1) - 14 \in 1 .. 80 /\ (t + 1) - 16 \in 1 .. 80
    BY <1>2
  <2>5. /\ x = Xor2(w[(t + 1) - 3], w[(t + 1) - 8])
        /\ y = w[(t + 1) - 14] /\ z = w[(t + 1) - 16]
    BY <2>2, <2>3, <2>4
  <2>6. /\ w[(t + 1) - 3] \in Word /\ w[(t + 1) - 8] \in Word
        /\ w[(t + 1) - 14] \in Word /\ w[(t + 1) - 16] \in Word
    BY <2>4 DEF Words
  <2>7. x \in Word /\ y \in Word /\ z \in Word
    BY <2>5, <2>6, Xor2Type
  <2>8. Parity(x, y, z) = Xor2(x, Xor2(y, z))
    BY <2>7, ParityIs DEF Xor3
  <2>9. new = w[t + 1]
    <3>1. w[t + 1] = Sha1Word(w, t + 1)
      BY <1>2
    <3>2. Sha1Word(w, t + 1) = Rotl(Xor2(x, Xor2(y, z)), 1)
      BY <2>5 DEF Sha1Word
    <3>3. new = Rotl(Parity(x, y, z), 1)
      BY BitNumbers DEF Rotl
    <3> QED
      BY <2>8, <3>1, <3>2, <3>3
  <2>10. Rewritten(words, t) = [words EXCEPT ![t % 16] = new]
    BY <1>2 DEF Rewritten
  <2> HIDE DEF x, y, z, new
  <2>11. ASSUME NEW j \in 0 .. 79, j < t + 1, t + 1 <= j + 16
         PROVE  Rewritten(words, t)[j % 16] = w[j + 1]
    <3>1. j % 16 \in 0 .. 15 /\ t % 16 \in 0 .. 15 /\ DOMAIN words = 0 .. 15
      BY DEF Buffer
    <3>2. CASE j = t
      BY <2>9, <2>10, <3>1, <3>2
    <3>3. CASE j # t
      <4>1. j % 16 # t % 16 /\ j < t /\ t <= j + 16
        BY <2>11, <3>3
      <4>2. words[j % 16] = w[j + 1]
        BY <2>1, <4>1 DEF Keeps
      <4> QED
        BY <2>10, <3>1, <4>1, <4>2
    <3> QED
      BY <3>2, <3>3
  <2>12. (IF t + 1 < 16 THEN 16 ELSE t + 1) = t + 1
    BY <1>2
  <2>13. Keeps(Rewritten(words, t), w, t + 1)
    BY <2>11 DEF Keeps
  <2> QED
    BY <2>12, <2>13
<1> QED
  BY <1>1, <1>2

LEMMA SumOfFive ==
    ASSUME NEW a \in Word, NEW f \in Word, NEW e \in Word, NEW k \in Word, NEW w \in Word
    PROVE  (a ++ f) ++ (e ++ (w ++ k)) = a ++ f ++ e ++ k ++ w
<1>1. w ++ k = k ++ w
  BY AddCommutes
<1>2. a ++ f \in Word /\ e ++ k \in Word /\ k ++ w \in Word
  BY AddType
<1>3. e ++ (k ++ w) = (e ++ k) ++ w
  BY AddAssociates
<1>4. (a ++ f) ++ ((e ++ k) ++ w) = ((a ++ f) ++ (e ++ k)) ++ w
  BY <1>2, AddAssociates
<1>5. (a ++ f) ++ (e ++ k) = ((a ++ f) ++ e) ++ k
  BY <1>2, AddAssociates
<1> QED
  BY <1>1, <1>3, <1>4, <1>5

LEMMA RoundsAgree ==
    ASSUME NEW run \in Run, NEW w \in Words(80), NEW t \in 0 .. 79,
           Keeps(Rewritten(run.words, t), w, IF t + 1 < 16 THEN 16 ELSE t + 1)
    PROVE  /\ Rfc3174Round(run, t).s = Sha1Round(run.s, w, t)
           /\ Rfc3174Round(run, t).words = Rewritten(run.words, t)
<1> DEFINE s == run.s
           words == Rewritten(run.words, t)
           f == CASE t \div 20 = 0 -> Choose(s[2], s[3], s[4])
                  [] t \div 20 = 2 -> Majority(s[2], s[3], s[4])
                  [] OTHER -> Parity(s[2], s[3], s[4])
           g == Sha1F(t, s[2], s[3], s[4])
<1>1. s \in Words(5)
  BY DEF Run
<1> HIDE DEF s
<1>2. s[1] \in Word /\ s[2] \in Word /\ s[3] \in Word /\ s[4] \in Word /\ s[5] \in Word
  BY <1>1 DEF Words
<1>3. f = g /\ g \in Word
  BY <1>2, Sha1FIs
<1> HIDE DEF words
<1>4. words[t % 16] = w[t + 1] /\ w[t + 1] \in Word
  <2>1. Keeps(words, w, IF t + 1 < 16 THEN 16 ELSE t + 1)
    BY DEF words
  <2>2. t + 1 \in 1 .. 80
    OBVIOUS
  <2> QED
    BY <2>1, <2>2 DEF Keeps, Words
<1>5. Rotl(s[1], 5) \in Word /\ Sha1K(t) \in Word
  BY <1>2, RotlType, Sha1KType
<1> HIDE DEF f
<1>6. Rfc3174Round(run, t) =
         [s |-> <<(Rotl(s[1], 5) ++ f) ++ (s[5] ++ (words[t % 16] ++ Sha1K(t))),
                  s[1], Rotl(s[2], 30), s[3], s[4]>>,
          words |-> words]
  BY DEF Rfc3174Round, f, s, words
<1>7. Sha1Round(s, w, t) =
         <<Rotl(s[1], 5) ++ g ++ s[5] ++ Sha1K(t) ++ w[t + 1], s[1], Rotl(s[2], 30), s[3], s[4]>>
  BY DEF Sha1Round
<1> HIDE DEF g
<1>8. (Rotl(s[1], 5) ++ f) ++ (s[5] ++ (words[t % 16] ++ Sha1K(t)))
         = Rotl(s[1], 5) ++ g ++ s[5] ++ Sha1K(t) ++ w[t + 1]
  <2>1. (Rotl(s[1], 5) ++ g) ++ (s[5] ++ (w[t + 1] ++ Sha1K(t)))
           = Rotl(s[1], 5) ++ g ++ s[5] ++ Sha1K(t) ++ w[t + 1]
    <3> DEFINE a == Rotl(s[1], 5)
               e == s[5]
               c == Sha1K(t)
               v == w[t + 1]
    <3>1. a \in Word /\ g \in Word /\ e \in Word /\ c \in Word /\ v \in Word
      BY <1>2, <1>3, <1>4, <1>5
    <3> HIDE DEF a, e, c, v
    <3>2. (a ++ g) ++ (e ++ (v ++ c)) = a ++ g ++ e ++ c ++ v
      BY <3>1, SumOfFive
    <3> QED
      BY <3>2 DEF a, e, c, v
  <2> QED
    BY <1>3, <1>4, <2>1
<1>9. Sha1Round(run.s, w, t) = Sha1Round(s, w, t) /\ Rewritten(run.words, t) = words
  BY DEF s, words
<1> QED
  BY <1>6, <1>7, <1>8, <1>9

LEMMA Sha1ScheduleIs ==
    ASSUME NEW block \in Words(16)
    PROVE  /\ Sha1Schedule(block) \in Words(80)
           /\ \A i \in 1 .. 16 : Sha1Schedule(block)[i] = block[i]
           /\ \A i \in 17 .. 80 : Sha1Schedule(block)[i] = Sha1Word(Sha1Schedule(block), i)
<1>1. PICK f \in [0 .. 64 -> Lists] :
         /\ f[0] = block
         /\ \A k \in 1 .. 64 : f[k] = Append(f[k - 1], Sha1Word(f[k - 1], 16 + k))
         /\ \A k \in 0 .. 64 : f[k] \in Sha1Words(block, 16 + k)
         /\ Sha1Schedule(block) = f[64]
  BY Sha1ScheduleLoop
<1> DEFINE w == Sha1Schedule(block)
<1>2. w \in Sha1Words(block, 80)
  <2>1. 64 \in 0 .. 64 /\ 16 + 64 = 80
    OBVIOUS
  <2> QED
    BY <1>1, <2>1
<1> HIDE DEF w
<1>3. /\ w \in Seq(Word) /\ Len(w) = 80
      /\ \A i \in 1 .. 16 : w[i] = block[i]
      /\ \A i \in 17 .. 80 : w[i] = Sha1Word(w, i)
  BY <1>2 DEF Sha1Words
<1>4. w \in Words(80)
  BY <1>3, SequencesAreWords
<1> QED
  BY <1>3, <1>4 DEF w

(* One block: the code and the RFC.                                      *)
LEMMA Sha1ChunkAgrees ==
    ASSUME NEW h \in Words(5), NEW block \in Words(16), NEW words \in Buffer,
           \A i \in 0 .. 15 : words[i] = block[i + 1]
    PROVE  Sha1Chunk(h, block) = Rfc3174(h, words) /\ Sha1Chunk(h, block) \in Words(5)
<1> DEFINE w == Sha1Schedule(block)
<1>1. /\ w \in Words(80) /\ \A i \in 1 .. 16 : w[i] = block[i]
      /\ \A i \in 17 .. 80 : w[i] = Sha1Word(w, i)
  BY Sha1ScheduleIs
<1> HIDE DEF w
<1>2. PICK f \in [0 .. 80 -> Words(5)] :
         /\ f[0] = h
         /\ \A k \in 1 .. 80 : f[k] = Sha1Round(f[k - 1], w, k - 1)
         /\ Sha1Rounds(h, w) = f[80]
  BY <1>1, Sha1RoundsLoop
<1>3. PICK r \in [0 .. 80 -> Run] :
         /\ r[0] = [s |-> h, words |-> words]
         /\ \A k \in 1 .. 80 : r[k] = Rfc3174Round(r[k - 1], k - 1)
         /\ Rfc3174Rounds(h, words) = r[80]
  BY Rfc3174Loop
<1> DEFINE Same(k) == r[k].s = f[k] /\ Keeps(r[k].words, w, IF k < 16 THEN 16 ELSE k)
<1>4. Same(0)
  <2>1. Keeps(words, w, 16)
    <3>1. ASSUME NEW j \in 0 .. 79, j < 16, 16 <= j + 16 PROVE words[j % 16] = w[j + 1]
      <4>1. j % 16 = j /\ j \in 0 .. 15 /\ j + 1 \in 1 .. 16
        BY <3>1
      <4> QED
        BY <1>1, <4>1
    <3> QED
      BY <3>1 DEF Keeps
  <2>2. r[0].s = h /\ r[0].words = words
    BY <1>3
  <2> QED
    BY <1>2, <2>1, <2>2
<1>5. ASSUME NEW k \in 1 .. 80, Same(k - 1) PROVE Same(k)
  <2> DEFINE run == r[k - 1]
             t == k - 1
  <2>1. run \in Run /\ t \in 0 .. 79 /\ t + 1 = k /\ r[k] = Rfc3174Round(run, t)
    BY <1>3
  <2>2. run.s = f[t] /\ Keeps(run.words, w, IF t < 16 THEN 16 ELSE t)
    BY <1>5
  <2>3. f[k] = Sha1Round(f[t], w, t)
    BY <1>2
  <2> HIDE DEF run, t
  <2>4. run.words \in Buffer
    BY <2>1 DEF Run
  <2>5. Keeps(Rewritten(run.words, t), w, IF t + 1 < 16 THEN 16 ELSE t + 1)
    BY <1>1, <2>1, <2>2, <2>4, RewrittenKeeps
  <2>6. /\ Rfc3174Round(run, t).s = Sha1Round(run.s, w, t)
        /\ Rfc3174Round(run, t).words = Rewritten(run.words, t)
    BY <1>1, <2>1, <2>5, RoundsAgree
  <2> QED
    BY <2>1, <2>2, <2>3, <2>5, <2>6
<1>6. r[80].s = f[80]
  <2> DEFINE T == {k \in 0 .. 80 : Same(k)}
  <2> HIDE DEF Same
  <2>1. 0 \in T
    BY <1>4
  <2>2. ASSUME NEW k \in 1 .. 80, k - 1 \in T PROVE k \in T
    <3>1. k \in 0 .. 80 /\ Same(k - 1)
      BY <2>2
    <3> QED
      BY <1>5, <3>1
  <2> HIDE DEF T
  <2>3. 0 .. 80 \subseteq T
    BY <2>1, <2>2, UpTo
  <2>4. 80 \in T
    BY <2>3
  <2> QED
    BY <2>4 DEF T, Same
<1>7. Sha1Chunk(h, block) = [i \in 1 .. 5 |-> h[i] ++ f[80][i]]
  BY <1>2 DEF Sha1Chunk, AddEach, Words, w
<1>8. Rfc3174(h, words) = [i \in 1 .. 5 |-> h[i] ++ r[80].s[i]]
  BY <1>3 DEF Rfc3174
<1>9. ASSUME NEW i \in 1 .. 5 PROVE h[i] ++ f[80][i] \in Word
  <2>1. f[80] \in Words(5)
    OBVIOUS
  <2>2. h[i] \in Word /\ f[80][i] \in Word
    BY <2>1 DEF Words
  <2> QED
    BY <2>2, AddType
<1> QED
  BY <1>6, <1>7, <1>8, <1>9 DEF Words

-----------------------------------------------------------------------------
(* SHA-256, block by block.                                              *)

LEMMA MovedIs ==
    ASSUME NEW x \in Word, NEW m \in 0 .. 32, NEW n \in 0 .. 32, NEW k \in Word
    PROVE  Xor3(Rotr(x, m), Rotr(x, n), k) = Moved(x, m, n, k) /\ Moved(x, m, n, k) \in Word
<1>1. Rotr(x, m) \in Word /\ Rotr(x, n) \in Word
  BY RotrType
<1> QED
  BY <1>1, ParityIs DEF Moved

LEMMA SumOfFour ==
    ASSUME NEW a \in Word, NEW b \in Word, NEW c \in Word, NEW d \in Word
    PROVE  (d ++ c) ++ (b ++ a) = a ++ b ++ c ++ d
<1>1. a ++ b \in Word /\ c ++ d \in Word /\ d ++ c = c ++ d /\ b ++ a = a ++ b
  BY AddType, AddCommutes
<1>2. (c ++ d) ++ (a ++ b) = (a ++ b) ++ (c ++ d)
  BY <1>1, AddCommutes
<1>3. (a ++ b) ++ (c ++ d) = ((a ++ b) ++ c) ++ d
  BY <1>1, AddAssociates
<1> QED
  BY <1>1, <1>2, <1>3

Extended(n) == {w \in Seq(Word) : Len(w) = n}

LEMMA Sha256WordIs ==
    ASSUME NEW n \in Nat, n >= 16, NEW w \in Extended(n)
    PROVE  Sha256Word(w, n + 1) = Fips180Word(w) /\ Fips180Word(w) \in Word
<1> DEFINE a == w[n + 1 - 16]
           x == w[n + 1 - 15]
           c == w[n + 1 - 7]
           y == w[n + 1 - 2]
           b == Xor3(Rotr(x, 7), Rotr(x, 18), Shr(x, 3))
           d == Xor3(Rotr(y, 17), Rotr(y, 19), Shr(y, 10))
<1>1. w \in Seq(Word) /\ Len(w) = n
  BY DEF Extended
<1>2. n + 1 - 16 \in 1 .. n /\ n + 1 - 15 \in 1 .. n /\ n + 1 - 7 \in 1 .. n /\ n + 1 - 2 \in 1 .. n
  OBVIOUS
<1>3. a \in Word /\ x \in Word /\ c \in Word /\ y \in Word
  BY <1>1, <1>2
<1>4. Sha256Word(w, n + 1) = a ++ b ++ c ++ d
  BY DEF Sha256Word
<1>5. Fips180Word(w) = (Moved(y, 17, 19, Shr(y, 10)) ++ c) ++ (Moved(x, 7, 18, Shr(x, 3)) ++ a)
  BY <1>1 DEF Fips180Word
<1> HIDE DEF a, x, c, y
<1>6. Shr(x, 3) \in Word /\ Shr(y, 10) \in Word
  BY <1>3, ShrType
<1>7. b = Moved(x, 7, 18, Shr(x, 3)) /\ b \in Word
  BY <1>3, <1>6, MovedIs
<1>8. d = Moved(y, 17, 19, Shr(y, 10)) /\ d \in Word
  BY <1>3, <1>6, MovedIs
<1> HIDE DEF b, d
<1>9. (d ++ c) ++ (b ++ a) = a ++ b ++ c ++ d
  BY <1>3, <1>7, <1>8, SumOfFour
<1>10. a ++ b \in Word /\ c \in Word /\ d \in Word
  BY <1>3, <1>7, <1>8, AddType
<1>11. a ++ b ++ c \in Word
  BY <1>10, AddType
<1>12. a ++ b ++ c ++ d \in Word
  BY <1>10, <1>11, AddType
<1> QED
  BY <1>4, <1>5, <1>7, <1>8, <1>9, <1>12

LEMMA ExtendedOnce ==
    ASSUME NEW n \in Nat, n >= 16, NEW w \in Extended(n)
    PROVE  Append(w, Fips180Word(w)) \in Extended(n + 1)
<1>1. Fips180Word(w) \in Word
  BY Sha256WordIs
<1>2. w \in Seq(Word) /\ Len(w) = n
  BY DEF Extended
<1> QED
  BY <1>1, <1>2, Appended DEF Extended

LEMMA WordsExtended == ASSUME NEW n \in Nat PROVE Words(n) = Extended(n)
<1>1. ASSUME NEW w \in Words(n) PROVE w \in Extended(n)
  BY <1>1, WordsAreSequences DEF Extended
<1>2. ASSUME NEW w \in Extended(n) PROVE w \in Words(n)
  BY <1>2, SequencesAreWords DEF Extended
<1> QED
  BY <1>1, <1>2

(* The 64 words of a block, of the code.                                 *)
LEMMA Sha256ScheduleLoop ==
    ASSUME NEW block \in Words(16)
    PROVE  \E f \in [0 .. 48 -> Lists] :
              /\ f[0] = block
              /\ \A k \in 1 .. 48 : f[k] = Append(f[k - 1], Sha256Word(f[k - 1], 16 + k))
              /\ \A k \in 0 .. 48 : f[k] \in Extended(16 + k)
              /\ Sha256Schedule(block) = f[48]
<1> DEFINE N == 48
           S == Lists
           Step(k, w) == Append(w, Sha256Word(w, 16 + k))
           step == [q \in (1 .. N) \X S |-> Step(q[1], q[2])]
           Good(k, w) == w \in Extended(16 + k)
           V == {q \in (0 .. N) \X S : Good(q[1], q[2])}
<1>1. block \in S /\ Good(0, block)
  <2>1. 16 \in Nat /\ 16 + 0 = 16
    OBVIOUS
  <2>2. block \in Extended(16)
    BY <2>1, WordsExtended
  <2> QED
    BY <2>1, <2>2 DEF Extended, Lists
<1>2. ASSUME NEW k \in 1 .. N, NEW w \in S, Good(k - 1, w)
      PROVE  Step(k, w) \in S /\ Good(k, Step(k, w))
  <2>1. 15 + k \in Nat /\ 15 + k >= 16 /\ (15 + k) + 1 = 16 + k /\ 16 + (k - 1) = 15 + k
    OBVIOUS
  <2>2. w \in Extended(15 + k)
    BY <1>2, <2>1
  <2>3. Sha256Word(w, 16 + k) = Fips180Word(w)
    BY <2>1, <2>2, Sha256WordIs
  <2>4. Append(w, Fips180Word(w)) \in Extended(16 + k)
    BY <2>1, <2>2, ExtendedOnce
  <2> QED
    BY <2>3, <2>4 DEF Extended, Lists
<1> N \in Nat
  BY DEF N
<1> HIDE DEF Step, Good, N, S
<1>3. \A k \in 1 .. N : \A w \in S : step[<<k, w>>] = Step(k, w)
  OBVIOUS
<1> HIDE DEF step
<1>4. PICK f \in [0 .. N -> S] : Passes(f, N, block, step, V)
  <2>1. ASSUME NEW k \in 1 .. N, NEW w \in S, <<k - 1, w>> \in V
        PROVE  step[<<k, w>>] \in S /\ <<k, step[<<k, w>>]>> \in V
    <3>1. k \in 0 .. N /\ Good(k - 1, w)
      BY <2>1
    <3> QED
      BY <1>2, <1>3, <3>1
  <2>2. <<0, block>> \in V
    BY <1>1
  <2>3. Stepping(N, S, block, step, V)
    BY <1>1, <2>1, <2>2 DEF Stepping
  <2> HIDE DEF V
  <2> QED
    BY <2>3, Loop
<1>5. f[0] = block
  BY <1>4 DEF Passes
<1>6. ASSUME NEW k \in 1 .. N PROVE f[k] = Step(k, f[k - 1])
  <2>1. f[k - 1] \in S
    OBVIOUS
  <2>2. f[k] = step[<<k, f[k - 1]>>]
    BY <1>4 DEF Passes
  <2> QED
    BY <1>3, <2>1, <2>2
<1>7. ASSUME NEW k \in 0 .. N PROVE Good(k, f[k])
  <2>1. <<k, f[k]>> \in V
    BY <1>4 DEF Passes
  <2> QED
    BY <2>1
<1>8. Sha256Schedule(block) = f[N]
  <2> DEFINE Next1(after, k) ==
                IF k = 0 THEN block ELSE IF after[k - 1] = after[k - 1] THEN Step(k, after[k - 1]) ELSE block
             Solves(after) == after = [k \in 0 .. N |-> Next1(after, k)]
             after == CHOOSE x : Solves(x)
  <2>1. Sha256Schedule(block) = after[N]
    BY DEF N, Step, Sha256Schedule, Repeated
  <2>2. \E x : Solves(x)
    <3>1. ASSUME NEW k \in 0 .. N PROVE f[k] = Next1(f, k)
      <4>1. k # 0 => k \in 1 .. N
        OBVIOUS
      <4> QED
        BY <1>5, <1>6, <4>1
    <3>2. f = [k \in 0 .. N |-> f[k]]
      OBVIOUS
    <3>3. Solves(f)
      BY <3>1, <3>2
    <3> QED
      BY <3>3
  <2>3. Solves(after)
    <3> HIDE DEF Solves
    <3> QED
      BY <2>2
  <2> HIDE DEF after
  <2>4. Alike(f, after, N)
    <3>1. after[0] = f[0]
      BY <1>5, <2>3
    <3>2. ASSUME NEW k \in 1 .. N, f[k - 1] = after[k - 1] PROVE f[k] = after[k]
      <4>1. k \in 0 .. N /\ k # 0
        OBVIOUS
      <4> QED
        BY <1>6, <2>3, <3>2, <4>1
    <3> QED
      BY <3>1, <3>2 DEF Alike
  <2>5. N \in Nat /\ N \in 0 .. N
    OBVIOUS
  <2>6. f[N] = after[N]
    BY <2>4, <2>5, SameLoop
  <2> QED
    BY <2>1, <2>6
<1> QED
  BY <1>5, <1>6, <1>7, <1>8 DEF N, S, Step, Good

(* And of the standard.                                                  *)
LEMMA Fips180WordsLoop ==
    ASSUME NEW block \in Words(16)
    PROVE  \E f \in [0 .. 48 -> Lists] :
              /\ f[0] = block
              /\ \A k \in 1 .. 48 : f[k] = Append(f[k - 1], Fips180Word(f[k - 1]))
              /\ \A k \in 0 .. 48 : f[k] \in Extended(16 + k)
              /\ Fips180Words(block) = f[48]
<1> DEFINE N == 48
           S == Lists
           Step(k, w) == Append(w, Fips180Word(w))
           step == [q \in (1 .. N) \X S |-> Step(q[1], q[2])]
           Good(k, w) == w \in Extended(16 + k)
           V == {q \in (0 .. N) \X S : Good(q[1], q[2])}
<1>1. block \in S /\ Good(0, block)
  <2>1. 16 \in Nat /\ 16 + 0 = 16
    OBVIOUS
  <2>2. block \in Extended(16)
    BY <2>1, WordsExtended
  <2> QED
    BY <2>1, <2>2 DEF Extended, Lists
<1>2. ASSUME NEW k \in 1 .. N, NEW w \in S, Good(k - 1, w)
      PROVE  Step(k, w) \in S /\ Good(k, Step(k, w))
  <2>1. 15 + k \in Nat /\ 15 + k >= 16 /\ (15 + k) + 1 = 16 + k /\ 16 + (k - 1) = 15 + k
    OBVIOUS
  <2>2. w \in Extended(15 + k)
    BY <1>2, <2>1
  <2>3. TRUE
    BY <2>1, <2>2, Sha256WordIs
  <2>4. Append(w, Fips180Word(w)) \in Extended(16 + k)
    BY <2>1, <2>2, ExtendedOnce
  <2> QED
    BY <2>3, <2>4 DEF Extended, Lists
<1> N \in Nat
  BY DEF N
<1> HIDE DEF Step, Good, N, S
<1>3. \A k \in 1 .. N : \A w \in S : step[<<k, w>>] = Step(k, w)
  OBVIOUS
<1> HIDE DEF step
<1>4. PICK f \in [0 .. N -> S] : Passes(f, N, block, step, V)
  <2>1. ASSUME NEW k \in 1 .. N, NEW w \in S, <<k - 1, w>> \in V
        PROVE  step[<<k, w>>] \in S /\ <<k, step[<<k, w>>]>> \in V
    <3>1. k \in 0 .. N /\ Good(k - 1, w)
      BY <2>1
    <3> QED
      BY <1>2, <1>3, <3>1
  <2>2. <<0, block>> \in V
    BY <1>1
  <2>3. Stepping(N, S, block, step, V)
    BY <1>1, <2>1, <2>2 DEF Stepping
  <2> HIDE DEF V
  <2> QED
    BY <2>3, Loop
<1>5. f[0] = block
  BY <1>4 DEF Passes
<1>6. ASSUME NEW k \in 1 .. N PROVE f[k] = Step(k, f[k - 1])
  <2>1. f[k - 1] \in S
    OBVIOUS
  <2>2. f[k] = step[<<k, f[k - 1]>>]
    BY <1>4 DEF Passes
  <2> QED
    BY <1>3, <2>1, <2>2
<1>7. ASSUME NEW k \in 0 .. N PROVE Good(k, f[k])
  <2>1. <<k, f[k]>> \in V
    BY <1>4 DEF Passes
  <2> QED
    BY <2>1
<1>8. Fips180Words(block) = f[N]
  <2> DEFINE Next1(after, k) ==
                IF k = 0 THEN block ELSE IF after[k - 1] = after[k - 1] THEN Step(k, after[k - 1]) ELSE block
             Solves(after) == after = [k \in 0 .. N |-> Next1(after, k)]
             after == CHOOSE x : Solves(x)
  <2>1. Fips180Words(block) = after[N]
    BY DEF N, Step, Fips180Words, Repeated
  <2>2. \E x : Solves(x)
    <3>1. ASSUME NEW k \in 0 .. N PROVE f[k] = Next1(f, k)
      <4>1. k # 0 => k \in 1 .. N
        OBVIOUS
      <4> QED
        BY <1>5, <1>6, <4>1
    <3>2. f = [k \in 0 .. N |-> f[k]]
      OBVIOUS
    <3>3. Solves(f)
      BY <3>1, <3>2
    <3> QED
      BY <3>3
  <2>3. Solves(after)
    <3> HIDE DEF Solves
    <3> QED
      BY <2>2
  <2> HIDE DEF after
  <2>4. Alike(f, after, N)
    <3>1. after[0] = f[0]
      BY <1>5, <2>3
    <3>2. ASSUME NEW k \in 1 .. N, f[k - 1] = after[k - 1] PROVE f[k] = after[k]
      <4>1. k \in 0 .. N /\ k # 0
        OBVIOUS
      <4> QED
        BY <1>6, <2>3, <3>2, <4>1
    <3> QED
      BY <3>1, <3>2 DEF Alike
  <2>5. N \in Nat /\ N \in 0 .. N
    OBVIOUS
  <2>6. f[N] = after[N]
    BY <2>4, <2>5, SameLoop
  <2> QED
    BY <2>1, <2>6
<1> QED
  BY <1>5, <1>6, <1>7, <1>8 DEF N, S, Step, Good

LEMMA SchedulesAgree ==
    ASSUME NEW block \in Words(16)
    PROVE  Sha256Schedule(block) = Fips180Words(block) /\ Fips180Words(block) \in Words(64)
<1>1. PICK f \in [0 .. 48 -> Lists] :
         /\ f[0] = block
         /\ \A k \in 1 .. 48 : f[k] = Append(f[k - 1], Sha256Word(f[k - 1], 16 + k))
         /\ \A k \in 0 .. 48 : f[k] \in Extended(16 + k)
         /\ Sha256Schedule(block) = f[48]
  BY Sha256ScheduleLoop
<1>2. PICK g \in [0 .. 48 -> Lists] :
         /\ g[0] = block
         /\ \A k \in 1 .. 48 : g[k] = Append(g[k - 1], Fips180Word(g[k - 1]))
         /\ \A k \in 0 .. 48 : g[k] \in Extended(16 + k)
         /\ Fips180Words(block) = g[48]
  BY Fips180WordsLoop
<1>3. ASSUME NEW k \in 1 .. 48, f[k - 1] = g[k - 1] PROVE f[k] = g[k]
  <2>1. 15 + k \in Nat /\ 15 + k >= 16 /\ (15 + k) + 1 = 16 + k /\ 16 + (k - 1) = 15 + k /\ k - 1 \in 0 .. 48
    OBVIOUS
  <2>2. f[k - 1] \in Extended(15 + k)
    BY <1>1, <2>1
  <2>3. Sha256Word(f[k - 1], 16 + k) = Fips180Word(f[k - 1])
    BY <2>1, <2>2, Sha256WordIs
  <2> QED
    BY <1>1, <1>2, <1>3, <2>3
<1>4. 48 \in Nat /\ 48 \in 0 .. 48 /\ 64 \in Nat /\ 16 + 48 = 64
  OBVIOUS
<1>5. Alike(f, g, 48)
  BY <1>1, <1>2, <1>3 DEF Alike
<1>6. f[48] = g[48]
  BY <1>4, <1>5, SameLoop
<1>7. g[48] \in Words(64)
  BY <1>2, <1>4, WordsExtended
<1> QED
  BY <1>1, <1>2, <1>6, <1>7

LEMMA Sha256RoundIs ==
    ASSUME NEW s \in Words(8), NEW w \in Words(64), NEW t \in 1 .. 64
    PROVE  Sha256Round(s, w, t) = Fips180Round(s, w, t) /\ Fips180Round(s, w, t) \in Words(8)
<1> DEFINE a == s[8]
           s1 == Xor3(Rotr(s[5], 6), Rotr(s[5], 11), Rotr(s[5], 25))
           ch == Xor2(s[5] \cap s[6], Inverted(s[5]) \cap s[7])
           s0 == Xor3(Rotr(s[1], 2), Rotr(s[1], 13), Rotr(s[1], 22))
           maj == Xor3(s[1] \cap s[2], s[1] \cap s[3], s[2] \cap s[3])
           c == Sha256K[t]
           v == w[t]
           temp1 == a ++ s1 ++ ch ++ c ++ v
           one == ((a ++ s1) ++ (ch ++ c)) ++ v
<1>1. /\ s[1] \in Word /\ s[2] \in Word /\ s[3] \in Word /\ s[4] \in Word
      /\ s[5] \in Word /\ s[6] \in Word /\ s[7] \in Word /\ s[8] \in Word
      /\ w[t] \in Word /\ Sha256K[t] \in Word
  BY Sha256KType DEF Words
<1>2. /\ Rotr(s[5], 25) \in Word /\ Rotr(s[1], 22) \in Word
  BY <1>1, RotrType
<1>3. s1 = Moved(s[5], 6, 11, Rotr(s[5], 25)) /\ s1 \in Word
  BY <1>1, <1>2, MovedIs
<1>4. s0 = Moved(s[1], 2, 13, Rotr(s[1], 22)) /\ s0 \in Word
  BY <1>1, <1>2, MovedIs
<1>5. ch = Choose(s[5], s[6], s[7]) /\ ch \in Word
  <2> DEFINE x == s[5]
             y == s[6]
             z == s[7]
  <2>1. x \in Word /\ y \in Word /\ z \in Word
    BY <1>1
  <2> HIDE DEF x, y, z
  <2>2. Xor2(x \cap y, Inverted(x) \cap z) = Choose(x, y, z) /\ Choose(x, y, z) \in Word
    BY <2>1, ChooseIs
  <2> QED
    BY <2>2 DEF x, y, z
<1>6. maj = Majority(s[1], s[2], s[3]) /\ maj \in Word
  <2> DEFINE x == s[1]
             y == s[2]
             z == s[3]
  <2>1. x \in Word /\ y \in Word /\ z \in Word
    BY <1>1
  <2> HIDE DEF x, y, z
  <2>2. Xor3(x \cap y, x \cap z, y \cap z) = Majority(x, y, z) /\ Majority(x, y, z) \in Word
    BY <2>1, MajorityIs
  <2> QED
    BY <2>2 DEF x, y, z
<1>7. Sha256Round(s, w, t) =
         <<temp1 ++ (s0 ++ maj), s[1], s[2], s[3], s[4] ++ temp1, s[5], s[6], s[7]>>
  BY DEF Sha256Round
<1> HIDE DEF s1, s0, ch, maj
<1>8. Fips180Round(s, w, t) =
         <<one ++ (s0 ++ maj), s[1], s[2], s[3], s[4] ++ one, s[5], s[6], s[7]>>
  BY <1>3, <1>4, <1>5, <1>6 DEF Fips180Round
<1>9. a \in Word /\ c \in Word /\ v \in Word
  BY <1>1
<1> HIDE DEF a, c, v
<1>10. temp1 = one /\ one \in Word
  <2>1. a ++ s1 \in Word /\ ch ++ c \in Word
    BY <1>3, <1>5, <1>9, AddType
  <2>2. (a ++ s1) ++ (ch ++ c) = ((a ++ s1) ++ ch) ++ c /\ (a ++ s1) ++ (ch ++ c) \in Word
    BY <1>5, <1>9, <2>1, AddAssociates, AddType
  <2> QED
    BY <1>9, <2>2, AddType
<1> HIDE DEF temp1, one
<1>11. s0 ++ maj \in Word /\ s[4] ++ one \in Word
  BY <1>1, <1>4, <1>6, <1>10, AddType
<1>12. one ++ (s0 ++ maj) \in Word
  BY <1>10, <1>11, AddType
<1>13. Fips180Round(s, w, t) \in Words(8)
  <2> DEFINE p == one ++ (s0 ++ maj)
             q == s[4] ++ one
  <2>1. p \in Word /\ q \in Word
    BY <1>11, <1>12
  <2> HIDE DEF p, q
  <2>2. <<p, s[1], s[2], s[3], q, s[5], s[6], s[7]>> \in Words(8)
    BY <1>1, <2>1, Eight
  <2> QED
    BY <1>8, <2>2 DEF p, q
<1> QED
  BY <1>7, <1>8, <1>10, <1>13

(* The 64 rounds, of the code.                                           *)
LEMMA Sha256RoundsLoop ==
    ASSUME NEW h \in Words(8), NEW w \in Words(64)
    PROVE  \E f \in [0 .. 64 -> Words(8)] :
              /\ f[0] = h
              /\ \A k \in 1 .. 64 : f[k] = Sha256Round(f[k - 1], w, k)
              /\ \A k \in 0 .. 64 : TRUE
              /\ Sha256Rounds(h, w) = f[64]
<1> DEFINE N == 64
           S == Words(8)
           Step(k, s) == Sha256Round(s, w, k)
           step == [q \in (1 .. N) \X S |-> Step(q[1], q[2])]
           Good(k, s) == TRUE
           V == {q \in (0 .. N) \X S : Good(q[1], q[2])}
<1>1. h \in S /\ Good(0, h)
  OBVIOUS
<1>2. ASSUME NEW k \in 1 .. N, NEW s \in S, Good(k - 1, s)
      PROVE  Step(k, s) \in S /\ Good(k, Step(k, s))
  BY Sha256RoundIs
<1> N \in Nat
  BY DEF N
<1> HIDE DEF Step, Good, N, S
<1>3. \A k \in 1 .. N : \A s \in S : step[<<k, s>>] = Step(k, s)
  OBVIOUS
<1> HIDE DEF step
<1>4. PICK f \in [0 .. N -> S] : Passes(f, N, h, step, V)
  <2>1. ASSUME NEW k \in 1 .. N, NEW s \in S, <<k - 1, s>> \in V
        PROVE  step[<<k, s>>] \in S /\ <<k, step[<<k, s>>]>> \in V
    <3>1. k \in 0 .. N /\ Good(k - 1, s)
      BY <2>1
    <3> QED
      BY <1>2, <1>3, <3>1
  <2>2. <<0, h>> \in V
    BY <1>1
  <2>3. Stepping(N, S, h, step, V)
    BY <1>1, <2>1, <2>2 DEF Stepping
  <2> HIDE DEF V
  <2> QED
    BY <2>3, Loop
<1>5. f[0] = h
  BY <1>4 DEF Passes
<1>6. ASSUME NEW k \in 1 .. N PROVE f[k] = Step(k, f[k - 1])
  <2>1. f[k - 1] \in S
    OBVIOUS
  <2>2. f[k] = step[<<k, f[k - 1]>>]
    BY <1>4 DEF Passes
  <2> QED
    BY <1>3, <2>1, <2>2
<1>7. ASSUME NEW k \in 0 .. N PROVE Good(k, f[k])
  <2>1. <<k, f[k]>> \in V
    BY <1>4 DEF Passes
  <2> QED
    BY <2>1
<1>8. Sha256Rounds(h, w) = f[N]
  <2> DEFINE Next1(after, k) ==
                IF k = 0 THEN h ELSE IF after[k - 1] = after[k - 1] THEN Step(k, after[k - 1]) ELSE h
             Solves(after) == after = [k \in 0 .. N |-> Next1(after, k)]
             after == CHOOSE x : Solves(x)
  <2>1. Sha256Rounds(h, w) = after[N]
    BY DEF N, Step, Sha256Rounds, Repeated
  <2>2. \E x : Solves(x)
    <3>1. ASSUME NEW k \in 0 .. N PROVE f[k] = Next1(f, k)
      <4>1. k # 0 => k \in 1 .. N
        OBVIOUS
      <4> QED
        BY <1>5, <1>6, <4>1
    <3>2. f = [k \in 0 .. N |-> f[k]]
      OBVIOUS
    <3>3. Solves(f)
      BY <3>1, <3>2
    <3> QED
      BY <3>3
  <2>3. Solves(after)
    <3> HIDE DEF Solves
    <3> QED
      BY <2>2
  <2> HIDE DEF after
  <2>4. Alike(f, after, N)
    <3>1. after[0] = f[0]
      BY <1>5, <2>3
    <3>2. ASSUME NEW k \in 1 .. N, f[k - 1] = after[k - 1] PROVE f[k] = after[k]
      <4>1. k \in 0 .. N /\ k # 0
        OBVIOUS
      <4> QED
        BY <1>6, <2>3, <3>2, <4>1
    <3> QED
      BY <3>1, <3>2 DEF Alike
  <2>5. N \in Nat /\ N \in 0 .. N
    OBVIOUS
  <2>6. f[N] = after[N]
    BY <2>4, <2>5, SameLoop
  <2> QED
    BY <2>1, <2>6
<1> QED
  BY <1>5, <1>6, <1>7, <1>8 DEF N, S, Step, Good

(* And of the standard.                                                  *)
LEMMA Fips180RoundsLoop ==
    ASSUME NEW h \in Words(8), NEW w \in Words(64)
    PROVE  \E f \in [0 .. 64 -> Words(8)] :
              /\ f[0] = h
              /\ \A k \in 1 .. 64 : f[k] = Fips180Round(f[k - 1], w, k)
              /\ \A k \in 0 .. 64 : TRUE
              /\ Fips180Rounds(h, w) = f[64]
<1> DEFINE N == 64
           S == Words(8)
           Step(k, s) == Fips180Round(s, w, k)
           step == [q \in (1 .. N) \X S |-> Step(q[1], q[2])]
           Good(k, s) == TRUE
           V == {q \in (0 .. N) \X S : Good(q[1], q[2])}
<1>1. h \in S /\ Good(0, h)
  OBVIOUS
<1>2. ASSUME NEW k \in 1 .. N, NEW s \in S, Good(k - 1, s)
      PROVE  Step(k, s) \in S /\ Good(k, Step(k, s))
  BY Sha256RoundIs
<1> N \in Nat
  BY DEF N
<1> HIDE DEF Step, Good, N, S
<1>3. \A k \in 1 .. N : \A s \in S : step[<<k, s>>] = Step(k, s)
  OBVIOUS
<1> HIDE DEF step
<1>4. PICK f \in [0 .. N -> S] : Passes(f, N, h, step, V)
  <2>1. ASSUME NEW k \in 1 .. N, NEW s \in S, <<k - 1, s>> \in V
        PROVE  step[<<k, s>>] \in S /\ <<k, step[<<k, s>>]>> \in V
    <3>1. k \in 0 .. N /\ Good(k - 1, s)
      BY <2>1
    <3> QED
      BY <1>2, <1>3, <3>1
  <2>2. <<0, h>> \in V
    BY <1>1
  <2>3. Stepping(N, S, h, step, V)
    BY <1>1, <2>1, <2>2 DEF Stepping
  <2> HIDE DEF V
  <2> QED
    BY <2>3, Loop
<1>5. f[0] = h
  BY <1>4 DEF Passes
<1>6. ASSUME NEW k \in 1 .. N PROVE f[k] = Step(k, f[k - 1])
  <2>1. f[k - 1] \in S
    OBVIOUS
  <2>2. f[k] = step[<<k, f[k - 1]>>]
    BY <1>4 DEF Passes
  <2> QED
    BY <1>3, <2>1, <2>2
<1>7. ASSUME NEW k \in 0 .. N PROVE Good(k, f[k])
  <2>1. <<k, f[k]>> \in V
    BY <1>4 DEF Passes
  <2> QED
    BY <2>1
<1>8. Fips180Rounds(h, w) = f[N]
  <2> DEFINE Next1(after, k) ==
                IF k = 0 THEN h ELSE IF after[k - 1] = after[k - 1] THEN Step(k, after[k - 1]) ELSE h
             Solves(after) == after = [k \in 0 .. N |-> Next1(after, k)]
             after == CHOOSE x : Solves(x)
  <2>1. Fips180Rounds(h, w) = after[N]
    BY DEF N, Step, Fips180Rounds, Repeated
  <2>2. \E x : Solves(x)
    <3>1. ASSUME NEW k \in 0 .. N PROVE f[k] = Next1(f, k)
      <4>1. k # 0 => k \in 1 .. N
        OBVIOUS
      <4> QED
        BY <1>5, <1>6, <4>1
    <3>2. f = [k \in 0 .. N |-> f[k]]
      OBVIOUS
    <3>3. Solves(f)
      BY <3>1, <3>2
    <3> QED
      BY <3>3
  <2>3. Solves(after)
    <3> HIDE DEF Solves
    <3> QED
      BY <2>2
  <2> HIDE DEF after
  <2>4. Alike(f, after, N)
    <3>1. after[0] = f[0]
      BY <1>5, <2>3
    <3>2. ASSUME NEW k \in 1 .. N, f[k - 1] = after[k - 1] PROVE f[k] = after[k]
      <4>1. k \in 0 .. N /\ k # 0
        OBVIOUS
      <4> QED
        BY <1>6, <2>3, <3>2, <4>1
    <3> QED
      BY <3>1, <3>2 DEF Alike
  <2>5. N \in Nat /\ N \in 0 .. N
    OBVIOUS
  <2>6. f[N] = after[N]
    BY <2>4, <2>5, SameLoop
  <2> QED
    BY <2>1, <2>6
<1> QED
  BY <1>5, <1>6, <1>7, <1>8 DEF N, S, Step, Good

(* One block: the code and the standard.                                 *)
LEMMA Sha256ChunkAgrees ==
    ASSUME NEW h \in Words(8), NEW block \in Words(16)
    PROVE  Sha256Chunk(h, block) = Fips180(h, block) /\ Sha256Chunk(h, block) \in Words(8)
<1> DEFINE w == Sha256Schedule(block)
<1>1. w = Fips180Words(block) /\ w \in Words(64)
  BY SchedulesAgree
<1> HIDE DEF w
<1>2. PICK f \in [0 .. 64 -> Words(8)] :
         /\ f[0] = h
         /\ \A k \in 1 .. 64 : f[k] = Sha256Round(f[k - 1], w, k)
         /\ Sha256Rounds(h, w) = f[64]
  BY <1>1, Sha256RoundsLoop
<1>3. PICK g \in [0 .. 64 -> Words(8)] :
         /\ g[0] = h
         /\ \A k \in 1 .. 64 : g[k] = Fips180Round(g[k - 1], w, k)
         /\ Fips180Rounds(h, w) = g[64]
  BY <1>1, Fips180RoundsLoop
<1>4. ASSUME NEW k \in 1 .. 64, f[k - 1] = g[k - 1] PROVE f[k] = g[k]
  <2>1. f[k - 1] \in Words(8)
    OBVIOUS
  <2>2. Sha256Round(f[k - 1], w, k) = Fips180Round(f[k - 1], w, k)
    BY <1>1, <2>1, Sha256RoundIs
  <2> QED
    BY <1>2, <1>3, <1>4, <2>2
<1>5. 64 \in Nat /\ 64 \in 0 .. 64
  OBVIOUS
<1>6. Alike(f, g, 64)
  BY <1>2, <1>3, <1>4 DEF Alike
<1>7. f[64] = g[64]
  BY <1>5, <1>6, SameLoop
<1>8. Sha256Chunk(h, block) = [i \in 1 .. 8 |-> h[i] ++ f[64][i]]
  BY <1>2 DEF Sha256Chunk, AddEach, Words, w
<1>9. Fips180(h, block) = [i \in 1 .. 8 |-> h[i] ++ g[64][i]]
  BY <1>1, <1>3 DEF Fips180
<1>10. ASSUME NEW i \in 1 .. 8 PROVE h[i] ++ f[64][i] \in Word
  <2>1. f[64] \in Words(8)
    OBVIOUS
  <2>2. h[i] \in Word /\ f[64][i] \in Word
    BY <2>1 DEF Words
  <2> QED
    BY <2>2, AddType
<1> QED
  BY <1>7, <1>8, <1>9, <1>10 DEF Words

-----------------------------------------------------------------------------
(* Padding.                                                              *)

Bytes == 0 .. 255

(* The bits of n >> a.                                                   *)
LEMMA HalvedTwice ==
    ASSUME NEW n \in Nat, NEW a \in Nat, NEW c \in Nat
    PROVE  Halved(Halved(n, a), c) = Halved(n, a + c)
<1> DEFINE T == {k \in Nat : Halved(Halved(n, a), k) = Halved(n, a + k)}
<1>1. Halved(n, a) \in Nat
  BY HalvedStep
<1>2. 0 \in T
  BY <1>1, HalvedStep
<1>3. ASSUME NEW k \in T PROVE k + 1 \in T
  <2>1. k \in Nat /\ k + 1 \in Nat /\ a + k \in Nat /\ a + (k + 1) = (a + k) + 1
    OBVIOUS
  <2>2. Halved(Halved(n, a), k + 1) = Halved(Halved(n, a), k) \div 2
    BY <1>1, <2>1, HalvedStep
  <2>3. Halved(n, (a + k) + 1) = Halved(n, a + k) \div 2
    BY <2>1, HalvedStep
  <2> QED
    BY <2>1, <2>2, <2>3
<1>4. T \in SUBSET Nat
  OBVIOUS
<1> HIDE DEF T
<1>5. T = Nat
  BY <1>2, <1>3, <1>4, SetInduction
<1> QED
  BY <1>5 DEF T

LEMMA EightHalves ==
    ASSUME NEW n \in Nat
    PROVE  /\ Halved(n, 0) = n
           /\ \A c \in 0 .. 6 : Halved(n, c + 1) = Halved(n, c) \div 2
           /\ \A c \in 0 .. 7 : Halved(n, c) \in Nat
BY HalvedStep

LEMMA HalfOfSum ==
    ASSUME NEW x \in Nat, NEW y \in Nat
    PROVE  (2 * x + y) \div 2 = x + (y \div 2) /\ (2 * x + y) % 2 = y % 2
OBVIOUS

(* The bits of n % 256 are the low eight of n.                           *)
LEMMA LowByte ==
    ASSUME NEW n \in Nat, NEW c \in 0 .. 7
    PROVE  BitOf(n % 256, c) <=> BitOf(n, c)
<1> DEFINE r == n % 256
           q == n \div 256
<1>1. r \in Nat /\ q \in Nat /\ n = 256 * q + r
  OBVIOUS
<1> HIDE DEF r, q
<1>2. Halved(n, 0) = 256 * q + Halved(r, 0) /\ \A i \in 0 .. 7 : Halved(r, i) \in Nat
  BY <1>1, EightHalves
<1>3. \A i \in 0 .. 6 : /\ Halved(n, i + 1) = Halved(n, i) \div 2
                        /\ Halved(r, i + 1) = Halved(r, i) \div 2
  BY <1>1, EightHalves
<1>4. Halved(n, 1) = 128 * q + Halved(r, 1)
  <2>1. 0 \in 0 .. 6 /\ 0 \in 0 .. 7 /\ 0 + 1 = 1 /\ 128 * q \in Nat
    BY <1>1
  <2>2. Halved(n, 1) = Halved(n, 0) \div 2 /\ Halved(r, 1) = Halved(r, 0) \div 2
    BY <1>3, <2>1
  <2>3. Halved(n, 0) = 2 * (128 * q) + Halved(r, 0)
    BY <1>1, <1>2
  <2> QED
    BY <1>2, <2>1, <2>2, <2>3, HalfOfSum
<1>5. Halved(n, 2) = 64 * q + Halved(r, 2)
  <2>1. 1 \in 0 .. 6 /\ 1 \in 0 .. 7 /\ 1 + 1 = 2 /\ 64 * q \in Nat
    BY <1>1
  <2>2. Halved(n, 2) = Halved(n, 1) \div 2 /\ Halved(r, 2) = Halved(r, 1) \div 2
    BY <1>3, <2>1
  <2>3. Halved(n, 1) = 2 * (64 * q) + Halved(r, 1)
    BY <1>1, <1>4
  <2> QED
    BY <1>2, <2>1, <2>2, <2>3, HalfOfSum
<1>6. Halved(n, 3) = 32 * q + Halved(r, 3)
  <2>1. 2 \in 0 .. 6 /\ 2 \in 0 .. 7 /\ 2 + 1 = 3 /\ 32 * q \in Nat
    BY <1>1
  <2>2. Halved(n, 3) = Halved(n, 2) \div 2 /\ Halved(r, 3) = Halved(r, 2) \div 2
    BY <1>3, <2>1
  <2>3. Halved(n, 2) = 2 * (32 * q) + Halved(r, 2)
    BY <1>1, <1>5
  <2> QED
    BY <1>2, <2>1, <2>2, <2>3, HalfOfSum
<1>7. Halved(n, 4) = 16 * q + Halved(r, 4)
  <2>1. 3 \in 0 .. 6 /\ 3 \in 0 .. 7 /\ 3 + 1 = 4 /\ 16 * q \in Nat
    BY <1>1
  <2>2. Halved(n, 4) = Halved(n, 3) \div 2 /\ Halved(r, 4) = Halved(r, 3) \div 2
    BY <1>3, <2>1
  <2>3. Halved(n, 3) = 2 * (16 * q) + Halved(r, 3)
    BY <1>1, <1>6
  <2> QED
    BY <1>2, <2>1, <2>2, <2>3, HalfOfSum
<1>8. Halved(n, 5) = 8 * q + Halved(r, 5)
  <2>1. 4 \in 0 .. 6 /\ 4 \in 0 .. 7 /\ 4 + 1 = 5 /\ 8 * q \in Nat
    BY <1>1
  <2>2. Halved(n, 5) = Halved(n, 4) \div 2 /\ Halved(r, 5) = Halved(r, 4) \div 2
    BY <1>3, <2>1
  <2>3. Halved(n, 4) = 2 * (8 * q) + Halved(r, 4)
    BY <1>1, <1>7
  <2> QED
    BY <1>2, <2>1, <2>2, <2>3, HalfOfSum
<1>9. Halved(n, 6) = 4 * q + Halved(r, 6)
  <2>1. 5 \in 0 .. 6 /\ 5 \in 0 .. 7 /\ 5 + 1 = 6 /\ 4 * q \in Nat
    BY <1>1
  <2>2. Halved(n, 6) = Halved(n, 5) \div 2 /\ Halved(r, 6) = Halved(r, 5) \div 2
    BY <1>3, <2>1
  <2>3. Halved(n, 5) = 2 * (4 * q) + Halved(r, 5)
    BY <1>1, <1>8
  <2> QED
    BY <1>2, <2>1, <2>2, <2>3, HalfOfSum
<1>10. Halved(n, 7) = 2 * q + Halved(r, 7)
  <2>1. 6 \in 0 .. 6 /\ 6 \in 0 .. 7 /\ 6 + 1 = 7 /\ 2 * q \in Nat
    BY <1>1
  <2>2. Halved(n, 7) = Halved(n, 6) \div 2 /\ Halved(r, 7) = Halved(r, 6) \div 2
    BY <1>3, <2>1
  <2>3. Halved(n, 6) = 2 * (2 * q) + Halved(r, 6)
    BY <1>1, <1>9
  <2> QED
    BY <1>2, <2>1, <2>2, <2>3, HalfOfSum
<1>11. ASSUME NEW p \in Nat, Halved(n, c) = 2 * p + Halved(r, c)
       PROVE  Halved(n, c) % 2 = Halved(r, c) % 2
  BY <1>2, <1>11, HalfOfSum
<1>12. Halved(n, c) % 2 = Halved(r, c) % 2
  <2>1. CASE c = 0
    <3>1. 128 * q \in Nat /\ Halved(n, c) = 2 * (128 * q) + Halved(r, c)
      BY <1>1, <1>2, <2>1
    <3> QED
      BY <1>11, <3>1
  <2>2. CASE c = 1
    <3>1. 64 * q \in Nat /\ Halved(n, c) = 2 * (64 * q) + Halved(r, c)
      BY <1>1, <1>4, <2>2
    <3> QED
      BY <1>11, <3>1
  <2>3. CASE c = 2
    <3>1. 32 * q \in Nat /\ Halved(n, c) = 2 * (32 * q) + Halved(r, c)
      BY <1>1, <1>5, <2>3
    <3> QED
      BY <1>11, <3>1
  <2>4. CASE c = 3
    <3>1. 16 * q \in Nat /\ Halved(n, c) = 2 * (16 * q) + Halved(r, c)
      BY <1>1, <1>6, <2>4
    <3> QED
      BY <1>11, <3>1
  <2>5. CASE c = 4
    <3>1. 8 * q \in Nat /\ Halved(n, c) = 2 * (8 * q) + Halved(r, c)
      BY <1>1, <1>7, <2>5
    <3> QED
      BY <1>11, <3>1
  <2>6. CASE c = 5
    <3>1. 4 * q \in Nat /\ Halved(n, c) = 2 * (4 * q) + Halved(r, c)
      BY <1>1, <1>8, <2>6
    <3> QED
      BY <1>11, <3>1
  <2>7. CASE c = 6
    <3>1. 2 * q \in Nat /\ Halved(n, c) = 2 * (2 * q) + Halved(r, c)
      BY <1>1, <1>9, <2>7
    <3> QED
      BY <1>11, <3>1
  <2>8. CASE c = 7
    <3>1. 1 * q \in Nat /\ Halved(n, c) = 2 * (1 * q) + Halved(r, c)
      BY <1>1, <1>10, <2>8
    <3> QED
      BY <1>11, <3>1
  <2> QED
    BY <2>1, <2>2, <2>3, <2>4, <2>5, <2>6, <2>7, <2>8
<1> QED
  BY <1>12 DEF BitOf, r

(* The one 1 bit after the message, and none in a zero.                  *)
LEMMA FirstAndZeroBits ==
    ASSUME NEW c \in 0 .. 7
    PROVE  (BitOf(128, c) <=> c = 7) /\ ~ BitOf(0, c)
<1>1. /\ Halved(128, 0) = 128 /\ \A i \in 0 .. 6 : Halved(128, i + 1) = Halved(128, i) \div 2
      /\ Halved(0, 0) = 0 /\ \A i \in 0 .. 6 : Halved(0, i + 1) = Halved(0, i) \div 2
  BY EightHalves
<1>2. /\ Halved(128, 1) = 64 /\ Halved(128, 2) = 32 /\ Halved(128, 3) = 16 /\ Halved(128, 4) = 8
      /\ Halved(128, 5) = 4 /\ Halved(128, 6) = 2 /\ Halved(128, 7) = 1
  BY <1>1
<1>3. /\ Halved(0, 1) = 0 /\ Halved(0, 2) = 0 /\ Halved(0, 3) = 0 /\ Halved(0, 4) = 0
      /\ Halved(0, 5) = 0 /\ Halved(0, 6) = 0 /\ Halved(0, 7) = 0
  BY <1>1
<1>4. c = 0 \/ c = 1 \/ c = 2 \/ c = 3 \/ c = 4 \/ c = 5 \/ c = 6 \/ c = 7
  OBVIOUS
<1> QED
  BY <1>1, <1>2, <1>3, <1>4 DEF BitOf

(* Byte by byte: the message, 128, zeros, and the length.                *)
PaddedByte(m, n, size, i) ==
    IF i <= n THEN m[i]
    ELSE IF i = n + 1 THEN 128
    ELSE IF i <= size - 8 THEN 0
    ELSE Halved(8 * n, 8 * (size - i)) % 256

LEMMA PaddedIs ==
    ASSUME NEW m \in Seq(Bytes)
    PROVE  /\ Padded(m) \in Seq(Nat) /\ Len(Padded(m)) = PaddedLength(Len(m))
           /\ PaddedLength(Len(m)) \in Nat /\ PaddedLength(Len(m)) >= Len(m) + 9
           /\ \A i \in 1 .. PaddedLength(Len(m)) :
                 Padded(m)[i] = PaddedByte(m, Len(m), PaddedLength(Len(m)), i)
<1> DEFINE n == Len(m)
           size == PaddedLength(n)
           begun == Append(m, 128)
           zeros == CHOOSE k \in 0 .. 63 : (Len(begun) + k) % 64 = 56
           filled == begun \o [i \in 1 .. zeros |-> 0]
           length == [i \in 1 .. 8 |-> Halved(8 * n, 8 * (8 - i)) % 256]
<1>1. n \in Nat /\ m \in Seq(Nat) /\ \A i \in 1 .. n : m[i] \in Nat
  <2>1. n \in Nat /\ \A i \in 1 .. n : m[i] \in Bytes
    OBVIOUS
  <2>2. Bytes \subseteq Nat
    BY DEF Bytes
  <2> QED
    BY <2>1, <2>2, SeqMonotonic
<1>2. /\ begun \in Seq(Nat) /\ Len(begun) = n + 1 /\ begun[n + 1] = 128
      /\ \A i \in 1 .. n : begun[i] = m[i]
  BY <1>1
<1>3. Padded(m) = filled \o length
  BY DEF Padded, PaddedTo, WithLength
<1> HIDE DEF n, begun
<1>4. zeros \in 0 .. 63 /\ size = n + zeros + 9 /\ size \in Nat
  <2> DEFINE k == size - (n + 9)
  <2>1. k \in 0 .. 63 /\ (n + 1 + k) % 64 = 56
    BY <1>1 DEF PaddedLength
  <2> HIDE DEF k
  <2>2. \E j \in 0 .. 63 : (Len(begun) + j) % 64 = 56
    <3>1. (Len(begun) + k) % 64 = 56
      BY <1>2, <2>1
    <3> HIDE DEF zeros
    <3> QED
      BY <2>1, <3>1
  <2>3. zeros \in 0 .. 63 /\ (n + 1 + zeros) % 64 = 56
    BY <1>2, <2>2
  <2> HIDE DEF zeros
  <2>4. size = n + zeros + 9 /\ size \in Nat
    BY <1>1, <2>3 DEF PaddedLength
  <2> QED
    BY <2>3, <2>4
<1> HIDE DEF zeros, size
<1>5. /\ [i \in 1 .. zeros |-> 0] \in Seq(Nat) /\ Len([i \in 1 .. zeros |-> 0]) = zeros
      /\ \A i \in 1 .. zeros : [j \in 1 .. zeros |-> 0][i] = 0
  BY <1>4
<1>6. /\ filled \in Seq(Nat) /\ Len(filled) = n + 1 + zeros
      /\ \A i \in 1 .. n : filled[i] = m[i]
      /\ filled[n + 1] = 128
      /\ \A i \in n + 2 .. n + 1 + zeros : filled[i] = 0
  BY <1>1, <1>2, <1>4, <1>5
<1>7. length \in Seq(Nat) /\ Len(length) = 8
  <2>1. ASSUME NEW i \in 1 .. 8 PROVE Halved(8 * n, 8 * (8 - i)) % 256 \in Nat
    <3>1. 8 * n \in Nat /\ 8 * (8 - i) \in Nat
      BY <1>1
    <3>2. Halved(8 * n, 8 * (8 - i)) \in Nat
      BY <3>1, HalvedStep
    <3> QED
      BY <3>2
  <2> QED
    BY <2>1
<1> HIDE DEF filled
<1> HIDE DEF length
<1>8. /\ filled \o length \in Seq(Nat) /\ Len(filled \o length) = n + 1 + zeros + 8
      /\ \A i \in 1 .. n + 1 + zeros + 8 :
            (filled \o length)[i] = IF i <= n + 1 + zeros THEN filled[i] ELSE length[i - (n + 1 + zeros)]
  <2>1. filled \in Seq(Nat) /\ length \in Seq(Nat)
    BY <1>6, <1>7
  <2>2. /\ filled \o length \in Seq(Nat) /\ Len(filled \o length) = Len(filled) + Len(length)
        /\ \A i \in 1 .. Len(filled) + Len(length) :
              (filled \o length)[i] = IF i <= Len(filled) THEN filled[i] ELSE length[i - Len(filled)]
    BY <2>1, ConcatProperties
  <2>3. Len(filled) = n + 1 + zeros /\ Len(length) = 8
    BY <1>6, <1>7
  <2> HIDE DEF filled
  <2> QED
    BY <2>2, <2>3
<1>9. /\ filled \o length \in Seq(Nat) /\ Len(filled \o length) = size
      /\ \A i \in 1 .. n + 1 + zeros : (filled \o length)[i] = filled[i]
      /\ \A i \in 1 .. size : i > n + 1 + zeros =>
            (filled \o length)[i] = length[i - (n + 1 + zeros)]
  BY <1>1, <1>4, <1>8
<1>10. ASSUME NEW i \in 1 .. size, i > n + 1 + zeros
       PROVE  (filled \o length)[i] = Halved(8 * n, 8 * (size - i)) % 256
  <2>1. i - (n + 1 + zeros) \in 1 .. 8 /\ 8 - (i - (n + 1 + zeros)) = size - i
    BY <1>1, <1>4, <1>10
  <2>2. length[i - (n + 1 + zeros)] = Halved(8 * n, 8 * (size - i)) % 256
    BY <2>1 DEF length
  <2> QED
    BY <1>9, <1>10, <2>2
<1>11. ASSUME NEW i \in 1 .. size PROVE Padded(m)[i] = PaddedByte(m, n, size, i)
  <2>1. CASE i <= n
    <3>1. i \in 1 .. n /\ i \in 1 .. n + 1 + zeros
      BY <1>1, <1>4, <2>1
    <3>2. Padded(m)[i] = m[i]
      BY <1>3, <1>6, <1>9, <3>1
    <3> QED
      BY <2>1, <3>2 DEF PaddedByte
  <2>2. CASE i = n + 1
    <3>1. i \in 1 .. n + 1 + zeros /\ ~ (i <= n)
      BY <1>1, <1>4, <2>2
    <3>2. Padded(m)[i] = 128
      BY <1>3, <1>6, <1>9, <2>2, <3>1
    <3> QED
      BY <2>2, <3>1, <3>2 DEF PaddedByte
  <2>3. CASE i > n + 1 /\ i <= n + 1 + zeros
    <3>1. /\ i \in 1 .. n + 1 + zeros /\ i \in n + 2 .. n + 1 + zeros
          /\ ~ (i <= n) /\ i # n + 1 /\ i <= size - 8
      BY <1>1, <1>4, <2>3
    <3>2. Padded(m)[i] = 0
      BY <1>3, <1>6, <1>9, <3>1
    <3> QED
      BY <3>1, <3>2 DEF PaddedByte
  <2>4. CASE i > n + 1 + zeros
    <3>1. ~ (i <= n) /\ i # n + 1 /\ ~ (i <= size - 8)
      BY <1>1, <1>4, <2>4
    <3>2. Padded(m)[i] = Halved(8 * n, 8 * (size - i)) % 256
      BY <1>3, <1>10, <2>4
    <3> QED
      BY <3>1, <3>2 DEF PaddedByte
  <2> QED
    BY <1>1, <1>4, <2>1, <2>2, <2>3, <2>4
<1>12. size >= n + 9
  BY <1>1, <1>4
<1> QED
  BY <1>3, <1>4, <1>9, <1>11, <1>12 DEF n, size

(* Bit by bit, it is the message that the standard hashes.               *)
LEMMA PaddedBits ==
    ASSUME NEW m \in Seq(Bytes), NEW j \in Nat, j < 8 * PaddedLength(Len(m))
    PROVE  BitOf(Padded(m)[1 + (j \div 8)], 7 - (j % 8)) <=> MessageBit(m, j)
<1> DEFINE n == Len(m)
           size == PaddedLength(n)
           i == 1 + (j \div 8)
           c == 7 - (j % 8)
<1>1. n \in Nat /\ size \in Nat /\ size >= n + 9
  BY PaddedIs
<1>2. i \in 1 .. size /\ c \in 0 .. 7 /\ j = 8 * (i - 1) + 7 - c
  BY <1>1
<1>3. Padded(m)[i] = PaddedByte(m, n, size, i)
  BY <1>2, PaddedIs
<1>4. MessageBit(m, j) <=> IF j < 8 * n THEN BitOf(m[i], c)
                           ELSE j = 8 * n \/ (8 * size - 1 - j < 64 /\ BitOf(8 * n, 8 * size - 1 - j))
  BY DEF MessageBit
<1> HIDE DEF n, size, i, c
<1>5. CASE i <= n
  <2>1. j < 8 * n
    BY <1>1, <1>2, <1>5
  <2> QED
    BY <1>3, <1>4, <1>5, <2>1 DEF PaddedByte, i, c
<1>6. CASE i = n + 1
  <2>1. ~ (j < 8 * n) /\ ~ (8 * size - 1 - j < 64) /\ (j = 8 * n <=> c = 7)
    BY <1>1, <1>2, <1>6
  <2>2. Padded(m)[i] = 128
    BY <1>1, <1>3, <1>6 DEF PaddedByte
  <2>3. BitOf(128, c) <=> c = 7
    BY <1>2, FirstAndZeroBits
  <2> QED
    BY <1>4, <2>1, <2>2, <2>3 DEF i, c
<1>7. CASE i > n + 1 /\ i <= size - 8
  <2>1. ~ (j < 8 * n) /\ ~ (8 * size - 1 - j < 64) /\ j # 8 * n
    BY <1>1, <1>2, <1>7
  <2>2. Padded(m)[i] = 0
    <3>1. ~ (i <= n) /\ i # n + 1
      BY <1>1, <1>2, <1>7
    <3> QED
      BY <1>3, <1>7, <3>1 DEF PaddedByte
  <2>3. ~ BitOf(0, c)
    BY <1>2, FirstAndZeroBits
  <2> QED
    BY <1>4, <2>1, <2>2, <2>3 DEF i, c
<1>8. CASE i > size - 8
  <2> DEFINE a == 8 * (size - i)
  <2>1. /\ ~ (j < 8 * n) /\ 8 * size - 1 - j < 64 /\ j # 8 * n /\ 8 * n \in Nat
        /\ a \in Nat /\ 8 * size - 1 - j = a + c
    BY <1>1, <1>2, <1>8
  <2>2. Padded(m)[i] = Halved(8 * n, a) % 256
    BY <1>1, <1>2, <1>3, <1>8 DEF PaddedByte
  <2> HIDE DEF a
  <2>3. Halved(8 * n, a) \in Nat
    BY <2>1, HalvedStep
  <2>4. BitOf(Padded(m)[i], c) <=> BitOf(Halved(8 * n, a), c)
    BY <1>2, <2>2, <2>3, LowByte
  <2>5. BitOf(Halved(8 * n, a), c) <=> BitOf(8 * n, a + c)
    <3>1. c \in Nat /\ a \in Nat /\ 8 * n \in Nat
      BY <1>2, <2>1
    <3>2. Halved(Halved(8 * n, a), c) = Halved(8 * n, a + c)
      BY <3>1, HalvedTwice
    <3> QED
      BY <3>2 DEF BitOf
  <2> QED
    BY <1>4, <2>1, <2>4, <2>5 DEF i, c
<1>9. i <= n \/ i = n + 1 \/ (i > n + 1 /\ i <= size - 8) \/ i > size - 8
  BY <1>1, <1>2
<1> QED
  BY <1>5, <1>6, <1>7, <1>8, <1>9

(* The words of block n.                                                 *)
LEMMA BlocksAre ==
    ASSUME NEW m \in Seq(Bytes)
    PROVE  /\ Len(Blocks(m)) = PaddedLength(Len(m)) \div 64
           /\ Len(Blocks(m)) \in Nat
           /\ \A n \in 1 .. Len(Blocks(m)) :
                 /\ Blocks(m)[n] \in Words(16)
                 /\ \A i \in 0 .. 15 : Blocks(m)[n][i + 1] = MessageWord(m, 16 * (n - 1) + i)
<1> DEFINE size == PaddedLength(Len(m))
           data == Padded(m)
           last == Len(data) \div 64
<1>1. size \in Nat /\ Len(data) = size /\ last \in Nat /\ 64 * last <= size
  BY PaddedIs
<1>2. Blocks(m) = [n \in 1 .. last |-> BlockAt(data, 64 * (n - 1))]
  BY DEF Blocks
<1> HIDE DEF data, last
<1>3. Len(Blocks(m)) = last /\ \A n \in 1 .. last : Blocks(m)[n] = BlockAt(data, 64 * (n - 1))
  BY <1>1, <1>2
<1>4. ASSUME NEW n \in 1 .. last
      PROVE  /\ Blocks(m)[n] \in Words(16)
             /\ \A i \in 0 .. 15 : Blocks(m)[n][i + 1] = MessageWord(m, 16 * (n - 1) + i)
  <2>1. BlockAt(data, 64 * (n - 1)) \in Words(16)
    BY WordOfType DEF BlockAt, Words
  <2>2. ASSUME NEW i \in 0 .. 15
        PROVE  BlockAt(data, 64 * (n - 1))[i + 1] = MessageWord(m, 16 * (n - 1) + i)
    <3> DEFINE four == [k \in 1 .. 4 |-> data[64 * (n - 1) + 4 * ((i + 1) - 1) + k]]
    <3>1. BlockAt(data, 64 * (n - 1))[i + 1] = WordOf(four)
      BY DEF BlockAt
    <3>2. ASSUME NEW b \in Bit
          PROVE  BitOf(four[4 - (b \div 8)], b % 8) <=> MessageBit(m, 32 * (16 * (n - 1) + i) + 31 - b)
      <4> DEFINE j == 32 * (16 * (n - 1) + i) + 31 - b
      <4>1. b \in 0 .. 31 /\ 4 - (b \div 8) \in 1 .. 4
        BY BitNumbers
      <4>2. /\ j \in Nat /\ j < 8 * size /\ 7 - (j % 8) = b % 8
            /\ 64 * (n - 1) + 4 * ((i + 1) - 1) + (4 - (b \div 8)) = 1 + (j \div 8)
        BY <1>1, <4>1
      <4>3. four[4 - (b \div 8)] = data[1 + (j \div 8)]
        BY <4>1, <4>2
      <4> HIDE DEF j
      <4>4. BitOf(data[1 + (j \div 8)], 7 - (j % 8)) <=> MessageBit(m, j)
        BY <4>2, PaddedBits DEF data
      <4> QED
        BY <4>2, <4>3, <4>4 DEF j
    <3> HIDE DEF four
    <3> QED
      BY <3>1, <3>2 DEF WordOf, MessageWord
  <2> QED
    BY <1>3, <2>1, <2>2
<1> QED
  BY <1>1, <1>3, <1>4 DEF last

-----------------------------------------------------------------------------
(* The digests.                                                          *)

LEMMA Initial == Sha1Initial \in Words(5) /\ Sha256Initial \in Words(8)
<1>1. Sha1Initial \in Words(5)
  BY WType, Five DEF Sha1Initial
<1>2. Sha256Initial \in Words(8)
  BY WType DEF Sha256Initial, Words
<1> QED
  BY <1>1, <1>2

Kept(m, n) == [i \in 0 .. 15 |-> MessageWord(m, 16 * (n - 1) + i)]
Block(m, n) == [i \in 1 .. 16 |-> MessageWord(m, 16 * (n - 1) + i - 1)]

LEMMA BlockOfBoth ==
    ASSUME NEW m \in Seq(Bytes), NEW n \in 1 .. Len(Blocks(m))
    PROVE  /\ Kept(m, n) \in Buffer /\ Block(m, n) = Blocks(m)[n] /\ Blocks(m)[n] \in Words(16)
           /\ \A i \in 0 .. 15 : Kept(m, n)[i] = Blocks(m)[n][i + 1]
<1>1. /\ Blocks(m)[n] \in Words(16)
      /\ \A i \in 0 .. 15 : Blocks(m)[n][i + 1] = MessageWord(m, 16 * (n - 1) + i)
  BY BlocksAre
<1>2. \A t : MessageWord(m, t) \in Word
  BY DEF MessageWord, Word
<1>3. Kept(m, n) \in Buffer
  BY <1>2 DEF Kept, Buffer
<1>4. \A i \in 0 .. 15 : Kept(m, n)[i] = Blocks(m)[n][i + 1]
  BY <1>1 DEF Kept
<1>5. Block(m, n) = Blocks(m)[n]
  <2>1. ASSUME NEW i \in 1 .. 16 PROVE Blocks(m)[n][i] = MessageWord(m, 16 * (n - 1) + i - 1)
    <3>1. i - 1 \in 0 .. 15 /\ (i - 1) + 1 = i /\ 16 * (n - 1) + (i - 1) = 16 * (n - 1) + i - 1
      BY BlocksAre
    <3> QED
      BY <1>1, <3>1
  <2> QED
    BY <1>1, <2>1 DEF Block, Words
<1> QED
  BY <1>1, <1>3, <1>4, <1>5

LEMMA BlocksCounted ==
    ASSUME NEW m \in Seq(Bytes)
    PROVE  /\ Len(Blocks(m)) = PaddedLength(Len(m)) \div 64
           /\ Len(Blocks(m)) \in Nat /\ PaddedLength(Len(m)) \div 64 \in Nat
BY BlocksAre

(* SHA-1 of the code.                                                    *)
LEMMA Sha1Loop ==
    ASSUME NEW m \in Seq(Bytes)
    PROVE  \E f \in [0 .. Len(Blocks(m)) -> Words(5)] :
              /\ f[0] = Sha1Initial
              /\ \A n \in 1 .. Len(Blocks(m)) : f[n] = Sha1Chunk(f[n - 1], Blocks(m)[n])
              /\ \A n \in 0 .. Len(Blocks(m)) : TRUE
              /\ Sha1(m) = f[Len(Blocks(m))]
<1> DEFINE N == Len(Blocks(m))
           S == Words(5)
           Step(n, h) == Sha1Chunk(h, Blocks(m)[n])
           step == [q \in (1 .. N) \X S |-> Step(q[1], q[2])]
           Good(n, h) == TRUE
           V == {q \in (0 .. N) \X S : Good(q[1], q[2])}
<1>1. Sha1Initial \in S /\ Good(0, Sha1Initial)
  BY Initial
<1>2. ASSUME NEW n \in 1 .. N, NEW h \in S, Good(n - 1, h)
      PROVE  Step(n, h) \in S /\ Good(n, Step(n, h))
  <2>1. n \in 1 .. Len(Blocks(m)) /\ h \in Words(5)
    BY <1>2, BlocksCounted
  <2>2. Kept(m, n) \in Buffer /\ Block(m, n) = Blocks(m)[n] /\ Blocks(m)[n] \in Words(16)
        /\ \A i \in 0 .. 15 : Kept(m, n)[i] = Blocks(m)[n][i + 1]
    BY <2>1, BlockOfBoth
  <2> QED
    BY <2>1, <2>2, Sha1ChunkAgrees
<1> N \in Nat
  BY BlocksCounted DEF N
<1> HIDE DEF Step, Good, N, S
<1>3. \A n \in 1 .. N : \A h \in S : step[<<n, h>>] = Step(n, h)
  OBVIOUS
<1> HIDE DEF step
<1>4. PICK f \in [0 .. N -> S] : Passes(f, N, Sha1Initial, step, V)
  <2>1. ASSUME NEW n \in 1 .. N, NEW h \in S, <<n - 1, h>> \in V
        PROVE  step[<<n, h>>] \in S /\ <<n, step[<<n, h>>]>> \in V
    <3>1. n \in 0 .. N /\ Good(n - 1, h)
      BY <2>1
    <3> QED
      BY <1>2, <1>3, <3>1
  <2>2. <<0, Sha1Initial>> \in V
    BY <1>1
  <2>3. Stepping(N, S, Sha1Initial, step, V)
    BY <1>1, <2>1, <2>2 DEF Stepping
  <2> HIDE DEF V
  <2> QED
    BY <2>3, Loop
<1>5. f[0] = Sha1Initial
  BY <1>4 DEF Passes
<1>6. ASSUME NEW n \in 1 .. N PROVE f[n] = Step(n, f[n - 1])
  <2>1. f[n - 1] \in S
    OBVIOUS
  <2>2. f[n] = step[<<n, f[n - 1]>>]
    BY <1>4 DEF Passes
  <2> QED
    BY <1>3, <2>1, <2>2
<1>7. ASSUME NEW n \in 0 .. N PROVE Good(n, f[n])
  <2>1. <<n, f[n]>> \in V
    BY <1>4 DEF Passes
  <2> QED
    BY <2>1
<1>8. Sha1(m) = f[N]
  <2> DEFINE Next1(after, n) ==
                IF n = 0 THEN Sha1Initial
                ELSE IF after[n - 1] = after[n - 1] THEN Step(n, after[n - 1]) ELSE Sha1Initial
             Solves(after) == after = [n \in 0 .. N |-> Next1(after, n)]
             after == CHOOSE x : Solves(x)
  <2>1. Sha1(m) = after[N]
    BY DEF N, Step, Sha1, Repeated
  <2>2. \E x : Solves(x)
    <3>1. ASSUME NEW n \in 0 .. N PROVE f[n] = Next1(f, n)
      <4>1. n # 0 => n \in 1 .. N
        OBVIOUS
      <4> QED
        BY <1>5, <1>6, <4>1
    <3>2. f = [n \in 0 .. N |-> f[n]]
      OBVIOUS
    <3>3. Solves(f)
      BY <3>1, <3>2
    <3> QED
      BY <3>3
  <2>3. Solves(after)
    <3> HIDE DEF Solves
    <3> QED
      BY <2>2
  <2> HIDE DEF after
  <2>4. Alike(f, after, N)
    <3>1. after[0] = f[0]
      BY <1>5, <2>3
    <3>2. ASSUME NEW n \in 1 .. N, f[n - 1] = after[n - 1] PROVE f[n] = after[n]
      <4>1. n \in 0 .. N /\ n # 0
        OBVIOUS
      <4> QED
        BY <1>6, <2>3, <3>2, <4>1
    <3> QED
      BY <3>1, <3>2 DEF Alike
  <2>5. N \in Nat /\ N \in 0 .. N
    OBVIOUS
  <2>6. f[N] = after[N]
    BY <2>4, <2>5, SameLoop
  <2> QED
    BY <2>1, <2>6
<1> QED
  BY <1>5, <1>6, <1>7, <1>8 DEF N, S, Step, Good

(* And of the standard.                                                  *)
LEMMA Sha1DigestLoop ==
    ASSUME NEW m \in Seq(Bytes)
    PROVE  \E f \in [0 .. PaddedLength(Len(m)) \div 64 -> Words(5)] :
              /\ f[0] = Sha1Initial
              /\ \A n \in 1 .. PaddedLength(Len(m)) \div 64 : f[n] = Rfc3174(f[n - 1], Kept(m, n))
              /\ \A n \in 0 .. PaddedLength(Len(m)) \div 64 : TRUE
              /\ Sha1Digest(m) = f[PaddedLength(Len(m)) \div 64]
<1> DEFINE N == PaddedLength(Len(m)) \div 64
           S == Words(5)
           Step(n, h) == Rfc3174(h, Kept(m, n))
           step == [q \in (1 .. N) \X S |-> Step(q[1], q[2])]
           Good(n, h) == TRUE
           V == {q \in (0 .. N) \X S : Good(q[1], q[2])}
<1>1. Sha1Initial \in S /\ Good(0, Sha1Initial)
  BY Initial
<1>2. ASSUME NEW n \in 1 .. N, NEW h \in S, Good(n - 1, h)
      PROVE  Step(n, h) \in S /\ Good(n, Step(n, h))
  <2>1. n \in 1 .. Len(Blocks(m)) /\ h \in Words(5)
    BY <1>2, BlocksCounted
  <2>2. Kept(m, n) \in Buffer /\ Block(m, n) = Blocks(m)[n] /\ Blocks(m)[n] \in Words(16)
        /\ \A i \in 0 .. 15 : Kept(m, n)[i] = Blocks(m)[n][i + 1]
    BY <2>1, BlockOfBoth
  <2> QED
    BY <2>1, <2>2, Sha1ChunkAgrees
<1> N \in Nat
  BY BlocksCounted DEF N
<1> HIDE DEF Step, Good, N, S
<1>3. \A n \in 1 .. N : \A h \in S : step[<<n, h>>] = Step(n, h)
  OBVIOUS
<1> HIDE DEF step
<1>4. PICK f \in [0 .. N -> S] : Passes(f, N, Sha1Initial, step, V)
  <2>1. ASSUME NEW n \in 1 .. N, NEW h \in S, <<n - 1, h>> \in V
        PROVE  step[<<n, h>>] \in S /\ <<n, step[<<n, h>>]>> \in V
    <3>1. n \in 0 .. N /\ Good(n - 1, h)
      BY <2>1
    <3> QED
      BY <1>2, <1>3, <3>1
  <2>2. <<0, Sha1Initial>> \in V
    BY <1>1
  <2>3. Stepping(N, S, Sha1Initial, step, V)
    BY <1>1, <2>1, <2>2 DEF Stepping
  <2> HIDE DEF V
  <2> QED
    BY <2>3, Loop
<1>5. f[0] = Sha1Initial
  BY <1>4 DEF Passes
<1>6. ASSUME NEW n \in 1 .. N PROVE f[n] = Step(n, f[n - 1])
  <2>1. f[n - 1] \in S
    OBVIOUS
  <2>2. f[n] = step[<<n, f[n - 1]>>]
    BY <1>4 DEF Passes
  <2> QED
    BY <1>3, <2>1, <2>2
<1>7. ASSUME NEW n \in 0 .. N PROVE Good(n, f[n])
  <2>1. <<n, f[n]>> \in V
    BY <1>4 DEF Passes
  <2> QED
    BY <2>1
<1>8. Sha1Digest(m) = f[N]
  <2> DEFINE Next1(after, n) ==
                IF n = 0 THEN Sha1Initial
                ELSE IF after[n - 1] = after[n - 1] THEN Step(n, after[n - 1]) ELSE Sha1Initial
             Solves(after) == after = [n \in 0 .. N |-> Next1(after, n)]
             after == CHOOSE x : Solves(x)
  <2>1. Sha1Digest(m) = after[N]
    BY DEF N, Step, Sha1Digest, Kept, Repeated
  <2>2. \E x : Solves(x)
    <3>1. ASSUME NEW n \in 0 .. N PROVE f[n] = Next1(f, n)
      <4>1. n # 0 => n \in 1 .. N
        OBVIOUS
      <4> QED
        BY <1>5, <1>6, <4>1
    <3>2. f = [n \in 0 .. N |-> f[n]]
      OBVIOUS
    <3>3. Solves(f)
      BY <3>1, <3>2
    <3> QED
      BY <3>3
  <2>3. Solves(after)
    <3> HIDE DEF Solves
    <3> QED
      BY <2>2
  <2> HIDE DEF after
  <2>4. Alike(f, after, N)
    <3>1. after[0] = f[0]
      BY <1>5, <2>3
    <3>2. ASSUME NEW n \in 1 .. N, f[n - 1] = after[n - 1] PROVE f[n] = after[n]
      <4>1. n \in 0 .. N /\ n # 0
        OBVIOUS
      <4> QED
        BY <1>6, <2>3, <3>2, <4>1
    <3> QED
      BY <3>1, <3>2 DEF Alike
  <2>5. N \in Nat /\ N \in 0 .. N
    OBVIOUS
  <2>6. f[N] = after[N]
    BY <2>4, <2>5, SameLoop
  <2> QED
    BY <2>1, <2>6
<1> QED
  BY <1>5, <1>6, <1>7, <1>8 DEF N, S, Step, Good

(* SHA-256 of the code.                                                  *)
LEMMA Sha256Loop ==
    ASSUME NEW m \in Seq(Bytes)
    PROVE  \E f \in [0 .. Len(Blocks(m)) -> Words(8)] :
              /\ f[0] = Sha256Initial
              /\ \A n \in 1 .. Len(Blocks(m)) : f[n] = Sha256Chunk(f[n - 1], Blocks(m)[n])
              /\ \A n \in 0 .. Len(Blocks(m)) : TRUE
              /\ Sha256(m) = f[Len(Blocks(m))]
<1> DEFINE N == Len(Blocks(m))
           S == Words(8)
           Step(n, h) == Sha256Chunk(h, Blocks(m)[n])
           step == [q \in (1 .. N) \X S |-> Step(q[1], q[2])]
           Good(n, h) == TRUE
           V == {q \in (0 .. N) \X S : Good(q[1], q[2])}
<1>1. Sha256Initial \in S /\ Good(0, Sha256Initial)
  BY Initial
<1>2. ASSUME NEW n \in 1 .. N, NEW h \in S, Good(n - 1, h)
      PROVE  Step(n, h) \in S /\ Good(n, Step(n, h))
  <2>1. n \in 1 .. Len(Blocks(m)) /\ h \in Words(8)
    BY <1>2, BlocksCounted
  <2>2. Kept(m, n) \in Buffer /\ Block(m, n) = Blocks(m)[n] /\ Blocks(m)[n] \in Words(16)
        /\ \A i \in 0 .. 15 : Kept(m, n)[i] = Blocks(m)[n][i + 1]
    BY <2>1, BlockOfBoth
  <2> QED
    BY <2>1, <2>2, Sha256ChunkAgrees
<1> N \in Nat
  BY BlocksCounted DEF N
<1> HIDE DEF Step, Good, N, S
<1>3. \A n \in 1 .. N : \A h \in S : step[<<n, h>>] = Step(n, h)
  OBVIOUS
<1> HIDE DEF step
<1>4. PICK f \in [0 .. N -> S] : Passes(f, N, Sha256Initial, step, V)
  <2>1. ASSUME NEW n \in 1 .. N, NEW h \in S, <<n - 1, h>> \in V
        PROVE  step[<<n, h>>] \in S /\ <<n, step[<<n, h>>]>> \in V
    <3>1. n \in 0 .. N /\ Good(n - 1, h)
      BY <2>1
    <3> QED
      BY <1>2, <1>3, <3>1
  <2>2. <<0, Sha256Initial>> \in V
    BY <1>1
  <2>3. Stepping(N, S, Sha256Initial, step, V)
    BY <1>1, <2>1, <2>2 DEF Stepping
  <2> HIDE DEF V
  <2> QED
    BY <2>3, Loop
<1>5. f[0] = Sha256Initial
  BY <1>4 DEF Passes
<1>6. ASSUME NEW n \in 1 .. N PROVE f[n] = Step(n, f[n - 1])
  <2>1. f[n - 1] \in S
    OBVIOUS
  <2>2. f[n] = step[<<n, f[n - 1]>>]
    BY <1>4 DEF Passes
  <2> QED
    BY <1>3, <2>1, <2>2
<1>7. ASSUME NEW n \in 0 .. N PROVE Good(n, f[n])
  <2>1. <<n, f[n]>> \in V
    BY <1>4 DEF Passes
  <2> QED
    BY <2>1
<1>8. Sha256(m) = f[N]
  <2> DEFINE Next1(after, n) ==
                IF n = 0 THEN Sha256Initial
                ELSE IF after[n - 1] = after[n - 1] THEN Step(n, after[n - 1]) ELSE Sha256Initial
             Solves(after) == after = [n \in 0 .. N |-> Next1(after, n)]
             after == CHOOSE x : Solves(x)
  <2>1. Sha256(m) = after[N]
    BY DEF N, Step, Sha256, Repeated
  <2>2. \E x : Solves(x)
    <3>1. ASSUME NEW n \in 0 .. N PROVE f[n] = Next1(f, n)
      <4>1. n # 0 => n \in 1 .. N
        OBVIOUS
      <4> QED
        BY <1>5, <1>6, <4>1
    <3>2. f = [n \in 0 .. N |-> f[n]]
      OBVIOUS
    <3>3. Solves(f)
      BY <3>1, <3>2
    <3> QED
      BY <3>3
  <2>3. Solves(after)
    <3> HIDE DEF Solves
    <3> QED
      BY <2>2
  <2> HIDE DEF after
  <2>4. Alike(f, after, N)
    <3>1. after[0] = f[0]
      BY <1>5, <2>3
    <3>2. ASSUME NEW n \in 1 .. N, f[n - 1] = after[n - 1] PROVE f[n] = after[n]
      <4>1. n \in 0 .. N /\ n # 0
        OBVIOUS
      <4> QED
        BY <1>6, <2>3, <3>2, <4>1
    <3> QED
      BY <3>1, <3>2 DEF Alike
  <2>5. N \in Nat /\ N \in 0 .. N
    OBVIOUS
  <2>6. f[N] = after[N]
    BY <2>4, <2>5, SameLoop
  <2> QED
    BY <2>1, <2>6
<1> QED
  BY <1>5, <1>6, <1>7, <1>8 DEF N, S, Step, Good

(* And of the standard.                                                  *)
LEMMA Sha256DigestLoop ==
    ASSUME NEW m \in Seq(Bytes)
    PROVE  \E f \in [0 .. PaddedLength(Len(m)) \div 64 -> Words(8)] :
              /\ f[0] = Sha256Initial
              /\ \A n \in 1 .. PaddedLength(Len(m)) \div 64 : f[n] = Fips180(f[n - 1], Block(m, n))
              /\ \A n \in 0 .. PaddedLength(Len(m)) \div 64 : TRUE
              /\ Sha256Digest(m) = f[PaddedLength(Len(m)) \div 64]
<1> DEFINE N == PaddedLength(Len(m)) \div 64
           S == Words(8)
           Step(n, h) == Fips180(h, Block(m, n))
           step == [q \in (1 .. N) \X S |-> Step(q[1], q[2])]
           Good(n, h) == TRUE
           V == {q \in (0 .. N) \X S : Good(q[1], q[2])}
<1>1. Sha256Initial \in S /\ Good(0, Sha256Initial)
  BY Initial
<1>2. ASSUME NEW n \in 1 .. N, NEW h \in S, Good(n - 1, h)
      PROVE  Step(n, h) \in S /\ Good(n, Step(n, h))
  <2>1. n \in 1 .. Len(Blocks(m)) /\ h \in Words(8)
    BY <1>2, BlocksCounted
  <2>2. Kept(m, n) \in Buffer /\ Block(m, n) = Blocks(m)[n] /\ Blocks(m)[n] \in Words(16)
        /\ \A i \in 0 .. 15 : Kept(m, n)[i] = Blocks(m)[n][i + 1]
    BY <2>1, BlockOfBoth
  <2> QED
    BY <2>1, <2>2, Sha256ChunkAgrees
<1> N \in Nat
  BY BlocksCounted DEF N
<1> HIDE DEF Step, Good, N, S
<1>3. \A n \in 1 .. N : \A h \in S : step[<<n, h>>] = Step(n, h)
  OBVIOUS
<1> HIDE DEF step
<1>4. PICK f \in [0 .. N -> S] : Passes(f, N, Sha256Initial, step, V)
  <2>1. ASSUME NEW n \in 1 .. N, NEW h \in S, <<n - 1, h>> \in V
        PROVE  step[<<n, h>>] \in S /\ <<n, step[<<n, h>>]>> \in V
    <3>1. n \in 0 .. N /\ Good(n - 1, h)
      BY <2>1
    <3> QED
      BY <1>2, <1>3, <3>1
  <2>2. <<0, Sha256Initial>> \in V
    BY <1>1
  <2>3. Stepping(N, S, Sha256Initial, step, V)
    BY <1>1, <2>1, <2>2 DEF Stepping
  <2> HIDE DEF V
  <2> QED
    BY <2>3, Loop
<1>5. f[0] = Sha256Initial
  BY <1>4 DEF Passes
<1>6. ASSUME NEW n \in 1 .. N PROVE f[n] = Step(n, f[n - 1])
  <2>1. f[n - 1] \in S
    OBVIOUS
  <2>2. f[n] = step[<<n, f[n - 1]>>]
    BY <1>4 DEF Passes
  <2> QED
    BY <1>3, <2>1, <2>2
<1>7. ASSUME NEW n \in 0 .. N PROVE Good(n, f[n])
  <2>1. <<n, f[n]>> \in V
    BY <1>4 DEF Passes
  <2> QED
    BY <2>1
<1>8. Sha256Digest(m) = f[N]
  <2> DEFINE Next1(after, n) ==
                IF n = 0 THEN Sha256Initial
                ELSE IF after[n - 1] = after[n - 1] THEN Step(n, after[n - 1]) ELSE Sha256Initial
             Solves(after) == after = [n \in 0 .. N |-> Next1(after, n)]
             after == CHOOSE x : Solves(x)
  <2>1. Sha256Digest(m) = after[N]
    BY DEF N, Step, Sha256Digest, Block, Repeated
  <2>2. \E x : Solves(x)
    <3>1. ASSUME NEW n \in 0 .. N PROVE f[n] = Next1(f, n)
      <4>1. n # 0 => n \in 1 .. N
        OBVIOUS
      <4> QED
        BY <1>5, <1>6, <4>1
    <3>2. f = [n \in 0 .. N |-> f[n]]
      OBVIOUS
    <3>3. Solves(f)
      BY <3>1, <3>2
    <3> QED
      BY <3>3
  <2>3. Solves(after)
    <3> HIDE DEF Solves
    <3> QED
      BY <2>2
  <2> HIDE DEF after
  <2>4. Alike(f, after, N)
    <3>1. after[0] = f[0]
      BY <1>5, <2>3
    <3>2. ASSUME NEW n \in 1 .. N, f[n - 1] = after[n - 1] PROVE f[n] = after[n]
      <4>1. n \in 0 .. N /\ n # 0
        OBVIOUS
      <4> QED
        BY <1>6, <2>3, <3>2, <4>1
    <3> QED
      BY <3>1, <3>2 DEF Alike
  <2>5. N \in Nat /\ N \in 0 .. N
    OBVIOUS
  <2>6. f[N] = after[N]
    BY <2>4, <2>5, SameLoop
  <2> QED
    BY <2>1, <2>6
<1> QED
  BY <1>5, <1>6, <1>7, <1>8 DEF N, S, Step, Good

(* The code computes the digest of RFC 3174.                             *)
LEMMA Sha1Agrees ==
    ASSUME NEW m \in Seq(Bytes)
    PROVE  Sha1(m) = Sha1Digest(m) /\ Sha1(m) \in Words(5)
<1> DEFINE last == Len(Blocks(m))
<1>1. last = PaddedLength(Len(m)) \div 64 /\ last \in Nat
  BY BlocksCounted
<1>2. PICK f \in [0 .. last -> Words(5)] :
         /\ f[0] = Sha1Initial
         /\ \A n \in 1 .. last : f[n] = Sha1Chunk(f[n - 1], Blocks(m)[n])
         /\ Sha1(m) = f[last]
  BY Sha1Loop
<1>3. PICK g \in [0 .. last -> Words(5)] :
         /\ g[0] = Sha1Initial
         /\ \A n \in 1 .. last : g[n] = Rfc3174(g[n - 1], Kept(m, n))
         /\ Sha1Digest(m) = g[last]
  BY <1>1, Sha1DigestLoop
<1>4. ASSUME NEW n \in 1 .. last, f[n - 1] = g[n - 1] PROVE f[n] = g[n]
  <2>1. n - 1 \in 0 .. last
    BY <1>1
  <2>2. f[n - 1] \in Words(5)
    BY <2>1
  <2>3. Kept(m, n) \in Buffer /\ Block(m, n) = Blocks(m)[n] /\ Blocks(m)[n] \in Words(16)
        /\ \A i \in 0 .. 15 : Kept(m, n)[i] = Blocks(m)[n][i + 1]
    BY BlockOfBoth
  <2>4. Sha1Chunk(f[n - 1], Blocks(m)[n]) = Rfc3174(f[n - 1], Kept(m, n))
    BY <2>2, <2>3, Sha1ChunkAgrees
  <2> QED
    BY <1>2, <1>3, <1>4, <2>4
<1> HIDE DEF last
<1>5. Alike(f, g, last)
  BY <1>2, <1>3, <1>4 DEF Alike
<1>6. f[last] = g[last] /\ f[last] \in Words(5)
  BY <1>1, <1>5, SameLoop
<1> QED
  BY <1>2, <1>3, <1>6

(* The code computes the digest of FIPS 180-4.                           *)
LEMMA Sha256Agrees ==
    ASSUME NEW m \in Seq(Bytes)
    PROVE  Sha256(m) = Sha256Digest(m) /\ Sha256(m) \in Words(8)
<1> DEFINE last == Len(Blocks(m))
<1>1. last = PaddedLength(Len(m)) \div 64 /\ last \in Nat
  BY BlocksCounted
<1>2. PICK f \in [0 .. last -> Words(8)] :
         /\ f[0] = Sha256Initial
         /\ \A n \in 1 .. last : f[n] = Sha256Chunk(f[n - 1], Blocks(m)[n])
         /\ Sha256(m) = f[last]
  BY Sha256Loop
<1>3. PICK g \in [0 .. last -> Words(8)] :
         /\ g[0] = Sha256Initial
         /\ \A n \in 1 .. last : g[n] = Fips180(g[n - 1], Block(m, n))
         /\ Sha256Digest(m) = g[last]
  BY <1>1, Sha256DigestLoop
<1>4. ASSUME NEW n \in 1 .. last, f[n - 1] = g[n - 1] PROVE f[n] = g[n]
  <2>1. n - 1 \in 0 .. last
    BY <1>1
  <2>2. f[n - 1] \in Words(8)
    BY <2>1
  <2>3. Kept(m, n) \in Buffer /\ Block(m, n) = Blocks(m)[n] /\ Blocks(m)[n] \in Words(16)
        /\ \A i \in 0 .. 15 : Kept(m, n)[i] = Blocks(m)[n][i + 1]
    BY BlockOfBoth
  <2>4. Sha256Chunk(f[n - 1], Blocks(m)[n]) = Fips180(f[n - 1], Block(m, n))
    BY <2>2, <2>3, Sha256ChunkAgrees
  <2> QED
    BY <1>2, <1>3, <1>4, <2>4
<1> HIDE DEF last
<1>5. Alike(f, g, last)
  BY <1>2, <1>3, <1>4 DEF Alike
<1>6. f[last] = g[last] /\ f[last] \in Words(8)
  BY <1>1, <1>5, SameLoop
<1> QED
  BY <1>2, <1>3, <1>6

-----------------------------------------------------------------------------
(* Base64.                                                               *)

Triples == {n \in Nat : n < 16777216}
High(n) == (n \div 65536) % 256
Middle(n) == (n \div 256) % 256
Low(n) == (n \div 1) % 256

LEMMA ByteNat == ASSUME NEW b \in Bytes PROVE b \in Nat /\ b < 256 /\ 0 \in Bytes
BY DEF Bytes

(* Three bytes, and the four letters of six bits that hold them.         *)
LEMMA BytesOfTriple ==
    ASSUME NEW a \in Bytes, NEW b \in Bytes, NEW c \in Bytes, NEW n, n = 65536 * a + 256 * b + c
    PROVE  /\ n \in Triples
           /\ High(n) = a /\ Middle(n) = b /\ Low(n) = c
<1>1. n \in Triples /\ a \in Nat /\ b \in Nat /\ c \in Nat /\ a < 256 /\ b < 256 /\ c < 256
  BY SMT, ByteNat DEF Triples
<1>2. n \div 65536 = a
  BY SMT, <1>1
<1>3. n \div 256 = 256 * a + b
  BY SMT, <1>1
<1>4. n \div 1 = n /\ n % 256 = c
  BY SMT, <1>1
<1> QED
  BY SMT, <1>1, <1>2, <1>3, <1>4 DEF High, Middle, Low

LEMMA SextetIs ==
    ASSUME NEW n \in Nat
    PROVE  /\ Sextet(n, 0) = n % 64 /\ Sextet(n, 1) = (n \div 64) % 64
           /\ Sextet(n, 2) = (n \div 4096) % 64 /\ Sextet(n, 3) = (n \div 262144) % 64
           /\ \A k \in 0 .. 3 : Sextet(n, k) \in Nat /\ Sextet(n, k) < 64
<1>1. /\ Sextet(n, 0) = (n \div 1) % 64 /\ Sextet(n, 1) = (n \div 64) % 64
      /\ Sextet(n, 2) = (n \div 4096) % 64 /\ Sextet(n, 3) = (n \div 262144) % 64
  BY SMT DEF Sextet
<1>2. n \div 1 = n
  BY SMT
<1>3. /\ (n \div 64) \in Nat /\ (n \div 4096) \in Nat /\ (n \div 262144) \in Nat
  BY SMT
<1>4. \A x \in Nat : x % 64 \in Nat /\ x % 64 < 64
  BY SMT
<1>5. \A k \in 0 .. 3 : k = 0 \/ k = 1 \/ k = 2 \/ k = 3
  BY SMT
<1> QED
  BY SMT, <1>1, <1>2, <1>3, <1>4, <1>5

LEMMA SextetNat ==
    ASSUME NEW n \in Nat
    PROVE  /\ Sextet(n, 0) \in Nat /\ Sextet(n, 1) \in Nat /\ Sextet(n, 2) \in Nat /\ Sextet(n, 3) \in Nat
           /\ Sextet(n, 0) < 64 /\ Sextet(n, 1) < 64 /\ Sextet(n, 2) < 64 /\ Sextet(n, 3) < 64
<1> 0 \in 0 .. 3 /\ 1 \in 0 .. 3 /\ 2 \in 0 .. 3 /\ 3 \in 0 .. 3
  OBVIOUS
<1> QED
  BY SMT, SextetIs

LEMMA LowSextets ==
    ASSUME NEW n \in Nat
    PROVE  Sextet(n, 0) = n % 64 /\ Sextet(n, 1) = (n \div 64) % 64
<1>1. Sextet(n, 0) = (n \div 1) % 64 /\ Sextet(n, 1) = (n \div 64) % 64
  BY SMT DEF Sextet
<1>2. n \div 1 = n
  OBVIOUS
<1> QED
  BY <1>1, <1>2

LEMMA SextetsHold ==
    ASSUME NEW n \in Triples
    PROVE  64 * (64 * (64 * Sextet(n, 3) + Sextet(n, 2)) + Sextet(n, 1)) + Sextet(n, 0) = n
<1> DEFINE x == n \div 64
           y == n \div 4096
           z == n \div 262144
<1>1. x = 64 * y + (x % 64) /\ y = 64 * z + (y % 64) /\ n = 64 * x + (n % 64) /\ z % 64 = z
  BY SMT DEF Triples
<1>2. n \in Nat
  BY SMT DEF Triples
<1>3. /\ Sextet(n, 0) = n % 64 /\ Sextet(n, 1) = x % 64 /\ Sextet(n, 2) = y % 64 /\ Sextet(n, 3) = z % 64
  BY SMT, <1>2, SextetIs
<1> QED
  BY SMT, <1>1, <1>3

LEMMA EmptySextets ==
    ASSUME NEW a \in Bytes, NEW b \in Bytes
    PROVE  /\ Sextet(65536 * a + 256 * b, 0) = 0
           /\ Sextet(65536 * a, 0) = 0 /\ Sextet(65536 * a, 1) = 0
<1> DEFINE x == 65536 * a + 256 * b
           y == 65536 * a
<1>1. a \in Nat /\ b \in Nat
  BY ByteNat
<1>2. x \in Nat /\ y \in Nat /\ x % 64 = 0 /\ y % 64 = 0
  BY SMT, <1>1
<1>3. y \div 64 = 1024 * a /\ (1024 * a) % 64 = 0
  BY SMT, <1>1
<1> HIDE DEF x, y
<1>4. Sextet(x, 0) = x % 64 /\ Sextet(y, 0) = y % 64 /\ Sextet(y, 1) = (y \div 64) % 64
  <2>1. Sextet(x, 0) = x % 64
    BY <1>2, LowSextets
  <2>2. Sextet(y, 0) = y % 64 /\ Sextet(y, 1) = (y \div 64) % 64
    BY <1>2, LowSextets
  <2> QED
    BY <2>1, <2>2
<1>5. Sextet(x, 0) = 0 /\ Sextet(y, 0) = 0 /\ Sextet(y, 1) = 0
  BY SMT, <1>2, <1>3, <1>4
<1> QED
  BY SMT, <1>5 DEF x, y

(* The triples of m, filled up with zeros; there are Thirds(Len(m)).     *)
ByteAt(m, i) == IF i <= Len(m) THEN m[i] ELSE 0
Group(m, g) == 65536 * ByteAt(m, 3 * g + 1) + 256 * ByteAt(m, 3 * g + 2) + ByteAt(m, 3 * g + 3)
Thirds(n) == (n + 2) \div 3

LEMMA ByteAtType == ASSUME NEW m \in Seq(Bytes), NEW i \in Nat \ {0} PROVE ByteAt(m, i) \in Bytes
<1>1. i <= Len(m) => m[i] \in Bytes
  OBVIOUS
<1>2. 0 \in Bytes
  BY DEF Bytes
<1> QED
  BY <1>1, <1>2 DEF ByteAt

LEMMA GroupIs ==
    ASSUME NEW m \in Seq(Bytes), NEW g \in Nat
    PROVE  /\ Group(m, g) \in Triples
           /\ High(Group(m, g)) = ByteAt(m, 3 * g + 1)
           /\ Middle(Group(m, g)) = ByteAt(m, 3 * g + 2)
           /\ Low(Group(m, g)) = ByteAt(m, 3 * g + 3)
<1>1. 3 * g + 1 \in Nat \ {0} /\ 3 * g + 2 \in Nat \ {0} /\ 3 * g + 3 \in Nat \ {0}
  BY SMT
<1>2. ByteAt(m, 3 * g + 1) \in Bytes /\ ByteAt(m, 3 * g + 2) \in Bytes /\ ByteAt(m, 3 * g + 3) \in Bytes
  BY SMT, <1>1, ByteAtType
<1> QED
  BY SMT, <1>2, BytesOfTriple DEF Group

LEMMA GroupType == ASSUME NEW m \in Seq(Bytes), NEW g \in Nat PROVE Group(m, g) \in Nat
<1>1. Group(m, g) \in Triples
  BY GroupIs
<1>2. Triples \subseteq Nat
  BY SMT DEF Triples
<1> QED
  BY <1>1, <1>2

(* The letters after the last whole triple.                              *)
LEMMA RestIs ==
    ASSUME NEW m \in Seq(Bytes), NEW g \in Nat, NEW r \in 0 .. 2, Len(m) = 3 * g + r,
           NEW rest, rest = Rest(SubSeq(m, 3 * g + 1, Len(m)))
    PROVE  /\ rest \in Seq(Nat) /\ Len(rest) = IF r = 0 THEN 0 ELSE 4
           /\ r > 0 => /\ rest[1] = Sextet(Group(m, g), 3) /\ rest[2] = Sextet(Group(m, g), 2)
                       /\ rest[3] = IF r = 2 THEN Sextet(Group(m, g), 1) ELSE Pad
                       /\ rest[4] = Pad
                       /\ r = 1 => Sextet(Group(m, g), 1) = 0
                       /\ Sextet(Group(m, g), 0) = 0
<1> DEFINE tail == SubSeq(m, 3 * g + 1, Len(m))
           n == 65536 * tail[1] + (IF Len(tail) = 2 THEN 256 * tail[2] ELSE 0)
<1>1. /\ tail \in Seq(Bytes) /\ Len(tail) = r
      /\ \A i \in 1 .. r : tail[i] = m[3 * g + i]
  OBVIOUS
<1>2. Rest(tail) = IF tail = <<>> THEN <<>>
                   ELSE <<Sextet(n, 3), Sextet(n, 2), IF Len(tail) = 2 THEN Sextet(n, 1) ELSE Pad, Pad>>
  BY SMT DEF Rest
<1>5. rest = Rest(tail)
  OBVIOUS
<1> HIDE DEF tail
<1>3. CASE r = 0
  <2> HIDE DEF n
  <2>1. tail = <<>>
    BY <1>1, <1>3
  <2> QED
    <3>1. rest = <<>> /\ r = 0
      BY <1>2, <1>3, <1>5, <2>1
    <3>2. rest \in Seq(Nat) /\ Len(rest) = 0
      BY <3>1, EmptySeq
    <3> QED
      BY <3>1, <3>2
<1>4. CASE r > 0
  <2> DEFINE a == m[3 * g + 1]
             b == m[3 * g + 2]
  <2>1. tail # <<>> /\ tail[1] = a /\ a \in Bytes /\ ByteAt(m, 3 * g + 1) = a
    BY <1>1, <1>4 DEF ByteAt
  <2>2. ByteAt(m, 3 * g + 3) = 0
    BY <1>4 DEF ByteAt
  <2>3. n = Group(m, g) /\ Sextet(n, 0) = 0 /\ (r = 1 => Sextet(n, 1) = 0)
    <3>1. CASE r = 2
      <4>1. tail[2] = b /\ b \in Bytes /\ ByteAt(m, 3 * g + 2) = b
        BY <1>1, <3>1 DEF ByteAt
      <4>2. a \in Nat /\ b \in Nat
        BY <2>1, <4>1, ByteNat
      <4>3. Group(m, g) = 65536 * a + 256 * b + 0
        BY SMT, <2>1, <2>2, <4>1 DEF Group
      <4> HIDE DEF a, b
      <4>4. n = 65536 * a + 256 * b /\ Group(m, g) = 65536 * a + 256 * b
        BY SMT, <1>1, <2>1, <3>1, <4>1, <4>2, <4>3
      <4> HIDE DEF n
      <4> QED
        BY SMT, <2>1, <3>1, <4>1, <4>4, EmptySextets
    <3>2. CASE r = 1
      <4>1. ByteAt(m, 3 * g + 2) = 0
        BY <3>2 DEF ByteAt
      <4>2. a \in Nat
        BY <2>1, ByteNat
      <4>3. Group(m, g) = 65536 * a + 256 * 0 + 0
        BY SMT, <2>1, <2>2, <4>1 DEF Group
      <4> HIDE DEF a
      <4>4. n = 65536 * a /\ Group(m, g) = 65536 * a
        BY SMT, <1>1, <2>1, <3>2, <4>2, <4>3
      <4>5. 0 \in Bytes
        BY <2>1, ByteNat
      <4> HIDE DEF n
      <4> QED
        BY SMT, <2>1, <3>2, <4>4, <4>5, EmptySextets
    <3> QED
      BY <1>4, <3>1, <3>2
  <2>4. n \in Nat
    BY <2>3, GroupType
  <2> HIDE DEF n
  <2>5. /\ Sextet(n, 3) \in Nat /\ Sextet(n, 2) \in Nat /\ Sextet(n, 1) \in Nat /\ Pad \in Nat
    BY <2>4, SextetNat DEF Pad
  <2>6. Rest(tail) = <<Sextet(n, 3), Sextet(n, 2), IF r = 2 THEN Sextet(n, 1) ELSE Pad, Pad>>
    BY <1>1, <1>2, <2>1
  <2>7. /\ Rest(tail) \in Seq(Nat) /\ Len(Rest(tail)) = 4
        /\ Rest(tail)[1] = Sextet(n, 3) /\ Rest(tail)[2] = Sextet(n, 2)
        /\ Rest(tail)[3] = IF r = 2 THEN Sextet(n, 1) ELSE Pad
        /\ Rest(tail)[4] = Pad
    BY <2>5, <2>6
  <2> QED
    <3>1. /\ rest \in Seq(Nat) /\ Len(rest) = 4
          /\ rest[1] = Sextet(Group(m, g), 3) /\ rest[2] = Sextet(Group(m, g), 2)
          /\ rest[3] = IF r = 2 THEN Sextet(Group(m, g), 1) ELSE Pad
          /\ rest[4] = Pad
      BY <1>5, <2>3, <2>7
    <3>2. (r = 1 => Sextet(Group(m, g), 1) = 0) /\ Sextet(Group(m, g), 0) = 0
      BY <2>3
    <3>3. r # 0
      BY <1>4
    <3> QED
      BY <3>1, <3>2, <3>3
<1> QED
  BY <1>3, <1>4

(* Letter by letter.  Those of a last group that no byte reaches are =.  *)
LEMMA LettersAre ==
    ASSUME NEW m \in Seq(Bytes), NEW g \in Nat, NEW r \in 0 .. 2, Len(m) = 3 * g + r
    PROVE  /\ Base64(m) \in Seq(Nat) /\ Len(Base64(m)) = 4 * Thirds(Len(m))
           /\ \A q \in 0 .. Thirds(Len(m)) - 1 : \A k \in 0 .. 3 :
                 /\ Base64(m)[4 * q + 4 - k] =
                       IF q = g /\ k < 3 - r THEN Pad ELSE Sextet(Group(m, q), k)
                 /\ q = g /\ k < 3 - r => Sextet(Group(m, q), k) = 0
<1> DEFINE whole == [i \in 1 .. 4 * g |-> Sextet(Triple(m, (i - 1) \div 4), 3 - ((i - 1) % 4))]
           rest == Rest(SubSeq(m, 3 * g + 1, Len(m)))
<1>1. Len(m) \div 3 = g /\ Thirds(Len(m)) = IF r = 0 THEN g ELSE g + 1
  BY DEF Thirds
<1>2. Base64(m) = whole \o rest
  BY <1>1 DEF Base64
<1>3. ASSUME NEW q \in 0 .. g - 1 PROVE Triple(m, q) = Group(m, q)
  <2>1. 3 * q + 1 <= Len(m) /\ 3 * q + 2 <= Len(m) /\ 3 * q + 3 <= Len(m)
    OBVIOUS
  <2> QED
    BY SMT, <2>1 DEF Triple, Group, ByteAt
<1>4. ASSUME NEW q \in 0 .. g - 1, NEW k \in 0 .. 3
      PROVE  /\ 4 * q + 4 - k \in 1 .. 4 * g
             /\ whole[4 * q + 4 - k] = Sextet(Group(m, q), k)
  <2>1. /\ 4 * q + 4 - k \in 1 .. 4 * g
        /\ ((4 * q + 4 - k) - 1) \div 4 = q /\ 3 - (((4 * q + 4 - k) - 1) % 4) = k
    OBVIOUS
  <2> QED
    BY <1>3, <2>1
<1>5. whole \in Seq(Nat) /\ Len(whole) = 4 * g
  <2>1. ASSUME NEW i \in 1 .. 4 * g
        PROVE  Sextet(Triple(m, (i - 1) \div 4), 3 - ((i - 1) % 4)) \in Nat
    <3>1. (i - 1) \div 4 \in 0 .. g - 1 /\ 3 - ((i - 1) % 4) \in 0 .. 3
      OBVIOUS
    <3> DEFINE q == (i - 1) \div 4
               k == 3 - ((i - 1) % 4)
    <3>2. q \in 0 .. g - 1 /\ k \in 0 .. 3 /\ q \in Nat
      BY <3>1
    <3> HIDE DEF q, k
    <3>3. Triple(m, q) \in Nat
      <4>1. Triple(m, q) = Group(m, q)
        BY <1>3, <3>2
      <4> QED
        BY <3>2, <4>1, GroupType
    <3>4. Sextet(Triple(m, q), k) \in Nat
      <4>1. k = 0 \/ k = 1 \/ k = 2 \/ k = 3
        BY <3>2
      <4> QED
        BY <3>3, <4>1, SextetNat
    <3> QED
      BY <3>4 DEF q, k
  <2>2. 4 * g \in Nat
    OBVIOUS
  <2> QED
    BY <2>1, <2>2
<1>6. /\ rest \in Seq(Nat) /\ Len(rest) = IF r = 0 THEN 0 ELSE 4
      /\ r > 0 => /\ rest[1] = Sextet(Group(m, g), 3) /\ rest[2] = Sextet(Group(m, g), 2)
                  /\ rest[3] = IF r = 2 THEN Sextet(Group(m, g), 1) ELSE Pad
                  /\ rest[4] = Pad
                  /\ r = 1 => Sextet(Group(m, g), 1) = 0
                  /\ Sextet(Group(m, g), 0) = 0
  BY RestIs
<1> HIDE DEF whole, rest
<1>7. /\ whole \o rest \in Seq(Nat) /\ Len(whole \o rest) = 4 * g + Len(rest)
      /\ \A i \in 1 .. 4 * g + Len(rest) :
            (whole \o rest)[i] = IF i <= 4 * g THEN whole[i] ELSE rest[i - 4 * g]
  <2>1. /\ whole \o rest \in Seq(Nat) /\ Len(whole \o rest) = Len(whole) + Len(rest)
        /\ \A i \in 1 .. Len(whole) + Len(rest) :
              (whole \o rest)[i] = IF i <= Len(whole) THEN whole[i] ELSE rest[i - Len(whole)]
    BY <1>5, <1>6, ConcatProperties
  <2> QED
    BY <1>5, <2>1
<1>8. Len(Base64(m)) = 4 * Thirds(Len(m))
  <2>1. CASE r = 0
    BY <1>1, <1>2, <1>6, <1>7, <2>1
  <2>2. CASE r > 0
    <3>1. Len(rest) = 4 /\ Thirds(Len(m)) = g + 1
      BY <1>1, <1>6, <2>2
    <3> QED
      BY <1>2, <1>7, <3>1
  <2> QED
    BY <2>1, <2>2
<1>9. ASSUME NEW q \in 0 .. Thirds(Len(m)) - 1, NEW k \in 0 .. 3
      PROVE  /\ (whole \o rest)[4 * q + 4 - k] =
                   IF q = g /\ k < 3 - r THEN Pad ELSE Sextet(Group(m, q), k)
             /\ q = g /\ k < 3 - r => Sextet(Group(m, q), k) = 0
  <2>1. CASE q < g
    <3>1. q \in 0 .. g - 1
      BY <1>1, <2>1
    <3>2. 4 * q + 4 - k \in 1 .. 4 * g /\ whole[4 * q + 4 - k] = Sextet(Group(m, q), k)
      BY <1>4, <3>1
    <3>3. Len(rest) \in Nat
      BY <1>6
    <3>4. (whole \o rest)[4 * q + 4 - k] = whole[4 * q + 4 - k]
      BY <1>7, <3>2, <3>3
    <3> QED
      BY <2>1, <3>2, <3>4
  <2>2. CASE q = g /\ r > 0
    <3>1. 4 * q + 4 - k \in 1 .. 4 * g + 4 /\ ~ (4 * q + 4 - k <= 4 * g) /\ (4 * q + 4 - k) - 4 * g = 4 - k
      BY <2>2
    <3>2. (whole \o rest)[4 * q + 4 - k] = rest[4 - k]
      <4>1. Len(rest) = 4
        BY <1>6, <2>2
      <4> QED
        BY <1>7, <3>1, <4>1
    <3>3. k = 0 \/ k = 1 \/ k = 2 \/ k = 3
      OBVIOUS
    <3> QED
      BY <1>6, <2>2, <3>2, <3>3
  <2>3. q < g \/ (q = g /\ r > 0)
    <3>1. CASE r = 0
      BY <1>1, <3>1
    <3>2. CASE r > 0
      BY <1>1, <3>2
    <3> QED
      BY <3>1, <3>2
  <2> QED
    BY <2>1, <2>2, <2>3
<1> QED
  BY <1>2, <1>7, <1>8, <1>9

(* Base64 loses nothing.                                                 *)
LEMMA Base64Is ==
    ASSUME NEW m \in Seq(Bytes)
    PROVE  Base64Decodes(m)
<1> DEFINE n == Len(m)
           g == n \div 3
           r == n % 3
           letters == Base64(m)
           thirds == Thirds(n)
<1>1. /\ g \in Nat /\ r \in 0 .. 2 /\ n = 3 * g + r /\ n \in Nat
      /\ thirds \in Nat /\ thirds = IF r = 0 THEN g ELSE g + 1
  BY DEF Thirds
<1> HIDE DEF g, r, letters, thirds
<1>2. /\ letters \in Seq(Nat) /\ Len(letters) = 4 * thirds
      /\ \A q \in 0 .. thirds - 1 : \A k \in 0 .. 3 :
            /\ letters[4 * q + 4 - k] =
                  IF q = g /\ k < 3 - r THEN Pad ELSE Sextet(Group(m, q), k)
            /\ q = g /\ k < 3 - r => Sextet(Group(m, q), k) = 0
  BY <1>1, LettersAre DEF letters, thirds
<1>3. \A q \in Nat : /\ Sextet(Group(m, q), 0) # Pad /\ Sextet(Group(m, q), 1) # Pad
                     /\ Sextet(Group(m, q), 2) # Pad /\ Sextet(Group(m, q), 3) # Pad
  <2> SUFFICES ASSUME NEW q \in Nat
               PROVE  /\ Sextet(Group(m, q), 0) # Pad /\ Sextet(Group(m, q), 1) # Pad
                      /\ Sextet(Group(m, q), 2) # Pad /\ Sextet(Group(m, q), 3) # Pad
    OBVIOUS
  <2>1. Group(m, q) \in Nat
    BY GroupType
  <2>2. /\ Sextet(Group(m, q), 0) < 64 /\ Sextet(Group(m, q), 1) < 64
        /\ Sextet(Group(m, q), 2) < 64 /\ Sextet(Group(m, q), 3) < 64
    BY <2>1, SextetNat
  <2>3. /\ Sextet(Group(m, q), 0) \in Nat /\ Sextet(Group(m, q), 1) \in Nat
        /\ Sextet(Group(m, q), 2) \in Nat /\ Sextet(Group(m, q), 3) \in Nat
    BY <2>1, SextetNat
  <2> QED
    BY <2>2, <2>3 DEF Pad
(* The four letters of a group.                                          *)
<1>4. ASSUME NEW q \in 0 .. thirds - 1
      PROVE  /\ letters[4 * q + 1] = Sextet(Group(m, q), 3) /\ letters[4 * q + 2] = Sextet(Group(m, q), 2)
             /\ letters[4 * q + 3] = IF q = g /\ r = 1 THEN Pad ELSE Sextet(Group(m, q), 1)
             /\ letters[4 * q + 4] = IF q = g THEN Pad ELSE Sextet(Group(m, q), 0)
             /\ (q = g /\ r = 1 => Sextet(Group(m, q), 1) = 0) /\ (q = g => Sextet(Group(m, q), 0) = 0)
             /\ q = g => r > 0
  <2>1. /\ 4 * q + 4 - 3 = 4 * q + 1 /\ 4 * q + 4 - 2 = 4 * q + 2 /\ 4 * q + 4 - 1 = 4 * q + 3
        /\ 4 * q + 4 - 0 = 4 * q + 4 /\ 0 \in 0 .. 3 /\ 1 \in 0 .. 3 /\ 2 \in 0 .. 3 /\ 3 \in 0 .. 3
        /\ q = g => r > 0
    BY <1>1
  <2>2. /\ ~ (q = g /\ 3 < 3 - r) /\ ~ (q = g /\ 2 < 3 - r)
        /\ (q = g /\ 1 < 3 - r <=> q = g /\ r = 1) /\ (q = g /\ 0 < 3 - r <=> q = g)
    BY <1>1, <2>1
  <2> QED
    BY <1>2, <2>1, <2>2
<1>5. ASSUME NEW q \in 0 .. thirds - 1 PROVE Quantum(letters, q) = Group(m, q)
  <2> DEFINE s3 == Sextet(Group(m, q), 3)
             s2 == Sextet(Group(m, q), 2)
             s1 == Sextet(Group(m, q), 1)
             s0 == Sextet(Group(m, q), 0)
  <2>1. q \in Nat
    BY <1>1
  <2>2. Group(m, q) \in Triples
    BY SMT, <2>1, GroupIs
  <2>3. 64 * (64 * (64 * s3 + s2) + s1) + s0 = Group(m, q)
    BY SMT, <2>2, SextetsHold
  <2>4. /\ Letter(letters, 4 * q + 1) = s3 /\ Letter(letters, 4 * q + 2) = s2
        /\ Letter(letters, 4 * q + 3) = s1 /\ Letter(letters, 4 * q + 4) = s0
    <3> HIDE DEF Letter
    <3>1. /\ letters[4 * q + 1] = s3 /\ letters[4 * q + 2] = s2
          /\ letters[4 * q + 3] = IF q = g /\ r = 1 THEN Pad ELSE s1
          /\ letters[4 * q + 4] = IF q = g THEN Pad ELSE s0
          /\ (q = g /\ r = 1 => s1 = 0) /\ (q = g => s0 = 0)
      BY <1>4
    <3>2. s3 # Pad /\ s2 # Pad /\ s1 # Pad /\ s0 # Pad
      BY <1>3, <2>1
    <3> QED
      BY <3>1, <3>2 DEF Letter
  <2> HIDE DEF s3, s2, s1, s0
  <2>5. Quantum(letters, q) = 64 * (64 * (64 * s3 + s2) + s1) + s0
    BY <2>4 DEF Quantum
  <2> QED
    BY <2>3, <2>5
<1>6. Paddings(letters) = IF r = 0 THEN 0 ELSE 3 - r
  <2>1. CASE thirds = 0
    BY <1>1, <1>2, <2>1 DEF Paddings
  <2>2. CASE thirds > 0
    <3> DEFINE q == thirds - 1
    <3>1. q \in 0 .. thirds - 1 /\ q \in Nat /\ 4 * q + 4 = 4 * thirds /\ 4 * q + 3 = 4 * thirds - 1
          /\ 4 * thirds # 0 /\ (q = g <=> r # 0)
      BY <1>1, <2>2
    <3> HIDE DEF q
    <3>2. /\ letters[4 * q + 3] = IF q = g /\ r = 1 THEN Pad ELSE Sextet(Group(m, q), 1)
          /\ letters[4 * q + 4] = IF q = g THEN Pad ELSE Sextet(Group(m, q), 0)
      BY <1>4, <3>1
    <3>3. Sextet(Group(m, q), 0) # Pad /\ Sextet(Group(m, q), 1) # Pad
      BY <1>3, <3>1
    <3>4. Paddings(letters) = IF letters[4 * q + 4] # Pad THEN 0
                              ELSE IF letters[4 * q + 3] # Pad THEN 1 ELSE 2
      BY <1>2, <3>1 DEF Paddings
    <3>5. r = 0 \/ r = 1 \/ r = 2
      BY <1>1
    <3> QED
      BY <3>1, <3>2, <3>3, <3>4, <3>5
  <2> QED
    BY <1>1, <2>1, <2>2
<1>7. 3 * (Len(letters) \div 4) - Paddings(letters) = n
  <2>1. Len(letters) \div 4 = thirds
    BY <1>1, <1>2
  <2>2. r = 0 \/ r = 1 \/ r = 2
    BY <1>1
  <2> QED
    BY <1>1, <1>6, <2>1, <2>2
<1>8. ASSUME NEW i \in 1 .. n
      PROVE  (Quantum(letters, (i - 1) \div 3) \div <<65536, 256, 1>>[1 + ((i - 1) % 3)]) % 256 = m[i]
  <2> DEFINE q == (i - 1) \div 3
             k == (i - 1) % 3
  <2>1. q \in Nat /\ q \in 0 .. thirds - 1 /\ k \in 0 .. 2 /\ i = 3 * q + k + 1
    BY <1>1
  <2> HIDE DEF q, k
  <2>2. Quantum(letters, q) = Group(m, q)
    BY <1>5, <2>1
  <2>3. ByteAt(m, i) = m[i]
    BY DEF ByteAt, n
  <2>4. k = 0 \/ k = 1 \/ k = 2
    BY <2>1
  <2>5. CASE k = 0
    <3>1. i = 3 * q + 1
      BY <2>1, <2>5
    <3>2. High(Group(m, q)) = m[i]
      BY <2>1, <2>3, <3>1, GroupIs
    <3> QED
      BY SMT, <2>2, <2>5, <3>2 DEF q, k, High, Middle, Low
  <2>6. CASE k = 1
    <3>1. i = 3 * q + 2
      BY <2>1, <2>6
    <3>2. Middle(Group(m, q)) = m[i]
      BY <2>1, <2>3, <3>1, GroupIs
    <3> QED
      BY SMT, <2>2, <2>6, <3>2 DEF q, k, High, Middle, Low
  <2>7. CASE k = 2
    <3>1. i = 3 * q + 3
      BY <2>1, <2>7
    <3>2. Low(Group(m, q)) = m[i]
      BY <2>1, <2>3, <3>1, GroupIs
    <3> QED
      BY SMT, <2>2, <2>7, <3>2 DEF q, k, High, Middle, Low
  <2> QED
    BY <2>4, <2>5, <2>6, <2>7
<1>9. Base64Decoded(letters) = m
  <2>1. Base64Decoded(letters) =
           [i \in 1 .. n |-> (Quantum(letters, (i - 1) \div 3) \div <<65536, 256, 1>>[1 + ((i - 1) % 3)]) % 256]
    BY SMT, <1>7 DEF Base64Decoded
  <2>2. m = [i \in 1 .. n |-> m[i]]
    OBVIOUS
  <2> QED
    BY SMT, <1>8, <2>1, <2>2
<1>10. ASSUME NEW i \in 1 .. Len(letters) - 2 PROVE letters[i] # Pad
  <2> DEFINE q == (i - 1) \div 4
             k == (i - 1) % 4
  <2>1. q \in Nat /\ q \in 0 .. thirds - 1 /\ k \in 0 .. 3 /\ i = 4 * q + k + 1 /\ (q = g => k = 0 \/ k = 1)
    <3>1. /\ q \in Nat /\ k \in 0 .. 3 /\ i = 4 * q + k + 1
      OBVIOUS
    <3> HIDE DEF q, k
    <3>2. i <= 4 * thirds - 2
      BY <1>1, <1>2
    <3> QED
      BY <1>1, <3>1, <3>2
  <2> HIDE DEF q, k
  <2>2. CASE k = 0
    BY <1>3, <1>4, <2>1, <2>2
  <2>3. CASE k = 1
    BY <1>3, <1>4, <2>1, <2>3
  <2>4. CASE k = 2
    BY <1>3, <1>4, <2>1, <2>4
  <2>5. CASE k = 3
    BY <1>3, <1>4, <2>1, <2>5
  <2> QED
    BY <2>1, <2>2, <2>3, <2>4, <2>5
<1> QED
  BY <1>2, <1>9, <1>10 DEF Base64Decodes, letters, thirds, Thirds

-----------------------------------------------------------------------------
(* The answer to a handshake.                                            *)

LEMMA ByteOfIs ==
    ASSUME NEW word \in Word, NEW k \in 1 .. 4
    PROVE  /\ ByteOf(word, k) \in Bytes
           /\ \A c \in 0 .. 7 : BitOf(ByteOf(word, k), c) <=> 8 * (4 - k) + c \in word
<1> DEFINE One(i) == IF 8 * (5 - k) - i \in word THEN 1 ELSE 0
<1>1. PICK f \in [0 .. 8 -> Nat] :
         /\ f[0] = 0
         /\ \A i \in 1 .. 8 : f[i] = 2 * f[i - 1] + (IF 8 * (5 - k) - i \in word THEN 1 ELSE 0)
         /\ \A i \in 0 .. 8 : f[i] \in Nat
         /\ ByteOf(word, k) = f[8]
  BY ByteOfLoop
<1>2. /\ f[0] = 0 /\ f[1] = 2 * f[0] + One(1) /\ f[2] = 2 * f[1] + One(2) /\ f[3] = 2 * f[2] + One(3)
      /\ f[4] = 2 * f[3] + One(4) /\ f[5] = 2 * f[4] + One(5) /\ f[6] = 2 * f[5] + One(6)
      /\ f[7] = 2 * f[6] + One(7) /\ f[8] = 2 * f[7] + One(8)
  BY <1>1
<1>3. \A i \in 1 .. 8 : One(i) = 0 \/ One(i) = 1
  OBVIOUS
<1>4. ASSUME NEW i \in 1 .. 8 PROVE f[i] = 2 * f[i - 1] + One(i) /\ f[i - 1] \in Nat
  <2>1. i - 1 \in 0 .. 8
    OBVIOUS
  <2>2. f[i - 1] \in Nat
    BY <2>1
  <2> QED
    BY <1>1, <2>2
<1> HIDE DEF One
<1>5. f[8] \in Bytes
  <2>1. \A i \in 1 .. 8 : One(i) \in Nat /\ One(i) <= 1
    BY <1>3
  <2>2. /\ One(1) \in Nat /\ One(1) <= 1 /\ One(2) \in Nat /\ One(2) <= 1
        /\ One(3) \in Nat /\ One(3) <= 1 /\ One(4) \in Nat /\ One(4) <= 1
        /\ One(5) \in Nat /\ One(5) <= 1 /\ One(6) \in Nat /\ One(6) <= 1
        /\ One(7) \in Nat /\ One(7) <= 1 /\ One(8) \in Nat /\ One(8) <= 1
    BY <2>1
  <2>3. f[8] \in Nat /\ f[8] <= 255
    BY <1>2, <2>2
  <2> QED
    BY <2>3 DEF Bytes
<1>6. ASSUME NEW i \in 1 .. 8 PROVE f[i] \div 2 = f[i - 1] /\ (f[i] % 2 = 1 <=> One(i) = 1)
  <2> DEFINE x == f[i - 1]
             y == One(i)
  <2>1. f[i] = 2 * x + y /\ x \in Nat /\ (y = 0 \/ y = 1)
    BY <1>3, <1>4
  <2> HIDE DEF x, y
  <2>2. f[i] \div 2 = x /\ (f[i] % 2 = 1 <=> y = 1)
    BY <2>1
  <2> QED
    BY <2>2 DEF x, y
<1>7. \A c \in 0 .. 7 : Halved(f[8], c) = f[8 - c]
  <2> DEFINE T == {c \in 0 .. 7 : Halved(f[8], c) = f[8 - c]}
  <2>1. /\ f[8] \in Nat /\ Halved(f[8], 0) = f[8]
        /\ \A c \in 0 .. 6 : Halved(f[8], c + 1) = Halved(f[8], c) \div 2
    BY <1>1, EightHalves
  <2>2. 0 \in T
    BY <2>1
  <2>3. ASSUME NEW c \in 1 .. 7, c - 1 \in T PROVE c \in T
    <3>1. c - 1 \in 0 .. 6 /\ (c - 1) + 1 = c /\ 8 - (c - 1) \in 1 .. 8 /\ (8 - (c - 1)) - 1 = 8 - c
      OBVIOUS
    <3>2. Halved(f[8], c) = Halved(f[8], c - 1) \div 2
      BY <2>1, <3>1
    <3>3. f[8 - (c - 1)] \div 2 = f[8 - c]
      BY <1>6, <3>1
    <3> QED
      BY <2>3, <3>2, <3>3
  <2> HIDE DEF T
  <2>4. 0 .. 7 \subseteq T
    BY <2>2, <2>3, UpTo
  <2> QED
    BY <2>4 DEF T
<1>8. ASSUME NEW c \in 0 .. 7 PROVE BitOf(f[8], c) <=> 8 * (4 - k) + c \in word
  <2>1. 8 - c \in 1 .. 8 /\ 8 * (5 - k) - (8 - c) = 8 * (4 - k) + c
    OBVIOUS
  <2>2. BitOf(f[8], c) <=> One(8 - c) = 1
    BY <1>6, <1>7, <2>1 DEF BitOf
  <2> QED
    BY <2>1, <2>2 DEF One
<1> QED
  BY <1>1, <1>5, <1>8

LEMMA BytesOfIs ==
    ASSUME NEW words \in Words(5)
    PROVE  /\ BytesOf(words) \in Seq(Bytes) /\ Len(BytesOf(words)) = 20
           /\ \A t \in 1 .. 5 : WordOf(SubSeq(BytesOf(words), 4 * t - 3, 4 * t)) = words[t]
<1> DEFINE bytes == BytesOf(words)
<1>1. Len(words) = 5 /\ \A t \in 1 .. 5 : words[t] \in Word
  BY WordsAreSequences DEF Words
<1>2. bytes = [i \in 1 .. 20 |-> ByteOf(words[1 + ((i - 1) \div 4)], 1 + ((i - 1) % 4))]
  BY <1>1 DEF BytesOf
<1> HIDE DEF bytes
<1>3. bytes \in Seq(Bytes) /\ Len(bytes) = 20
  <2>1. ASSUME NEW i \in 1 .. 20
        PROVE  ByteOf(words[1 + ((i - 1) \div 4)], 1 + ((i - 1) % 4)) \in Bytes
    <3>1. 1 + ((i - 1) \div 4) \in 1 .. 5 /\ 1 + ((i - 1) % 4) \in 1 .. 4
      OBVIOUS
    <3> QED
      BY <1>1, <3>1, ByteOfIs
  <2> QED
    BY <1>2, <2>1
<1>4. ASSUME NEW t \in 1 .. 5 PROVE WordOf(SubSeq(bytes, 4 * t - 3, 4 * t)) = words[t]
  <2> DEFINE four == SubSeq(bytes, 4 * t - 3, 4 * t)
  <2>1. ASSUME NEW j \in 1 .. 4 PROVE four[j] = ByteOf(words[t], j)
    <3>1. /\ 4 * t - 4 + j \in 1 .. 20 /\ 1 + (((4 * t - 4 + j) - 1) \div 4) = t
          /\ 1 + (((4 * t - 4 + j) - 1) % 4) = j
      OBVIOUS
    <3>2. bytes[4 * t - 4 + j] = ByteOf(words[t], j)
      BY <1>2, <3>1
    <3>3. four[j] = bytes[4 * t - 4 + j]
      BY <1>3
    <3> QED
      BY <3>2, <3>3
  <2> HIDE DEF four
  <2>2. ASSUME NEW b \in Bit PROVE BitOf(four[4 - (b \div 8)], b % 8) <=> b \in words[t]
    <3> DEFINE j == 4 - (b \div 8)
               c == b % 8
    <3>1. j \in 1 .. 4 /\ c \in 0 .. 7 /\ 8 * (4 - j) + c = b
      BY BitNumbers
    <3> HIDE DEF j, c
    <3>2. four[j] = ByteOf(words[t], j) /\ words[t] \in Word
      BY <1>1, <2>1, <3>1
    <3>3. BitOf(ByteOf(words[t], j), c) <=> 8 * (4 - j) + c \in words[t]
      BY <3>1, <3>2, ByteOfIs
    <3>4. BitOf(four[j], c) <=> b \in words[t]
      BY <3>1, <3>2, <3>3
    <3> QED
      BY <3>4 DEF j, c
  <2>3. WordOf(four) = {b \in Bit : b \in words[t]}
    BY <2>2 DEF WordOf
  <2>4. words[t] \subseteq Bit
    BY <1>1 DEF Word
  <2> QED
    BY <2>3, <2>4 DEF four
<1> QED
  BY <1>3, <1>4 DEF bytes

-----------------------------------------------------------------------------
(* What sha1 (telemetry_server.cpp:46), sha256_hex (config_archive.cpp:36) *)
(* and base64_encode (telemetry_server.cpp:116) return for any message,  *)
(* however long: the digests of RFC 3174 and of FIPS 180-4, letters from *)
(* which the bytes can be had back, and the answer to a handshake that is*)
(* the digest.                                                           *)
THEOREM DigestsMatchStandards ==
    \A message \in Seq(0 .. 255) : AsSpecified(message)
<1> SUFFICES ASSUME NEW m \in Seq(Bytes) PROVE AsSpecified(m)
  BY DEF Bytes
<1> DEFINE digest == Sha1Digest(m)
           bytes == BytesOf(digest)
<1>1. Sha1(m) = digest /\ digest \in Words(5)
  BY Sha1Agrees
<1>2. Sha256(m) = Sha256Digest(m)
  BY Sha256Agrees
<1>3. Base64Decodes(m)
  BY Base64Is
<1>4. /\ bytes \in Seq(Bytes) /\ Len(bytes) = 20
      /\ \A t \in 1 .. 5 : WordOf(SubSeq(bytes, 4 * t - 3, 4 * t)) = digest[t]
  BY <1>1, BytesOfIs
<1>5. AcceptKey(m) = Base64(bytes)
  BY <1>1 DEF AcceptKey
<1> HIDE DEF digest, bytes
<1>6. Base64Decoded(AcceptKey(m)) = bytes
  BY <1>4, <1>5, Base64Is DEF Base64Decodes
<1> QED
  BY <1>1, <1>2, <1>3, <1>4, <1>6 DEF AsSpecified, digest

-----------------------------------------------------------------------------

(* However long what a handshake hashes, sha1 and base64_encode compute for *)
(* it what their standards say, and sha256_hex what FIPS 180-4 does.        *)
THEOREM HandshakesAreAnswered == ConnectionSpec => []DigestsAsSpecified
<1>1. ConnectionInit => key \in Nat
  BY DEF ConnectionInit
<1>2. key \in Nat /\ [ConnectionNext]_connectionVars => (key \in Nat)'
  <2> SUFFICES ASSUME key \in Nat, [ConnectionNext]_connectionVars PROVE key' \in Nat
    OBVIOUS
  <2>1. ASSUME ReadKeyByte PROVE key' \in Nat
    BY <2>1 DEF ReadKeyByte
  <2>2. ASSUME Upgrade PROVE key' \in Nat
    BY <2>2 DEF Upgrade
  <2>3. ASSUME NEW f \in ClientFrames, Speak(f) PROVE key' \in Nat
    BY <2>3 DEF Speak
  <2>4. ASSUME \/ Arrive \/ FindNothing \/ ReadHeader \/ ReadLength \/ ReadMask \/ ReadPayload
               \/ Ignore \/ OmitText \/ SendBytes
        PROVE  key' \in Nat
    <3>1. Arrive => key' = key
      BY DEF Arrive
    <3>2. ReadHeader => key' = key
      BY DEF ReadHeader
    <3>3. ReadLength => key' = key
      BY DEF ReadLength
    <3>4. ReadMask => key' = key
      BY DEF ReadMask
    <3>5. ReadPayload => key' = key
      BY DEF ReadPayload, Receive
    <3>6. SendBytes => key' = key
      BY DEF SendBytes
    <3>7. FindNothing \/ Ignore \/ OmitText => key' = key
      BY DEF FindNothing, Ignore, OmitText
    <3> QED
      BY <2>4, <3>1, <3>2, <3>3, <3>4, <3>5, <3>6, <3>7
  <2>5. ASSUME HandleClose \/ HandlePing \/ SendText PROVE key' \in Nat
    BY <2>5 DEF HandleClose, HandlePing, SendText, Answer, Begin
  <2>6. ASSUME UNCHANGED connectionVars PROVE key' \in Nat
    BY <2>6 DEF connectionVars
  <2> QED
    BY <2>1, <2>2, <2>3, <2>4, <2>5, <2>6 DEF ConnectionNext
<1>3. key \in Nat => DigestsAsSpecified
  <2> SUFFICES ASSUME key \in Nat PROVE AsSpecified(Message)
    BY DEF DigestsAsSpecified
  <2>1. \A i \in 1 .. key : (37 * i + 11) % 256 \in 0 .. 255
    <3> SUFFICES ASSUME NEW n \in Nat PROVE n % 256 \in Nat /\ n % 256 <= 255
      OBVIOUS
    <3> QED
      OBVIOUS
  <2>2. Message \in Seq(0 .. 255)
    BY <2>1 DEF Message
  <2> QED
    BY <2>2, DigestsMatchStandards
<1> QED
  BY <1>1, <1>2, <1>3, PTL DEF ConnectionSpec

=============================================================================
