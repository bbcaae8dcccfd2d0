---------------------------- MODULE FormatProofs ----------------------------
(***************************************************************************)
(* Proofs about CellCodec and CellKey, for bytes, words, strings and keys  *)
(* of any size: C and Rust write the same bytes, find the same values in   *)
(* them and draw the line between keys and other strings at the same       *)
(* place.  The loops of the code are recursive functions; what they        *)
(* compute is proved by induction on the number of their turns.            *)
(***************************************************************************)
EXTENDS CellCodec, CellKey, SequenceTheorems, WellFoundedInduction, TLAPS

(* Induction up to a bound, over a set of numbers. *)
LEMMA Turns ==
  ASSUME NEW n \in Nat, NEW P, 0 \in P, \A i \in 0 .. n : i < n /\ i \in P => i + 1 \in P
  PROVE  \A i \in 0 .. n : i \in P
<1> SUFFICES ASSUME NEW j \in 0 .. n, j \notin P PROVE FALSE
  OBVIOUS
<1> DEFINE Less == {ss \in Nat \X Nat : ss[1] < ss[2]}
           Q    == {i \in 0 .. n : i \notin P}
<1>1. IsWellFoundedOn(Less, Nat)
  BY NatLessThanWellFounded DEF OpToRel
<1>2. Q \subseteq Nat /\ Q # {}
  OBVIOUS
<1>3. PICK m \in Q : \A k \in Q : ~(<<k, m>> \in Less)
  <2> HIDE DEF Less, Q
  <2> QED BY <1>1, <1>2, WFMin
<1>4. m # 0 /\ m - 1 \in 0 .. n /\ m - 1 < n /\ (m - 1) + 1 = m
  OBVIOUS
<1>5. m - 1 \notin Q
  <2>1. <<m - 1, m>> \in Less
    BY <1>4
  <2> QED BY <1>3, <2>1
<1> QED BY <1>4, <1>5

(* f is a loop's variable by the number of turns made: a at first, and     *)
(* turn i makes the next value from i and the last one.                    *)
Iterates(f, n, S, a, step) ==
  /\ f \in [0 .. n -> S] /\ f[0] = a
  /\ \A i \in 1 .. n : f[i] = step[<<i, f[i - 1]>>]

(* A function defined by such a recursion exists. *)
LEMMA Recursion ==
  ASSUME NEW n \in Nat, NEW S, NEW a \in S, NEW step \in [(1 .. n) \X S -> S]
  PROVE  \E f : Iterates(f, n, S, a, step)
<1> DEFINE Upto(k, f) == f[0] = a /\ \A i \in 1 .. k : f[i] = step[<<i, f[i - 1]>>]
           P == {k \in 0 .. n : \E f \in [0 .. k -> S] : Upto(k, f)}
<1>1. 0 \in P
  <2> DEFINE f == [i \in 0 .. 0 |-> a]
  <2>1. f \in [0 .. 0 -> S] /\ Upto(0, f)
    OBVIOUS
  <2> HIDE DEF f
  <2> QED BY <2>1
<1>2. ASSUME NEW k \in 0 .. n, k < n, k \in P PROVE k + 1 \in P
  <2>1. PICK f \in [0 .. k -> S] : Upto(k, f)
    BY <1>2
  <2> DEFINE g == [i \in 0 .. (k + 1) |-> IF i <= k THEN f[i] ELSE step[<<k + 1, f[k]>>]]
  <2>2. step[<<k + 1, f[k]>>] \in S
    <3>1. <<k + 1, f[k]>> \in (1 .. n) \X S
      BY <1>2
    <3> QED BY <3>1
  <2>3. g \in [0 .. (k + 1) -> S]
    BY <2>2
  <2>4. Upto(k + 1, g)
    <3>1. g[0] = a
      BY <2>1
    <3>2. ASSUME NEW i \in 1 .. (k + 1) PROVE g[i] = step[<<i, g[i - 1]>>]
      <4>1. CASE i <= k
        BY <2>1, <4>1
      <4>2. CASE i = k + 1
        <5>1. g[i] = step[<<k + 1, f[k]>>] /\ g[i - 1] = f[k]
          BY <4>2
        <5> QED BY <4>2, <5>1
      <4> QED BY <4>1, <4>2
    <3> QED BY <3>1, <3>2
  <2>5. k + 1 \in 0 .. n
    BY <1>2
  <2> QED BY <2>3, <2>4, <2>5
<1>3. \A i \in 0 .. n : i \in P
  <2> HIDE DEF P
  <2> QED BY <1>1, <1>2, Turns
<1> QED BY <1>3 DEF Iterates

-----------------------------------------------------------------------------
(* Numbers and their bytes. *)

(* Pow is the function its equation says. *)
LEMMA PowEquation ==
  /\ Pow[0] = 1 /\ \A n \in 1 .. 2 * Word : Pow[n] = Base * Pow[n - 1]
  /\ \A n \in 0 .. 2 * Word : Pow[n] \in Nat \ {0}
<1> DEFINE N    == 2 * Word
           S    == Nat \ {0}
           step == [x \in (1 .. N) \X S |-> Base * x[2]]
<1>1. N \in Nat /\ 1 \in S /\ step \in [(1 .. N) \X S -> S]
  BY CodecAssumption
<1>2. PICK f : Iterates(f, N, S, 1, step)
  <2> HIDE DEF N, S, step
  <2> QED BY <1>1, Recursion
<1>3. \A i \in 1 .. N : f[i] = Base * f[i - 1]
  <2> SUFFICES ASSUME NEW i \in 1 .. N PROVE f[i] = Base * f[i - 1]
    OBVIOUS
  <2>1. <<i, f[i - 1]>> \in (1 .. N) \X S
    BY <1>1, <1>2 DEF Iterates
  <2> QED BY <1>2, <2>1 DEF Iterates
<1>4. f = [n \in 0 .. 2 * Word |-> IF n = 0 THEN 1 ELSE Base * f[n - 1]]
  BY <1>1, <1>2, <1>3 DEF Iterates
<1>5. Pow = [n \in 0 .. 2 * Word |-> IF n = 0 THEN 1 ELSE Base * Pow[n - 1]]
  BY <1>4 DEF Pow
<1>6. Pow[0] = 1 /\ \A n \in 1 .. N : Pow[n] = Base * Pow[n - 1]
  BY <1>1, <1>5
<1>7. \A n \in 0 .. N : Pow[n] \in Nat \ {0}
  <2> DEFINE P == {n \in 0 .. N : Pow[n] \in Nat \ {0}}
  <2>1. 0 \in P
    BY <1>1, <1>6
  <2>2. ASSUME NEW i \in 0 .. N, i < N, i \in P PROVE i + 1 \in P
    <3>1. i + 1 \in 1 .. N /\ (i + 1) - 1 = i
      BY <1>1, <2>2
    <3>2. Pow[i + 1] = Base * Pow[i] /\ Pow[i] \in Nat \ {0}
      BY <1>6, <2>2, <3>1
    <3> QED BY <1>1, <3>1, <3>2, CodecAssumption
  <2>3. \A i \in 0 .. N : i \in P
    <3> HIDE DEF P, N
    <3> QED BY <1>1, <2>1, <2>2, Turns
  <2> QED BY <2>3
<1> QED BY <1>6, <1>7

(* The sum a decoder makes of n bytes, by the number of them it has added. *)
Sum(p, n) ==
  LET v[i \in 0 .. n] == IF i = 0 THEN 0 ELSE v[i - 1] + p[i] * Pow[i - 1]
  IN  v

LEMMA SumEquation ==
  ASSUME NEW n \in 0 .. 2 * Word, NEW p, \A i \in 1 .. n : p[i] \in Byte
  PROVE  /\ Sum(p, n)[0] = 0
         /\ \A i \in 1 .. n : Sum(p, n)[i] = Sum(p, n)[i - 1] + p[i] * Pow[i - 1]
         /\ \A i \in 0 .. n : Sum(p, n)[i] \in 0 .. (Pow[i] - 1)
<1> DEFINE step == [x \in (1 .. n) \X Nat |-> x[2] + p[x[1]] * Pow[x[1] - 1]]
           s == Sum(p, n)
<1>0. n \in Nat /\ Base \in Nat /\ Base > 5 /\ \A i \in 0 .. n : Pow[i] \in Nat \ {0}
  BY PowEquation, CodecAssumption
<1>1. step \in [(1 .. n) \X Nat -> Nat]
  <2>1. ASSUME NEW i \in 1 .. n PROVE p[i] * Pow[i - 1] \in Nat
    <3>1. p[i] \in Nat /\ Pow[i - 1] \in Nat
      BY <1>0 DEF Byte
    <3> QED BY <3>1
  <2> QED BY <2>1
<1>2. PICK f : Iterates(f, n, Nat, 0, step)
  <2> HIDE DEF step
  <2>1. n \in Nat /\ 0 \in Nat /\ step \in [(1 .. n) \X Nat -> Nat]
    BY <1>0, <1>1
  <2> QED BY <2>1, Recursion
<1>3. \A i \in 1 .. n : f[i] = f[i - 1] + p[i] * Pow[i - 1]
  <2> SUFFICES ASSUME NEW i \in 1 .. n PROVE f[i] = f[i - 1] + p[i] * Pow[i - 1]
    OBVIOUS
  <2>1. <<i, f[i - 1]>> \in (1 .. n) \X Nat
    BY <1>0, <1>2 DEF Iterates
  <2> QED BY <1>2, <2>1 DEF Iterates
<1>4. f = [i \in 0 .. n |-> IF i = 0 THEN 0 ELSE f[i - 1] + p[i] * Pow[i - 1]]
  BY <1>0, <1>2, <1>3 DEF Iterates
<1>5. s = [i \in 0 .. n |-> IF i = 0 THEN 0 ELSE s[i - 1] + p[i] * Pow[i - 1]]
  BY <1>4 DEF Sum
<1> HIDE DEF s
<1>6. s[0] = 0 /\ \A i \in 1 .. n : s[i] = s[i - 1] + p[i] * Pow[i - 1]
  BY <1>0, <1>5
<1>7. \A i \in 0 .. n : s[i] \in 0 .. (Pow[i] - 1)
  <2> DEFINE P == {i \in 0 .. n : s[i] \in 0 .. (Pow[i] - 1)}
  <2>1. 0 \in P
    BY <1>0, <1>6, PowEquation
  <2>2. ASSUME NEW i \in 0 .. n, i < n, i \in P PROVE i + 1 \in P
    <3>1. i + 1 \in 1 .. n /\ (i + 1) - 1 = i /\ i + 1 \in 1 .. 2 * Word
      BY <1>0, <2>2, CodecAssumption
    <3>2. s[i + 1] = s[i] + p[i + 1] * Pow[i] /\ Pow[i + 1] = Base * Pow[i]
      BY <1>6, <3>1, PowEquation
    <3>3. /\ s[i] \in Nat /\ s[i] < Pow[i] /\ Pow[i] \in Nat \ {0}
          /\ p[i + 1] \in Nat /\ p[i + 1] <= Base - 1
      BY <1>0, <2>2, <3>1 DEF Byte
    <3>4. s[i + 1] \in Nat /\ s[i + 1] < Pow[i + 1]
      <4> DEFINE w == Pow[i]
                 b == p[i + 1]
      <4>1. b * w \in Nat /\ b * w <= (Base - 1) * w /\ (Base - 1) * w = Base * w - w
        <5>1. w \in Nat /\ b \in Nat /\ b <= Base - 1 /\ Base \in Nat
          BY <1>0, <3>3
        <5> HIDE DEF w, b
        <5> QED BY <5>1
      <4> QED BY <1>0, <3>2, <3>3, <4>1
    <3>5. Pow[i + 1] \in Nat
      BY <1>0, <3>1
    <3> QED BY <3>1, <3>4, <3>5
  <2>3. \A i \in 0 .. n : i \in P
    <3> HIDE DEF P
    <3> QED BY <1>0, <2>1, <2>2, Turns
  <2> QED BY <2>3
<1> QED BY <1>6, <1>7 DEF s

LEMMA DivMod ==
  ASSUME NEW a \in Nat, NEW b \in Nat \ {0}
  PROVE  /\ a \div b \in Nat /\ a % b \in 0 .. (b - 1) /\ a = b * (a \div b) + (a % b)
         /\ a < b => a \div b = 0 /\ a % b = a
OBVIOUS

LEMMA DivDiv ==
  ASSUME NEW a \in Nat, NEW b \in Nat \ {0}, NEW c \in Nat \ {0}
  PROVE  (a \div b) \div c = a \div (b * c)
OBVIOUS

(* Dividing by one more power is dividing by Base once more. *)
LEMMA DivPow ==
  ASSUME NEW v \in Nat, NEW i \in 0 .. 2 * Word, i < 2 * Word
  PROVE  /\ v \div Pow[i] \in Nat /\ v \div Pow[i + 1] = (v \div Pow[i]) \div Base
         /\ Pow[i] \in Nat \ {0} /\ Pow[i + 1] = Base * Pow[i]
<1>1. /\ i + 1 \in 1 .. 2 * Word /\ (i + 1) - 1 = i /\ Pow[i] \in Nat \ {0}
      /\ Base \in Nat \ {0}
  BY CodecAssumption, PowEquation
<1>2. Pow[i + 1] = Base * Pow[i]
  BY <1>1, PowEquation
<1>3. (v \div Pow[i]) \div Base = v \div (Pow[i] * Base) /\ v \div Pow[i] \in Nat
  BY <1>1, DivDiv, DivMod
<1>4. Pow[i] * Base = Base * Pow[i]
  BY <1>1
<1> QED BY <1>1, <1>2, <1>3, <1>4

(* The digits of a number add up to it. *)
LEMMA SumDigits ==
  ASSUME NEW n \in 0 .. 2 * Word, NEW v \in 0 .. (Pow[n] - 1), NEW p,
         \A i \in 1 .. n : p[i] = (v \div Pow[i - 1]) % Base
  PROVE  (\A i \in 1 .. n : p[i] \in Byte) /\ Sum(p, n)[n] = v
<1>0. /\ n \in Nat /\ Word \in Nat /\ Base \in Nat \ {0} /\ Pow[n] \in Nat \ {0} /\ v \in Nat
      /\ v < Pow[n] /\ \A i \in 0 .. n : Pow[i] \in Nat \ {0}
  BY PowEquation, CodecAssumption
<1>1. \A i \in 1 .. n : p[i] \in Byte
  <2> SUFFICES ASSUME NEW i \in 1 .. n PROVE p[i] \in Byte
    OBVIOUS
  <2>0. i - 1 \in 0 .. n /\ Pow[i - 1] \in Nat \ {0}
    BY <1>0
  <2>1. v \div Pow[i - 1] \in Nat
    BY <1>0, <2>0, DivMod
  <2>2. (v \div Pow[i - 1]) % Base \in 0 .. (Base - 1)
    BY <1>0, <2>1, DivMod
  <2> QED BY <2>2 DEF Byte
<1> DEFINE s == Sum(p, n)
<1>2. /\ s[0] = 0 /\ \A i \in 1 .. n : s[i] = s[i - 1] + p[i] * Pow[i - 1]
      /\ \A i \in 0 .. n : s[i] \in 0 .. (Pow[i] - 1)
  BY <1>1, SumEquation
<1> HIDE DEF s
<1> DEFINE P == {k \in 0 .. n : s[k] + Pow[k] * (v \div Pow[k]) = v}
<1>3. 0 \in P
  <2>1. Pow[0] = 1 /\ v \div 1 = v
    BY <1>0, PowEquation
  <2> QED BY <1>0, <1>2, <2>1
<1>4. ASSUME NEW k \in 0 .. n, k < n, k \in P PROVE k + 1 \in P
  <2> DEFINE w == Pow[k]
             q == v \div w
             t == s[k]
  <2>1. /\ k + 1 \in 1 .. n /\ (k + 1) - 1 = k /\ k \in 0 .. 2 * Word /\ k < 2 * Word
    BY <1>0, <1>4
  <2>2. /\ w \in Nat \ {0} /\ q \in Nat /\ Pow[k + 1] = Base * w /\ v \div Pow[k + 1] = q \div Base
    BY <1>0, <2>1, DivPow
  <2>3. s[k + 1] = t + (q % Base) * w /\ t \in Nat /\ t + w * q = v
    BY <1>0, <1>2, <1>4, <2>1
  <2> HIDE DEF w, q, t
  <2>4. q = Base * (q \div Base) + (q % Base) /\ q \div Base \in Nat /\ q % Base \in Nat
    <3>1. q \in Nat /\ Base \in Nat \ {0}
      BY <1>0, <2>2
    <3>2. /\ q = Base * (q \div Base) + (q % Base) /\ q \div Base \in Nat
          /\ q % Base \in 0 .. (Base - 1)
      BY <3>1, DivMod
    <3> QED BY <3>2
  <2> DEFINE d == q \div Base
             m == q % Base
  <2>5. m * w + (Base * w) * d = w * (Base * d + m)
    <3>1. d \in Nat /\ m \in Nat
      BY <2>4
    <3> HIDE DEF d, m
    <3> QED BY <1>0, <2>2, <3>1
  <2>6. (t + m * w) + (Base * w) * d = v
    <3>1. m * w \in Nat /\ (Base * w) * d \in Nat /\ w * (Base * d + m) = w * q
      BY <1>0, <2>2, <2>4
    <3> HIDE DEF d, m
    <3> QED BY <2>3, <2>5, <3>1
  <2> QED BY <2>1, <2>2, <2>3, <2>6
<1>5. n \in P
  <2> HIDE DEF P
  <2>1. \A k \in 0 .. n : k \in P
    BY <1>0, <1>3, <1>4, Turns
  <2> QED BY <1>0, <2>1
<1>6. v \div Pow[n] = 0 /\ s[n] \in Nat
  <2>1. s[n] \in Nat
    BY <1>0, <1>2
  <2>2. v \div Pow[n] = 0
    BY <1>0, DivMod
  <2> QED BY <2>1, <2>2
<1>7. s[n] = v
  BY <1>0, <1>5, <1>6
<1> QED BY <1>1, <1>7 DEF s

(* put_u64le shifts its way to the same digits. *)
LEMMA Put64 ==
  ASSUME NEW x \in Nat
  PROVE  put_u64le(x) = [i \in 1 .. 2 * Word |-> (x \div Pow[i - 1]) % Base]
<1> DEFINE f == [i \in 0 .. 2 * Word |-> x \div Pow[i]]
           Rec(v) == v = [i \in 0 .. 2 * Word |-> IF i = 0 THEN x ELSE v[i - 1] \div Base]
           c == CHOOSE v : Rec(v)
<1>0. Word \in Nat /\ Base \in Nat \ {0} /\ Pow[0] = 1
  BY CodecAssumption, PowEquation
<1>1. Rec(f)
  <2>1. x \div Pow[0] = x
    BY <1>0
  <2>2. ASSUME NEW i \in 1 .. 2 * Word PROVE f[i] = f[i - 1] \div Base
    <3>1. i - 1 \in 0 .. 2 * Word /\ i - 1 < 2 * Word /\ (i - 1) + 1 = i
      BY <1>0
    <3>2. x \div Pow[i] = (x \div Pow[i - 1]) \div Base
      BY <3>1, DivPow
    <3> QED BY <1>0, <3>1, <3>2
  <2>3. f[0] = x /\ f = [i \in 0 .. 2 * Word |-> f[i]]
    BY <1>0, <2>1
  <2> HIDE DEF f
  <2>4. \A i \in 0 .. 2 * Word : f[i] = IF i = 0 THEN x ELSE f[i - 1] \div Base
    <3> SUFFICES ASSUME NEW i \in 0 .. 2 * Word PROVE i # 0 => f[i] = f[i - 1] \div Base
      BY <2>3
    <3>1. i # 0 => i \in 1 .. 2 * Word
      BY <1>0
    <3> QED BY <2>2, <3>1
  <2> QED BY <2>3, <2>4
<1>2. Rec(c)
  <2> HIDE DEF f, Rec
  <2> QED BY <1>1
<1>3. \A i \in 0 .. 2 * Word : c[i] = f[i]
  <2> DEFINE P == {i \in 0 .. 2 * Word : c[i] = f[i]}
  <2> HIDE DEF f, c
  <2>1. 0 \in P
    BY <1>0, <1>1, <1>2
  <2>2. ASSUME NEW i \in 0 .. 2 * Word, i < 2 * Word, i \in P PROVE i + 1 \in P
    <3>1. i + 1 \in 0 .. 2 * Word /\ i + 1 # 0 /\ (i + 1) - 1 = i
      BY <1>0, <2>2
    <3>2. c[i + 1] = c[i] \div Base /\ f[i + 1] = f[i] \div Base
      BY <1>1, <1>2, <3>1
    <3> QED BY <2>2, <3>1, <3>2
  <2>3. 2 * Word \in Nat
    BY <1>0
  <2> HIDE DEF P
  <2>4. \A i \in 0 .. 2 * Word : i \in P
    <3> DEFINE N == 2 * Word
    <3> HIDE DEF N
    <3> QED BY <2>1, <2>2, <2>3, Turns DEF N
  <2> QED BY <2>4 DEF P
<1>4. put_u64le(x) = [i \in 1 .. 2 * Word |-> c[i - 1] % Base]
  BY DEF put_u64le
<1>5. ASSUME NEW i \in 1 .. 2 * Word PROVE c[i - 1] = x \div Pow[i - 1]
  <2>1. i - 1 \in 0 .. 2 * Word
    BY <1>0
  <2> QED BY <1>3, <2>1
<1> HIDE DEF c
<1> QED BY <1>4, <1>5

(* The decoders add up the same sum, whichever end they start from. *)
LEMMA Get32 ==
  ASSUME NEW p
  PROVE  get_u32le(p) = Sum(p, Word)[Word] /\ from_le_bytes(p) = Sum(p, Len(p))[Len(p)]
BY DEF get_u32le, from_le_bytes, Sum

LEMMA Get64 ==
  ASSUME NEW p, \A i \in 1 .. 2 * Word : p[i] \in Byte
  PROVE  get_u64le(p) = Sum(p, 2 * Word)[2 * Word]
<1> DEFINE N    == 2 * Word
           step == [x \in (1 .. N) \X Nat |-> x[2] * Base + p[N + 1 - x[1]]]
           s    == Sum(p, N)
           Rec(v) == v = [i \in 0 .. N |-> IF i = 0 THEN 0 ELSE v[i - 1] * Base + p[N + 1 - i]]
           c    == CHOOSE v : Rec(v)
<1>0. N \in Nat /\ Word \in Nat /\ N = 2 * Word /\ Base \in Nat \ {0} /\ N \in 0 .. 2 * Word
  BY CodecAssumption
<1>1. /\ s[0] = 0 /\ \A i \in 1 .. N : s[i] = s[i - 1] + p[i] * Pow[i - 1]
      /\ \A i \in 0 .. N : s[i] \in 0 .. (Pow[i] - 1) /\ Pow[i] \in Nat
  BY <1>0, SumEquation, PowEquation
<1>2. \A i \in 1 .. N : p[N + 1 - i] \in Nat
  <2> SUFFICES ASSUME NEW i \in 1 .. N PROVE p[N + 1 - i] \in Nat
    OBVIOUS
  <2>1. N + 1 - i \in 1 .. 2 * Word
    BY <1>0
  <2> QED BY <1>0, <2>1 DEF Byte
<1>3. step \in [(1 .. N) \X Nat -> Nat]
  BY <1>0, <1>2
<1>4. PICK f : Iterates(f, N, Nat, 0, step)
  <2> HIDE DEF N, step
  <2>1. N \in Nat /\ 0 \in Nat /\ step \in [(1 .. N) \X Nat -> Nat]
    BY <1>0, <1>3
  <2> QED BY <2>1, Recursion
<1> HIDE DEF s
<1>5. \A i \in 1 .. N : f[i] = f[i - 1] * Base + p[N + 1 - i]
  <2> SUFFICES ASSUME NEW i \in 1 .. N PROVE f[i] = f[i - 1] * Base + p[N + 1 - i]
    OBVIOUS
  <2>1. <<i, f[i - 1]>> \in (1 .. N) \X Nat
    BY <1>0, <1>4 DEF Iterates
  <2> QED BY <1>4, <2>1 DEF Iterates
<1> HIDE DEF N, step
<1>6. Rec(f)
  BY <1>0, <1>4, <1>5 DEF Iterates
<1>7. Rec(c)
  <2> HIDE DEF Rec
  <2> QED BY <1>6
<1>8. get_u64le(p) = c[N]
  BY DEF get_u64le, N
<1> HIDE DEF c
<1>9. c[0] = 0 /\ \A i \in 1 .. N : c[i] = c[i - 1] * Base + p[N + 1 - i]
  BY <1>0, <1>7
<1> HIDE DEF Rec
<1> DEFINE P == {j \in 0 .. N : c[j] \in Nat /\ c[j] * Pow[N - j] + s[N - j] = s[N]}
<1>10. 0 \in P
  <2>1. 0 * Pow[N - 0] = 0 /\ N - 0 = N /\ s[N] \in Nat
    BY <1>0, <1>1
  <2> QED BY <1>0, <1>9, <2>1
<1>11. ASSUME NEW j \in 0 .. N, j < N, j \in P PROVE j + 1 \in P
  <2> DEFINE k == N - (j + 1)
             a == c[j]
             w == Pow[k]
             b == p[k + 1]
             t == s[k]
  <2>1. /\ j + 1 \in 1 .. N /\ j + 1 \in 0 .. N /\ (j + 1) - 1 = j
        /\ k \in 0 .. N /\ k + 1 \in 1 .. N /\ (k + 1) - 1 = k
        /\ N - j = k + 1 /\ N + 1 - (j + 1) = k + 1 /\ k < 2 * Word
    BY <1>0, <1>11
  <2>2. c[j + 1] = a * Base + b /\ a \in Nat /\ a * Pow[k + 1] + s[k + 1] = s[N]
    <3>1. c[j + 1] = c[j] * Base + p[N + 1 - (j + 1)]
      BY <1>9, <2>1
    <3>2. c[j] \in Nat /\ c[j] * Pow[N - j] + s[N - j] = s[N]
      BY <1>11
    <3> QED BY <2>1, <3>1, <3>2
  <2>3. s[k + 1] = t + b * w
    BY <1>1, <2>1
  <2>4. t \in Nat /\ w \in Nat
    BY <1>1, <2>1
  <2>5. b \in Nat
    <3>1. k + 1 \in 1 .. 2 * Word
      BY <1>0, <2>1
    <3> QED BY <1>0, <3>1 DEF Byte
  <2>6. Pow[k + 1] = Base * w
    BY <1>0, <2>1, PowEquation
  <2> HIDE DEF a, w, b, t
  <2>7. (a * Base + b) * w + t = a * (Base * w) + (t + b * w) /\ a * Base + b \in Nat
    BY <1>0, <2>2, <2>4, <2>5
  <2>8. c[j + 1] \in Nat /\ c[j + 1] * w + t = s[N]
    BY <2>2, <2>3, <2>6, <2>7
  <2> QED BY <2>1, <2>8 DEF w, t
<1>12. N \in P
  <2> HIDE DEF P
  <2>1. \A j \in 0 .. N : j \in P
    BY <1>0, <1>10, <1>11, Turns
  <2> QED BY <1>0, <2>1
<1>13. N - N = 0 /\ Pow[0] = 1 /\ c[N] \in Nat /\ c[N] * Pow[N - N] + s[N - N] = s[N]
  BY <1>0, <1>12, PowEquation
<1>14. c[N] = s[N]
  BY <1>1, <1>13
<1> QED BY <1>8, <1>14 DEF s, N

-----------------------------------------------------------------------------
(* Signed integers. *)

(* A word is an even number of values; half of it is worth half a byte in  *)
(* the last place.                                                         *)
LEMMA EvenPow ==
  /\ Base = 2 * (Base \div 2) /\ Base \div 2 \in Nat \ {0}
  /\ Pow[Word - 1] \in Nat \ {0} /\ Pow[Word] = Base * Pow[Word - 1] /\ Pow[Word] \in Nat \ {0}
  /\ Pow[Word] \div 2 = (Base \div 2) * Pow[Word - 1]
  /\ Pow[Word] = 2 * (Pow[Word] \div 2)
<1>1. /\ Word - 1 \in 0 .. 2 * Word /\ Word \in 1 .. 2 * Word /\ Word \in 0 .. 2 * Word
      /\ Base \in Nat /\ Base > 5 /\ Base % 2 = 0
  BY CodecAssumption
<1>2. Pow[Word - 1] \in Nat \ {0} /\ Pow[Word] = Base * Pow[Word - 1] /\ Pow[Word] \in Nat \ {0}
  BY <1>1, PowEquation
<1>3. Base = 2 * (Base \div 2) /\ Base \div 2 \in Nat \ {0}
  BY <1>1
<1> DEFINE h == Base \div 2
           w == Pow[Word - 1]
           u == h * w
<1>4. Pow[Word] = 2 * u /\ u \in Nat
  <2>1. h \in Nat /\ w \in Nat /\ Base = 2 * h
    BY <1>2, <1>3
  <2>2. (2 * h) * w = 2 * (h * w) /\ h * w \in Nat
    <3> HIDE DEF h, w
    <3> QED BY <2>1
  <2> QED BY <1>2, <2>1, <2>2
<1>5. (2 * u) \div 2 = u
  <2> HIDE DEF u
  <2> QED BY <1>4
<1> QED BY <1>2, <1>3, <1>4, <1>5

(* The cast to uint32_t and back is the identity on int32_t. *)
LEMMA Casts ==
  ASSUME NEW v \in Int32
  PROVE  AsUnsigned(v) \in Uint32 /\ AsSigned(AsUnsigned(v)) = v
<1> DEFINE H == Pow[Word] \div 2
           T == Pow[Word]
<1>1. T = 2 * H /\ T \in Nat \ {0} /\ H \in Nat
  BY EvenPow
<1>2. v \in Int /\ v >= -H /\ v <= H - 1 /\ Int32 = (-H) .. (H - 1) /\ Uint32 = 0 .. (T - 1)
  BY <1>1 DEF Int32, Uint32
<1>3. AsUnsigned(v) = v % T
  BY DEF AsUnsigned
<1>4. AsSigned(v % T) = IF v % T \in (-H) .. (H - 1) THEN v % T ELSE (v % T) - T
  BY <1>2 DEF AsSigned
<1> HIDE DEF H, T
<1>5. v % T = IF v >= 0 THEN v ELSE v + T
  BY <1>1, <1>2
<1> QED BY <1>1, <1>2, <1>3, <1>4, <1>5

(* Rust looks at the top bit, C at the range of the unsigned value. *)
LEMMA SignBit ==
  ASSUME NEW p, \A i \in 1 .. Word : p[i] \in Byte, Len(p) = Word
  PROVE  i32_from_le_bytes(p) = AsSigned(get_u32le(p))
<1> DEFINE u == Sum(p, Word)[Word]
           t == Sum(p, Word)[Word - 1]
           b == p[Word]
           w == Pow[Word - 1]
           h == Base \div 2
           H == Pow[Word] \div 2
           T == Pow[Word]
<1>1. Word \in 0 .. 2 * Word /\ Word \in 1 .. Word /\ Word - 1 \in 0 .. Word /\ Word \in 0 .. Word
  BY CodecAssumption
<1>2. u = t + b * w /\ t \in 0 .. (w - 1)
  BY <1>1, SumEquation
<1>3. u \in 0 .. (T - 1)
  BY <1>1, SumEquation
<1>4. b \in Nat /\ b < Base
  BY <1>1, CodecAssumption DEF Byte
<1>5. i32_from_le_bytes(p) = u - (IF b >= h THEN T ELSE 0)
  BY Get32 DEF i32_from_le_bytes
<1>6. AsSigned(get_u32le(p)) = IF u \in (-H) .. (H - 1) THEN u ELSE u - T
  BY Get32 DEF AsSigned, Int32
<1>7. /\ Base = 2 * h /\ h \in Nat \ {0} /\ w \in Nat \ {0} /\ T = 2 * H /\ H = h * w
      /\ T \in Nat
  BY EvenPow
<1> HIDE DEF u, t, b, w, h, H, T
<1>8. CASE b >= h
  <2>1. b * w >= h * w /\ b * w \in Nat
    BY <1>4, <1>7, <1>8
  <2>2. u >= H
    BY <1>2, <1>7, <2>1
  <2> QED BY <1>3, <1>5, <1>6, <1>7, <1>8, <2>2
<1>9. CASE b < h
  <2>1. b * w <= (h - 1) * w /\ (h - 1) * w = h * w - w
    BY <1>4, <1>7, <1>9
  <2>2. b * w \in Nat /\ h * w \in Nat
    BY <1>4, <1>7
  <2>3. u < H
    BY <1>2, <1>7, <2>1, <2>2
  <2> QED BY <1>3, <1>4, <1>5, <1>6, <1>7, <1>9, <2>3
<1> QED BY <1>4, <1>7, <1>8, <1>9

-----------------------------------------------------------------------------
(* The payload of a cell and what becomes of it. *)

Payload(type, v) ==
  CASE type = "Int32"  -> put_u32le(AsUnsigned(v))
    [] type = "Uint32" -> put_u32le(v)
    [] type = "Uint64" -> put_u64le(v)
    [] type = "Bytes"  -> v
    [] type = "Oid"    -> Words([k \in DOMAIN v |-> put_u32le(v[k])])

(* The words written are bytes, and read back as they were. *)
LEMMA Word32 ==
  ASSUME NEW v \in Uint32
  PROVE  /\ put_u32le(v) \in [1 .. Word -> Byte] /\ put_u32le(v) \in Seq(Byte)
         /\ Len(put_u32le(v)) = Word /\ get_u32le(put_u32le(v)) = v
         /\ to_le_bytes(v, Word) = put_u32le(v) /\ from_le_bytes(put_u32le(v)) = v
<1> DEFINE p == put_u32le(v)
<1>1. Word \in 0 .. 2 * Word /\ Word \in Nat /\ Pow[Word] \in Nat \ {0} /\ v \in 0 .. (Pow[Word] - 1)
  BY CodecAssumption, EvenPow DEF Uint32
<1>2. p = [i \in 1 .. Word |-> (v \div Pow[i - 1]) % Base]
  BY DEF put_u32le
<1>3. v % Pow[Word] = v
  BY <1>1
<1>4. to_le_bytes(v, Word) = p
  BY <1>2, <1>3 DEF to_le_bytes
<1> HIDE DEF p
<1>5. \A i \in 1 .. Word : p[i] = (v \div Pow[i - 1]) % Base
  BY <1>2
<1>6. (\A i \in 1 .. Word : p[i] \in Byte) /\ Sum(p, Word)[Word] = v
  BY <1>1, <1>5, SumDigits
<1>7. p \in [1 .. Word -> Byte]
  BY <1>2, <1>6
<1>8. p \in Seq(Byte) /\ Len(p) = Word
  BY <1>1, <1>7
<1> QED BY <1>4, <1>6, <1>7, <1>8, Get32 DEF p

LEMMA Word64 ==
  ASSUME NEW v \in Uint64
  PROVE  /\ put_u64le(v) \in Seq(Byte) /\ Len(put_u64le(v)) = 2 * Word
         /\ get_u64le(put_u64le(v)) = v
         /\ to_le_bytes(v, 2 * Word) = put_u64le(v) /\ from_le_bytes(put_u64le(v)) = v
<1> DEFINE p == put_u64le(v)
           N == 2 * Word
<1>1. N \in 0 .. N /\ N \in Nat /\ Pow[N] \in Nat \ {0} /\ v \in 0 .. (Pow[N] - 1) /\ v \in Nat
  BY CodecAssumption, PowEquation DEF Uint64
<1>2. p = [i \in 1 .. N |-> (v \div Pow[i - 1]) % Base]
  BY <1>1, Put64
<1>3. v % Pow[N] = v
  BY <1>1
<1>4. to_le_bytes(v, N) = p
  BY <1>2, <1>3 DEF to_le_bytes
<1> HIDE DEF p
<1>5. \A i \in 1 .. N : p[i] = (v \div Pow[i - 1]) % Base
  BY <1>2
<1>6. (\A i \in 1 .. N : p[i] \in Byte) /\ Sum(p, N)[N] = v
  BY <1>1, <1>5, SumDigits
<1>7. p \in Seq(Byte) /\ Len(p) = N
  BY <1>1, <1>2, <1>6
<1> QED BY <1>4, <1>6, <1>7, Get32, Get64 DEF p

LEMMA DivUnique ==
  ASSUME NEW b \in Nat \ {0}, NEW q \in Nat, NEW r \in 0 .. (b - 1)
  PROVE  (q * b + r) \div b = q /\ (q * b + r) % b = r
OBVIOUS

(* A number below n * b is in one of n blocks of b, at a place in it. *)
LEMMA Block ==
  ASSUME NEW b \in Nat \ {0}, NEW n \in Nat, NEW i \in 1 .. n * b
  PROVE  1 + ((i - 1) \div b) \in 1 .. n /\ 1 + ((i - 1) % b) \in 1 .. b
<1> DEFINE q == (i - 1) \div b
           r == (i - 1) % b
<1>1. n * b \in Nat /\ i - 1 \in Nat /\ i - 1 < n * b
  BY SMT
<1>2. q \in Nat /\ r \in 0 .. (b - 1) /\ i - 1 = b * q + r
  BY <1>1, DivMod
<1> HIDE DEF q, r
<1>3. q < n
  <2> SUFFICES ASSUME q >= n PROVE FALSE
    BY <1>2
  <2>1. b * q >= n * b
    BY <1>2
  <2> QED BY <1>1, <1>2, <2>1
<1> QED BY <1>2, <1>3 DEF q, r

(* The words of an OID are found where they were put. *)
LEMMA WordsOf ==
  ASSUME NEW w, NEW n \in Nat, w \in [1 .. n -> [1 .. Word -> Byte]]
  PROVE  /\ Words(w) \in Seq(Byte) /\ Len(Words(w)) = n * Word
         /\ Len(Words(w)) \div Word = n /\ Len(Words(w)) % Word = 0
         /\ \A k \in 1 .. n : Slice(Words(w), (k - 1) * Word + 1, Word) = w[k]
<1>1. Word \in Nat \ {0} /\ n * Word \in Nat /\ Len(w) = n
  BY CodecAssumption
<1> DEFINE p == Words(w)
<1>2. p = [i \in 1 .. n * Word |-> w[1 + ((i - 1) \div Word)][1 + ((i - 1) % Word)]]
  BY <1>1 DEF Words
<1>3. \A i \in 1 .. n * Word : w[1 + ((i - 1) \div Word)][1 + ((i - 1) % Word)] \in Byte
  <2> SUFFICES ASSUME NEW i \in 1 .. n * Word
               PROVE  w[1 + ((i - 1) \div Word)][1 + ((i - 1) % Word)] \in Byte
    OBVIOUS
  <2> DEFINE q == 1 + ((i - 1) \div Word)
             r == 1 + ((i - 1) % Word)
  <2>1. q \in 1 .. n /\ r \in 1 .. Word
    BY <1>1, Block
  <2> HIDE DEF q, r
  <2> QED BY <2>1 DEF q, r
<1>4. p \in Seq(Byte) /\ Len(p) = n * Word
  BY <1>1, <1>2, <1>3
<1>5. (n * Word) \div Word = n /\ (n * Word) % Word = 0
  <2>1. 0 \in 0 .. (Word - 1) /\ n * Word + 0 = n * Word
    BY <1>1
  <2>2. (n * Word + 0) \div Word = n /\ (n * Word + 0) % Word = 0
    BY <1>1, <2>1, DivUnique
  <2> QED BY <2>1, <2>2
<1>6. ASSUME NEW k \in 1 .. n PROVE Slice(p, (k - 1) * Word + 1, Word) = w[k]
  <2> DEFINE a == (k - 1) * Word
             s == Slice(p, a + 1, Word)
  <2>1. a \in Nat /\ a + Word <= n * Word /\ (k - 1) \in Nat
    <3>1. n * Word >= k * Word /\ (k - 1) * Word + Word = k * Word /\ (k - 1) * Word \in Nat
      BY <1>1
    <3> QED BY <1>1, <3>1
  <2>2. s = SubSeq(p, a + 1, a + Word)
    <3>1. (a + 1) + Word - 1 = a + Word
      BY <1>1, <2>1
    <3> QED BY <3>1 DEF Slice
  <2>3. \A j \in 1 .. Word : p[a + j] = w[k][j]
    <3> SUFFICES ASSUME NEW j \in 1 .. Word PROVE p[a + j] = w[k][j]
      OBVIOUS
    <3>1. a + j \in 1 .. n * Word /\ (a + j) - 1 = a + (j - 1) /\ j - 1 \in 0 .. (Word - 1)
      <4> DEFINE m == n * Word
      <4>1. m \in Nat /\ a \in Nat /\ a + Word <= m
        BY <1>1, <2>1
      <4> HIDE DEF a, m
      <4>2. a + j \in 1 .. m /\ (a + j) - 1 = a + (j - 1) /\ j - 1 \in 0 .. (Word - 1)
        BY <1>1, <4>1
      <4> QED BY <4>2 DEF m
    <3>2. (a + (j - 1)) \div Word = k - 1 /\ (a + (j - 1)) % Word = j - 1
      BY <1>1, <2>1, <3>1, DivUnique
    <3>3. 1 + (((a + j) - 1) \div Word) = k /\ 1 + (((a + j) - 1) % Word) = j
      BY <3>1, <3>2
    <3>4. p[a + j] = w[1 + (((a + j) - 1) \div Word)][1 + (((a + j) - 1) % Word)]
      BY <1>2, <3>1
    <3> QED BY <3>3, <3>4
  <2> HIDE DEF p, a
  <2>4. s = [j \in 1 .. Word |-> p[a + j]]
    BY <1>1, <1>4, <2>1, <2>2
  <2>5. w[k] = [j \in 1 .. Word |-> w[k][j]]
    OBVIOUS
  <2> QED BY <2>3, <2>4, <2>5 DEF a
<1> QED BY <1>4, <1>5, <1>6

(* A header and what follows it come apart again. *)
LEMMA HeaderThen ==
  ASSUME NEW type \in Types, NEW p \in Seq(Byte)
  PROVE  LET raw == encode_header(type) \o p
         IN  /\ raw \in Seq(Byte) /\ Len(raw) = HeaderLen + Len(p) /\ raw[1] = Tag[type]
             /\ \A i \in 2 .. HeaderLen : raw[i] = 0
             /\ Slice(raw, HeaderLen + 1, Len(raw) - HeaderLen) = p
<1> DEFINE h   == encode_header(type)
           raw == h \o p
           z   == [i \in 1 .. Reserved |-> 0]
<1>1. Reserved \in Nat /\ HeaderLen = 1 + Reserved /\ Base \in Nat /\ Base > 5
  BY CodecAssumption DEF HeaderLen
<1>2. Tag[type] \in Byte /\ 0 \in Byte
  BY <1>1 DEF Types, Tag, Byte
<1>3. z \in Seq(Byte) /\ Len(z) = Reserved
  BY <1>1, <1>2
<1>4. h = <<Tag[type]>> \o z
  BY DEF encode_header
<1>5. h \in Seq(Byte) /\ Len(h) = HeaderLen /\ h[1] = Tag[type] /\ \A i \in 2 .. HeaderLen : h[i] = 0
  <2> DEFINE t == Tag[type]
  <2>1. t \in Byte
    BY <1>2
  <2> HIDE DEF t
  <2>2. \A i \in 1 .. Reserved : z[i] = 0
    OBVIOUS
  <2> HIDE DEF z
  <2>3. h = <<t>> \o z /\ <<t>> \in Seq(Byte) /\ Len(<<t>>) = 1
    BY <1>4, <2>1 DEF t
  <2> HIDE DEF h
  <2>4. h \in Seq(Byte) /\ Len(h) = 1 + Reserved
    BY <1>1, <1>3, <2>3
  <2>5. h[1] = t
    BY <1>1, <1>3, <2>3
  <2>6. ASSUME NEW i \in 2 .. HeaderLen PROVE h[i] = 0
    <3>1. i - 1 \in 1 .. Reserved
      BY <1>1
    <3>2. h[i] = z[i - 1]
      BY <1>1, <1>3, <2>3, <3>1
    <3> QED BY <2>2, <3>1, <3>2
  <2> QED BY <1>1, <2>4, <2>5, <2>6 DEF t
<1> HIDE DEF h
<1>6. raw \in Seq(Byte) /\ Len(raw) = HeaderLen + Len(p)
  BY <1>1, <1>5
<1>7. raw[1] = Tag[type] /\ \A i \in 2 .. HeaderLen : raw[i] = 0
  BY <1>1, <1>5
<1>8. Slice(raw, HeaderLen + 1, Len(raw) - HeaderLen) = p
  <2>1. Len(raw) - HeaderLen = Len(p) /\ (HeaderLen + 1) + (Len(raw) - HeaderLen) - 1 = HeaderLen + Len(p)
    BY <1>1, <1>6
  <2>2. SubSeq(raw, HeaderLen + 1, HeaderLen + Len(p)) = p
    BY <1>1, <1>5
  <2> QED BY <2>1, <2>2 DEF Slice
<1> QED BY <1>6, <1>7, <1>8 DEF h

(* A payload is a sequence of bytes that the getters of its type read      *)
(* back, on both sides, and Rust writes the same one.                      *)
LEMMA PayloadBytes ==
  ASSUME NEW type \in Types, NEW v \in Domain[type]
  PROVE  /\ Payload(type, v) \in Seq(Byte)
         /\ storage_set(type, v) = encode_header(type) \o Payload(type, v)
         /\ encode(type, v) = encode_header(type) \o Payload(type, v)
<1>0. CodecAssumption
  BY CodecAssumption
<1>1. CASE type = "Int32"
  <2>1. v \in Int32
    BY <1>1 DEF Domain
  <2>2. AsUnsigned(v) \in Uint32 /\ Payload(type, v) = put_u32le(AsUnsigned(v))
    BY <1>1, <2>1, Casts DEF Payload
  <2>3. to_le_bytes(v, Word) = put_u32le(AsUnsigned(v))
    BY DEF to_le_bytes, put_u32le, AsUnsigned
  <2> QED BY <1>1, <2>2, <2>3, Word32 DEF storage_set, set_int, encode, encode_header
<1>2. CASE type = "Uint32"
  <2>1. v \in Uint32 /\ Payload(type, v) = put_u32le(v)
    BY <1>2 DEF Domain, Payload
  <2> QED BY <1>2, <2>1, Word32 DEF storage_set, set_uint, encode, encode_header
<1>3. CASE type = "Uint64"
  <2>1. v \in Uint64 /\ Payload(type, v) = put_u64le(v)
    BY <1>3 DEF Domain, Payload
  <2> QED BY <1>3, <2>1, Word64 DEF storage_set, set_u64, encode, encode_header
<1>4. CASE type = "Bytes"
  <2>1. v \in Seq(Byte) /\ Payload(type, v) = v
    BY <1>4 DEF Domain, Payload, SeqOf
  <2> QED BY <1>4, <2>1 DEF storage_set, set_bytes, encode, encode_header
<1>5. CASE type = "Oid"
  <2>1. PICK n \in 0 .. MaxSubids : v \in [1 .. n -> Uint32]
    BY <1>5 DEF Domain, SeqOf
  <2> DEFINE w == [k \in DOMAIN v |-> put_u32le(v[k])]
  <2>2. n \in Nat /\ w \in [1 .. n -> [1 .. Word -> Byte]]
    BY <1>0, <2>1, Word32 DEF CodecAssumption
  <2>3. w = [k \in DOMAIN v |-> to_le_bytes(v[k], Word)]
    BY <2>1, Word32
  <2>4. Payload(type, v) = Words(w)
    BY <1>5 DEF Payload
  <2> HIDE DEF w
  <2>5. Words(w) \in Seq(Byte)
    BY <2>2, WordsOf
  <2>6. storage_set(type, v) = encode_header(type) \o Words(w)
    BY <1>5 DEF storage_set, set_oid, w
  <2>7. encode(type, v) = encode_header(type) \o Words(w)
    BY <1>5, <2>3 DEF encode, encode_header
  <2> QED BY <2>4, <2>5, <2>6, <2>7
<1> QED BY <1>1, <1>2, <1>3, <1>4, <1>5 DEF Types

(* What the getters make of a payload of their type. *)
LEMMA PayloadRead ==
  ASSUME NEW type \in Types, NEW v \in Domain[type]
  PROVE  LET p == Payload(type, v)
         IN  /\ type \in {"Int32", "Uint32"} => Len(p) = Word
             /\ type = "Int32" => AsSigned(get_u32le(p)) = v /\ i32_from_le_bytes(p) = v
             /\ type = "Uint32" => get_u32le(p) = v /\ from_le_bytes(p) = v
             /\ type = "Uint64" => Len(p) = 2 * Word /\ get_u64le(p) = v /\ from_le_bytes(p) = v
             /\ type = "Bytes" => p = v /\ Len(p) \in Nat /\ Len(p) <= Enough
             /\ type = "Oid" => /\ Len(p) % Word = 0 /\ Len(p) \div Word <= Enough
                                /\ v = [i \in 1 .. Len(p) \div Word |->
                                          get_u32le(Slice(p, (i - 1) * Word + 1, Word))]
                                /\ v = [i \in 1 .. Len(p) \div Word |->
                                          from_le_bytes(Slice(p, (i - 1) * Word + 1, Word))]
<1> DEFINE p == Payload(type, v)
<1>0. MaxBytes \in Nat /\ MaxSubids \in Nat /\ MaxForeign \in Nat
  BY CodecAssumption
<1>1. CASE type = "Int32"
  <2>1. v \in Int32 /\ p = put_u32le(AsUnsigned(v)) /\ AsUnsigned(v) \in Uint32 /\ AsSigned(AsUnsigned(v)) = v
    BY <1>1, Casts DEF Domain, Payload
  <2>2. Len(p) = Word /\ get_u32le(p) = AsUnsigned(v) /\ p \in [1 .. Word -> Byte]
    BY <2>1, Word32
  <2> HIDE DEF p
  <2>3. \A i \in 1 .. Word : p[i] \in Byte
    BY <2>2
  <2>4. i32_from_le_bytes(p) = AsSigned(get_u32le(p))
    BY <2>2, <2>3, SignBit
  <2> QED BY <1>1, <2>1, <2>2, <2>4 DEF p
<1>2. CASE type = "Uint32"
  <2>1. v \in Uint32 /\ p = put_u32le(v)
    BY <1>2 DEF Domain, Payload
  <2> QED BY <1>2, <2>1, Word32
<1>3. CASE type = "Uint64"
  <2>1. v \in Uint64 /\ p = put_u64le(v)
    BY <1>3 DEF Domain, Payload
  <2> QED BY <1>3, <2>1, Word64
<1>4. CASE type = "Bytes"
  <2>1. PICK n \in 0 .. MaxBytes : v \in [1 .. n -> Byte]
    BY <1>4 DEF Domain, SeqOf
  <2>2. p = v /\ Len(v) = n
    BY <1>0, <1>4, <2>1 DEF Payload
  <2> QED BY <1>0, <1>4, <2>2 DEF Enough
<1>5. CASE type = "Oid"
  <2>1. PICK n \in 0 .. MaxSubids : v \in [1 .. n -> Uint32]
    BY <1>5 DEF Domain, SeqOf
  <2> DEFINE w == [k \in DOMAIN v |-> put_u32le(v[k])]
  <2>2. n \in Nat /\ w \in [1 .. n -> [1 .. Word -> Byte]]
    BY <1>0, <2>1, Word32
  <2>3. p = Words(w)
    BY <1>5 DEF Payload
  <2>4. \A k \in 1 .. n : get_u32le(w[k]) = v[k] /\ from_le_bytes(w[k]) = v[k]
    BY <2>1, Word32
  <2> HIDE DEF p, w
  <2>5. /\ Len(p) \div Word = n /\ Len(p) % Word = 0
        /\ \A k \in 1 .. n : Slice(p, (k - 1) * Word + 1, Word) = w[k]
    BY <2>2, <2>3, WordsOf
  <2>6. /\ v = [i \in 1 .. n |-> get_u32le(Slice(p, (i - 1) * Word + 1, Word))]
        /\ v = [i \in 1 .. n |-> from_le_bytes(Slice(p, (i - 1) * Word + 1, Word))]
    BY <2>1, <2>4, <2>5
  <2>7. n <= Enough
    BY <1>0, <2>1 DEF Enough
  <2> QED BY <1>5, <2>5, <2>6, <2>7 DEF p
<1> QED BY <1>1, <1>2, <1>3, <1>4, <1>5 DEF Types

-----------------------------------------------------------------------------
(* The specification of a cell. *)

(* A cell holds bytes neither side wrote, or the payload of a value under  *)
(* the header of its type, whichever side wrote it.                        *)
CellInv ==
  \/ wrote = <<"Foreign">> /\ cell \in SeqOf(Byte, MaxForeign)
  \/ \E type \in Types : \E v \in Domain[type] :
       wrote = <<type, v>> /\ cell = encode_header(type) \o Payload(type, v)

LEMMA CellInvariant == CellSpec => []CellInv
<1>1. CellInit => CellInv
  <2> SUFFICES ASSUME CellInit PROVE CellInv
    OBVIOUS
  <2>1. cell \in [1 .. 0 -> Byte] /\ 0 \in 0 .. MaxForeign
    BY CodecAssumption DEF CellInit
  <2>2. cell \in SeqOf(Byte, MaxForeign)
    BY <2>1 DEF SeqOf
  <2> QED BY <2>2 DEF CellInit, CellInv
<1>2. CellInv /\ [CellNext]_cellVars => CellInv'
  <2> SUFFICES ASSUME CellInv, [CellNext]_cellVars PROVE CellInv'
    OBVIOUS
  <2>1. ASSUME NEW type \in Types, NEW v \in Domain[type], CSet(type, v) PROVE CellInv'
    <3>1. cell' = encode_header(type) \o Payload(type, v) /\ wrote' = <<type, v>>
      BY <2>1, PayloadBytes DEF CSet
    <3> QED BY <3>1 DEF CellInv
  <2>2. ASSUME NEW type \in Types, NEW v \in Domain[type], RustPut(type, v) PROVE CellInv'
    <3>1. cell' = encode_header(type) \o Payload(type, v) /\ wrote' = <<type, v>>
      BY <2>2, PayloadBytes DEF RustPut
    <3> QED BY <3>1 DEF CellInv
  <2>3. ASSUME NEW raw \in SeqOf(Byte, MaxForeign), Foreign(raw) PROVE CellInv'
    BY <2>3 DEF Foreign, CellInv
  <2>4. CASE UNCHANGED cellVars
    BY <2>4 DEF CellInv, cellVars
  <2> QED BY <2>1, <2>2, <2>3, <2>4 DEF CellNext
<1> QED BY <1>1, <1>2, PTL DEF CellSpec

(* A header with another tag is refused on both sides. *)
LEMMA OtherTag ==
  ASSUME NEW raw, NEW type \in Types, NEW room, Len(raw) >= HeaderLen, raw[1] # Tag[type]
  PROVE  storage_get(raw, type, room).rc = "TYPE" /\ get_typed(raw, type).rc = "ERR"
<1>1. decode_header(raw, type) = Err("TYPE") /\ Err("TYPE").rc = "TYPE"
  BY CodecAssumption DEF decode_header, Err
<1>2. Err("TYPE").rc # "OK" /\ Err("ERR").rc = "ERR"
  BY DEF Err
<1>3. storage_get(raw, type, room) = Err("TYPE")
  BY <1>1, <1>2 DEF Types, storage_get, get_int, get_uint, get_u64, get_bytes, get_oid, Decoded
<1>4. ~Accepts(raw, type)
  BY DEF Accepts
<1> QED BY <1>1, <1>2, <1>3, <1>4 DEF get_typed

(* With its own tag the getter goes on to the payload. *)
LEMMA OwnTag ==
  ASSUME NEW raw, NEW type \in Types, Len(raw) \in Nat, Len(raw) >= HeaderLen, raw[1] = Tag[type]
  PROVE  decode_header(raw, type) = Ok(Slice(raw, HeaderLen + 1, Len(raw) - HeaderLen))
BY CodecAssumption DEF decode_header, HeaderLen

(* The bytes of a value are read back as that value. *)
LEMMA OwnRead ==
  ASSUME NEW type \in Types, NEW v \in Domain[type], NEW raw,
         raw = encode_header(type) \o Payload(type, v)
  PROVE  storage_get(raw, type, Enough) = Ok(v) /\ get_typed(raw, type) = Ok(v)
<1> DEFINE p == Payload(type, v)
<1>1. /\ Len(raw) = HeaderLen + Len(p) /\ raw[1] = Tag[type] /\ \A i \in 2 .. HeaderLen : raw[i] = 0
      /\ Slice(raw, HeaderLen + 1, Len(raw) - HeaderLen) = p /\ p \in Seq(Byte)
  BY PayloadBytes, HeaderThen
<1>2. Len(p) \in Nat /\ HeaderLen \in Nat
  BY <1>1, CodecAssumption DEF HeaderLen
<1>3. /\ type \in {"Int32", "Uint32"} => Len(p) = Word
      /\ type = "Int32" => AsSigned(get_u32le(p)) = v /\ i32_from_le_bytes(p) = v
      /\ type = "Uint32" => get_u32le(p) = v /\ from_le_bytes(p) = v
      /\ type = "Uint64" => Len(p) = 2 * Word /\ get_u64le(p) = v /\ from_le_bytes(p) = v
      /\ type = "Bytes" => p = v /\ Len(p) \in Nat /\ Len(p) <= Enough
      /\ type = "Oid" => /\ Len(p) % Word = 0 /\ Len(p) \div Word <= Enough
                         /\ v = [i \in 1 .. Len(p) \div Word |->
                                   get_u32le(Slice(p, (i - 1) * Word + 1, Word))]
                         /\ v = [i \in 1 .. Len(p) \div Word |->
                                   from_le_bytes(Slice(p, (i - 1) * Word + 1, Word))]
  BY PayloadRead
<1> HIDE DEF p
<1>4. decode_header(raw, type) = Ok(p) /\ Ok(p).rc = "OK" /\ Ok(p).val = p
  <2>1. Len(raw) \in Nat /\ Len(raw) >= HeaderLen
    BY <1>1, <1>2
  <2> QED BY <1>1, <2>1, OwnTag DEF Ok
<1>5. Len(raw) >= HeaderLen /\ Len(raw) - HeaderLen = Len(p) /\ Word \in Nat /\ Enough \in Nat
  BY <1>1, <1>2, CodecAssumption DEF Enough
<1>6. CASE type = "Int32"
  <2>1. storage_get(raw, type, Enough) = Ok(v)
    BY <1>3, <1>4, <1>5, <1>6 DEF storage_get, get_int, Decoded
  <2>2. Accepts(raw, type) /\ decode(raw, type) = v
    BY <1>1, <1>3, <1>5, <1>6 DEF Accepts, decode
  <2> QED BY <2>1, <2>2 DEF get_typed
<1>7. CASE type = "Uint32"
  <2>1. storage_get(raw, type, Enough) = Ok(v)
    BY <1>3, <1>4, <1>5, <1>7 DEF storage_get, get_uint, Decoded
  <2>2. Accepts(raw, type) /\ decode(raw, type) = v
    BY <1>1, <1>3, <1>5, <1>7 DEF Accepts, decode
  <2> QED BY <2>1, <2>2 DEF get_typed
<1>8. CASE type = "Uint64"
  <2>1. storage_get(raw, type, Enough) = Ok(v)
    BY <1>3, <1>4, <1>5, <1>8 DEF storage_get, get_u64, Decoded
  <2>2. Accepts(raw, type) /\ decode(raw, type) = v
    BY <1>1, <1>3, <1>5, <1>8 DEF Accepts, decode
  <2> QED BY <2>1, <2>2 DEF get_typed
<1>9. CASE type = "Bytes"
  <2>1. storage_get(raw, type, Enough) = Ok(v)
    BY <1>3, <1>4, <1>5, <1>9 DEF storage_get, get_bytes, Decoded
  <2>2. Accepts(raw, type) /\ decode(raw, type) = v
    BY <1>1, <1>3, <1>5, <1>9 DEF Accepts, decode
  <2> QED BY <2>1, <2>2 DEF get_typed
<1>10. CASE type = "Oid"
  <2>0. Len(p) \div Word \in Nat
    BY <1>2, CodecAssumption, DivMod
  <2>1. storage_get(raw, type, Enough) = Ok(v)
    <3> DEFINE n == Len(p) \div Word
               a == [i \in 1 .. n |-> get_u32le(Slice(p, (i - 1) * Word + 1, Word))]
    <3>1. Len(p) % Word = 0 /\ ~(n > Enough) /\ v = a
      BY <1>3, <1>5, <1>10, <2>0
    <3>2. storage_get(raw, type, Enough) =
            CASE Len(p) % Word # 0 -> Err("INVAL")
              [] Len(p) % Word = 0 /\ n > Enough -> TooBig(n)
              [] OTHER -> Ok(a)
      BY <1>4, <1>10 DEF storage_get, get_oid, Decoded
    <3> HIDE DEF n, a
    <3> QED BY <3>1, <3>2
  <2>2. Accepts(raw, type) /\ decode(raw, type) = v
    BY <1>1, <1>3, <1>5, <1>10 DEF Accepts, decode
  <2> QED BY <2>1, <2>2 DEF get_typed
<1> QED BY <1>6, <1>7, <1>8, <1>9, <1>10 DEF Types

(* Whatever either side writes, C (the getters of storage_lmdb.c) and Rust *)
(* (get_typed) both read back, for bytes, words and values of any width;   *)
(* every getter of another type refuses it.                                *)
THEOREM RoundTripHolds == CellSpec => []RoundTrip
<1>1. CellInv => RoundTrip
  <2> SUFFICES ASSUME CellInv, wrote # <<"Foreign">>, NEW type \in Types
               PROVE  IF type = wrote[1]
                        THEN /\ storage_get(cell, type, Enough) = Ok(wrote[2])
                             /\ get_typed(cell, type) = Ok(wrote[2])
                        ELSE /\ storage_get(cell, type, Enough).rc = "TYPE"
                             /\ get_typed(cell, type).rc = "ERR"
    BY DEF RoundTrip
  <2>1. PICK t \in Types : \E v \in Domain[t] :
          wrote = <<t, v>> /\ cell = encode_header(t) \o Payload(t, v)
    BY DEF CellInv
  <2>2. PICK v \in Domain[t] : wrote = <<t, v>> /\ cell = encode_header(t) \o Payload(t, v)
    BY <2>1
  <2>3. CASE type = t
    BY <2>2, <2>3, OwnRead
  <2>4. CASE type # t
    <3>1. Len(cell) >= HeaderLen /\ cell[1] = Tag[t]
      <4>1. Payload(t, v) \in Seq(Byte) /\ HeaderLen \in Nat
        BY PayloadBytes, CodecAssumption DEF HeaderLen
      <4>2. Len(cell) = HeaderLen + Len(Payload(t, v)) /\ cell[1] = Tag[t]
        BY <2>2, <4>1, HeaderThen
      <4> QED BY <4>1, <4>2
    <3>2. Tag[t] # Tag[type]
      BY <2>4 DEF Types, Tag
    <3> QED BY <2>2, <2>4, <3>1, <3>2, OtherTag
  <2> QED BY <2>3, <2>4
<1> QED BY <1>1, CellInvariant, PTL

(* On bytes of any origin a value Rust's get_typed finds is the one the C  *)
(* getter finds.                                                           *)
THEOREM RustSubsetHolds == CellSpec => []RustSubsetOfC
<1>1. ASSUME NEW raw \in SeqOf(Byte, MaxForeign), NEW type \in Types, get_typed(raw, type).rc = "OK"
      PROVE  storage_get(raw, type, Enough) = get_typed(raw, type)
  <2> DEFINE p == Slice(raw, HeaderLen + 1, Len(raw) - HeaderLen)
  <2>0. /\ Reserved \in Nat /\ HeaderLen \in Nat \ {0} /\ Word \in Nat \ {0} /\ Enough \in Nat
        /\ Enough >= MaxForeign /\ MaxForeign \in Nat
    BY CodecAssumption DEF HeaderLen, Enough
  <2>1. raw \in Seq(Byte) /\ Len(raw) <= MaxForeign /\ Len(raw) \in Nat
    BY <2>0 DEF SeqOf
  <2>2. Accepts(raw, type) /\ get_typed(raw, type) = Ok(decode(raw, type))
    BY <1>1 DEF get_typed, Err
  <2>3. Len(raw) >= HeaderLen /\ raw[1] = Tag[type]
    BY <2>2 DEF Accepts
  <2>4. p \in Seq(Byte) /\ Len(p) = Len(raw) - HeaderLen /\ Len(p) \in Nat
    <3>1. (HeaderLen + 1) + (Len(raw) - HeaderLen) - 1 = Len(raw)
      BY <2>0, <2>1
    <3>2. p = SubSeq(raw, HeaderLen + 1, Len(raw))
      BY <3>1 DEF Slice
    <3> HIDE DEF p
    <3> QED BY <2>0, <2>1, <2>3, <3>2
  <2>5. decode_header(raw, type) = Ok(p) /\ Ok(p).rc = "OK" /\ Ok(p).val = p
    BY <2>1, <2>3, OwnTag DEF Ok
  <2>6. CASE type = "Int32"
    <3>1. Len(p) = Word /\ decode(raw, type) = i32_from_le_bytes(p)
      BY <2>2, <2>4, <2>6 DEF Accepts, decode
    <3> HIDE DEF p
    <3>2. i32_from_le_bytes(p) = AsSigned(get_u32le(p))
      BY <2>4, <3>1, SignBit
    <3> QED BY <2>0, <2>2, <2>5, <2>6, <3>1, <3>2 DEF storage_get, get_int, Decoded
  <2>7. CASE type = "Uint32"
    <3>1. Len(p) = Word /\ decode(raw, type) = from_le_bytes(p)
      BY <2>2, <2>4, <2>7 DEF Accepts, decode
    <3> HIDE DEF p
    <3>2. from_le_bytes(p) = get_u32le(p)
      BY <3>1, Get32
    <3> QED BY <2>0, <2>2, <2>5, <2>7, <3>1, <3>2 DEF storage_get, get_uint, Decoded
  <2>8. CASE type = "Uint64"
    <3>1. Len(p) = 2 * Word /\ decode(raw, type) = from_le_bytes(p)
      BY <2>2, <2>4, <2>8 DEF Accepts, decode
    <3> HIDE DEF p
    <3>2. from_le_bytes(p) = get_u64le(p)
      <4>1. \A i \in 1 .. 2 * Word : p[i] \in Byte
        BY <2>4, <3>1
      <4>2. get_u64le(p) = Sum(p, 2 * Word)[2 * Word]
        BY <4>1, Get64
      <4> QED BY <3>1, <4>2, Get32
    <3> QED BY <2>0, <2>2, <2>5, <2>8, <3>1, <3>2 DEF storage_get, get_u64, Decoded
  <2>9. CASE type = "Bytes"
    <3>1. decode(raw, type) = p /\ ~(Len(p) > Enough)
      BY <2>0, <2>1, <2>4, <2>9 DEF decode
    <3> HIDE DEF p
    <3> QED BY <2>2, <2>5, <2>9, <3>1 DEF storage_get, get_bytes, Decoded
  <2>10. CASE type = "Oid"
    <3> DEFINE n == Len(p) \div Word
               a == [i \in 1 .. n |-> get_u32le(Slice(p, (i - 1) * Word + 1, Word))]
               b == [i \in 1 .. n |-> from_le_bytes(Slice(p, (i - 1) * Word + 1, Word))]
    <3>1. Len(p) % Word = 0 /\ decode(raw, type) = b
      BY <2>2, <2>4, <2>10 DEF Accepts, decode
    <3> HIDE DEF p
    <3>2. n \in Nat /\ n * Word = Len(p) /\ ~(n > Enough)
      <4>1. n \in Nat /\ Len(p) = Word * n + (Len(p) % Word)
        BY <2>0, <2>4, DivMod
      <4> HIDE DEF n
      <4>2. Len(p) = Word * n
        BY <2>0, <3>1, <4>1
      <4>3. n <= Word * n /\ Word * n = n * Word
        BY <2>0, <4>1
      <4> QED BY <2>0, <2>1, <2>4, <4>1, <4>2, <4>3
    <3>3. ASSUME NEW i \in 1 .. n PROVE Len(Slice(p, (i - 1) * Word + 1, Word)) = Word
      <4> DEFINE c == (i - 1) * Word
      <4>1. c \in Nat /\ c + Word <= Len(p)
        <5> HIDE DEF n
        <5>1. n * Word >= i * Word /\ (i - 1) * Word + Word = i * Word /\ (i - 1) * Word \in Nat
          BY <2>0, <3>2
        <5> QED BY <2>0, <2>4, <3>2, <5>1
      <4> HIDE DEF c
      <4>2. (c + 1) + Word - 1 = c + Word
        BY <2>0, <4>1
      <4>3. Len(SubSeq(p, c + 1, c + Word)) = Word
        BY <2>0, <2>4, <4>1
      <4> QED BY <4>2, <4>3 DEF Slice, c
    <3>4. a = b
      <4> SUFFICES ASSUME NEW i \in 1 .. n
                   PROVE  get_u32le(Slice(p, (i - 1) * Word + 1, Word)) =
                            from_le_bytes(Slice(p, (i - 1) * Word + 1, Word))
        OBVIOUS
      <4> QED BY <3>3, Get32
    <3>5. storage_get(raw, type, Enough) =
            CASE Len(p) % Word # 0 -> Err("INVAL")
              [] Len(p) % Word = 0 /\ n > Enough -> TooBig(n)
              [] OTHER -> Ok(a)
      BY <2>5, <2>10 DEF storage_get, get_oid, Decoded
    <3> HIDE DEF n, a, b
    <3> QED BY <2>2, <3>1, <3>2, <3>4, <3>5
  <2> QED BY <2>6, <2>7, <2>8, <2>9, <2>10 DEF Types
<1>2. CellInv /\ RoundTrip => RustSubsetOfC
  <2> SUFFICES ASSUME CellInv, RoundTrip, NEW type \in Types, get_typed(cell, type).rc = "OK"
               PROVE  storage_get(cell, type, Enough) = get_typed(cell, type)
    BY DEF RustSubsetOfC
  <2>1. CASE cell \in SeqOf(Byte, MaxForeign)
    BY <1>1, <2>1
  <2>2. CASE \E t \in Types : \E v \in Domain[t] :
               wrote = <<t, v>> /\ cell = encode_header(t) \o Payload(t, v)
    <3>1. PICK t \in Types : \E v \in Domain[t] : wrote = <<t, v>>
      BY <2>2
    <3>2. PICK v \in Domain[t] : wrote = <<t, v>>
      BY <3>1
    <3>3. wrote # <<"Foreign">>
      BY <3>2
    <3> QED BY <3>3 DEF RoundTrip
  <2> QED BY <2>1, <2>2 DEF CellInv
<1> QED BY <1>2, CellInvariant, RoundTripHolds, PTL

(* No getter overruns the caller's buffer, and the length it answers with  *)
(* instead is exactly the room the next try needs, for cells of any bytes. *)
THEOREM FitsHolds == CellSpec => []FitsOrTellsHowMuch
<1>0. Word \in Nat \ {0} /\ HeaderLen \in Nat /\ MaxForeign \in Nat
  BY CodecAssumption DEF HeaderLen
<1>1. CellInv => cell \in Seq(Byte)
  <2> SUFFICES ASSUME CellInv PROVE cell \in Seq(Byte)
    OBVIOUS
  <2>1. CASE cell \in SeqOf(Byte, MaxForeign)
    BY <1>0, <2>1 DEF SeqOf
  <2>2. CASE \E t \in Types : \E v \in Domain[t] : cell = encode_header(t) \o Payload(t, v)
    BY <2>2, PayloadBytes, HeaderThen
  <2> QED BY <2>1, <2>2 DEF CellInv
<1>2. ASSUME NEW raw \in Seq(Byte), NEW type \in {"Bytes", "Oid"}, NEW room \in Nat
      PROVE  LET r == storage_get(raw, type, room)
             IN  /\ r.rc = "OK" => Len(r.val) <= room
                 /\ r.rc = "TOOBIG" => /\ r.val > room
                                       /\ storage_get(raw, type, r.val).rc = "OK"
                                       /\ Len(storage_get(raw, type, r.val).val) = r.val
  <2> DEFINE d == decode_header(raw, type)
             p == d.val
             n == IF type = "Bytes" THEN Len(p) ELSE Len(p) \div Word
             a == IF type = "Bytes" THEN p
                  ELSE [i \in 1 .. n |-> get_u32le(Slice(p, (i - 1) * Word + 1, Word))]
  <2>1. CASE d.rc # "OK"
    <3>1. \A k : storage_get(raw, type, k) = d
      BY <2>1 DEF storage_get, get_bytes, get_oid, Decoded
    <3>2. d.rc # "TOOBIG"
      <4>1. d = Err("INVAL") \/ d = Err("TYPE") \/ d.rc = "OK"
        BY DEF decode_header, Ok
      <4> QED BY <4>1 DEF Err
    <3> QED BY <2>1, <3>1, <3>2
  <2>2. CASE d.rc = "OK"
    <3>1. p \in Seq(Byte) /\ Len(p) \in Nat
      <4>1. Len(raw) \in Nat /\ Len(raw) >= HeaderLen
        <5>1. Len(raw) < HeaderLen => d = Err("INVAL")
          BY <1>0 DEF decode_header
        <5> QED BY <1>0, <2>2, <5>1 DEF Err
      <4>2. d = Ok(Slice(raw, HeaderLen + 1, Len(raw) - HeaderLen))
        <5>1. raw[1] # Tag[type] => d = Err("TYPE")
          BY <1>0, <4>1 DEF decode_header
        <5>2. raw[1] = Tag[type] /\ type \in Types
          BY <2>2, <5>1 DEF Err, Types
        <5> QED BY <4>1, <5>2, OwnTag
      <4>3. (HeaderLen + 1) + (Len(raw) - HeaderLen) - 1 = Len(raw)
        BY <1>0, <4>1
      <4>4. p = SubSeq(raw, HeaderLen + 1, Len(raw))
        <5>1. Slice(raw, HeaderLen + 1, Len(raw) - HeaderLen) = SubSeq(raw, HeaderLen + 1, Len(raw))
          BY <4>3 DEF Slice
        <5> HIDE DEF d
        <5> QED BY <4>2, <5>1 DEF Ok
      <4> HIDE DEF p
      <4> QED BY <1>0, <4>1, <4>4
    <3>2. n \in Nat /\ (type = "Oid" => Len(p) \div Word \in Nat)
      BY <1>0, <3>1, DivMod
    <3>3. Len(a) = n
      BY <3>1, <3>2
    <3>4. ASSUME NEW k \in Nat
          PROVE  \/ storage_get(raw, type, k) = Err("INVAL") /\ type = "Oid" /\ Len(p) % Word # 0
                 \/ /\ type = "Oid" => Len(p) % Word = 0
                    /\ storage_get(raw, type, k) = IF n > k THEN TooBig(n) ELSE Ok(a)
      <4>1. CASE type = "Bytes"
        BY <2>2, <4>1 DEF storage_get, get_bytes, Decoded
      <4>2. CASE type = "Oid"
        <5>1. storage_get(raw, type, k) =
                CASE Len(p) % Word # 0 -> Err("INVAL")
                  [] Len(p) % Word = 0 /\ n > k -> TooBig(n)
                  [] OTHER -> Ok(a)
          BY <2>2, <4>2 DEF storage_get, get_oid, Decoded
        <5> HIDE DEF n, a, p
        <5> QED BY <4>2, <5>1
      <4> QED BY <4>1, <4>2
    <3> HIDE DEF n, a, p
    <3>5. CASE storage_get(raw, type, room) = Err("INVAL")
      BY <3>5 DEF Err
    <3>6. CASE /\ type = "Oid" => Len(p) % Word = 0
               /\ storage_get(raw, type, room) = IF n > room THEN TooBig(n) ELSE Ok(a)
      <4>1. storage_get(raw, type, n) = Ok(a)
        BY <3>2, <3>4, <3>6
      <4>2. CASE n > room
        <5>1. storage_get(raw, type, room) = TooBig(n)
          BY <3>6, <4>2
        <5> QED BY <3>3, <4>1, <4>2, <5>1 DEF TooBig, Ok
      <4>3. CASE ~(n > room)
        <5>1. storage_get(raw, type, room) = Ok(a) /\ n <= room
          BY <3>2, <3>6, <4>3
        <5> QED BY <3>3, <5>1 DEF Ok
      <4> QED BY <4>2, <4>3
    <3> QED BY <3>4, <3>5, <3>6
  <2> QED BY <2>1, <2>2
<1>3. CellInv => FitsOrTellsHowMuch
  <2>1. Rooms \subseteq Nat
    BY CodecAssumption DEF Rooms
  <2> QED BY <1>1, <1>2, <2>1 DEF FitsOrTellsHowMuch
<1> QED BY <1>3, CellInvariant, PTL

-----------------------------------------------------------------------------
(* Numbers and their decimals. *)

LEMMA KeyNumbers ==
  /\ Radix \in Nat /\ Radix >= 2 /\ MaxSubid \in Nat /\ TABLE_ROW_SUBID_MAX \in Nat
  /\ STORAGE_KEY_MAX \in Nat /\ STORAGE_KEY_MAX \div 2 <= TABLE_ROW_SUBID_MAX
  /\ Digits = 0 .. (Radix - 1) /\ Digits \subseteq Nat
  /\ Dot \notin Digits /\ Digits \subseteq Chars /\ Dot \in Chars
BY CellKeyAssumption DEF Digits, Dot, Stray, Chars

(* The value of the first i digits of a text. *)
ValueUpTo(part) ==
  LET v[i \in 0 .. Len(part)] == IF i = 0 THEN 0 ELSE v[i - 1] * Radix + part[i]
  IN  v

LEMMA ValueEquation ==
  ASSUME NEW p \in Seq(Digits)
  PROVE  /\ ValueUpTo(p)[0] = 0
         /\ \A i \in 1 .. Len(p) : ValueUpTo(p)[i] = ValueUpTo(p)[i - 1] * Radix + p[i]
         /\ \A i \in 0 .. Len(p) : ValueUpTo(p)[i] \in Nat
         /\ u32_from(p) = ValueUpTo(p)[Len(p)]
<1> DEFINE n    == Len(p)
           step == [x \in (1 .. n) \X Nat |-> x[2] * Radix + p[x[1]]]
           s    == ValueUpTo(p)
<1>0. n \in Nat /\ 0 \in Nat /\ Radix \in Nat /\ \A i \in 1 .. n : p[i] \in Nat
  BY KeyNumbers
<1>1. step \in [(1 .. n) \X Nat -> Nat]
  BY <1>0
<1>2. PICK f : Iterates(f, n, Nat, 0, step)
  <2> HIDE DEF n, step
  <2>1. n \in Nat /\ 0 \in Nat /\ step \in [(1 .. n) \X Nat -> Nat]
    BY <1>0, <1>1
  <2> QED BY <2>1, Recursion
<1>3. \A i \in 1 .. n : f[i] = f[i - 1] * Radix + p[i]
  <2> SUFFICES ASSUME NEW i \in 1 .. n PROVE f[i] = f[i - 1] * Radix + p[i]
    OBVIOUS
  <2>1. <<i, f[i - 1]>> \in (1 .. n) \X Nat
    <3>1. f \in [0 .. n -> Nat]
      BY <1>2 DEF Iterates
    <3> HIDE DEF n
    <3>2. i - 1 \in 0 .. n
      BY <1>0
    <3>3. f[i - 1] \in Nat
      BY <3>1, <3>2
    <3> QED BY <3>3
  <2> QED BY <1>2, <2>1 DEF Iterates
<1>4. f = [i \in 0 .. n |-> IF i = 0 THEN 0 ELSE f[i - 1] * Radix + p[i]]
  BY <1>0, <1>2, <1>3 DEF Iterates
<1>5. s = [i \in 0 .. n |-> IF i = 0 THEN 0 ELSE s[i - 1] * Radix + p[i]]
  BY <1>4 DEF ValueUpTo
<1>6. u32_from(p) = s[n]
  BY DEF u32_from, ValueUpTo
<1> HIDE DEF s, n
<1>7. s[0] = 0 /\ \A i \in 1 .. n : s[i] = s[i - 1] * Radix + p[i]
  BY <1>0, <1>5
<1>8. \A i \in 0 .. n : s[i] \in Nat
  <2> DEFINE P == {i \in 0 .. n : s[i] \in Nat}
  <2>1. 0 \in P
    BY <1>0, <1>7
  <2>2. ASSUME NEW i \in 0 .. n, i < n, i \in P PROVE i + 1 \in P
    <3>1. i + 1 \in 1 .. n /\ i + 1 \in 0 .. n /\ (i + 1) - 1 = i
      BY <1>0, <2>2
    <3>2. s[i + 1] = s[i] * Radix + p[i + 1] /\ p[i + 1] \in Nat
      BY <1>0, <1>7, <3>1
    <3>3. s[i] * Radix \in Nat
      BY <1>0, <2>2
    <3> QED BY <3>1, <3>2, <3>3
  <2>3. \A i \in 0 .. n : i \in P
    <3> HIDE DEF P
    <3> QED BY <1>0, <2>1, <2>2, Turns
  <2> QED BY <2>3
<1> QED BY <1>6, <1>7, <1>8 DEF s, n

(* The value of a longer text begins as the value of the shorter. *)
LEMMA ValueLocal ==
  ASSUME NEW p \in Seq(Digits), NEW q \in Seq(Digits), NEW n \in Nat, n <= Len(p), n <= Len(q),
         \A i \in 1 .. n : p[i] = q[i]
  PROVE  ValueUpTo(p)[n] = ValueUpTo(q)[n]
<1> DEFINE s == ValueUpTo(p)
           t == ValueUpTo(q)
           P == {i \in 0 .. n : s[i] = t[i]}
<1>1. s[0] = 0 /\ \A i \in 1 .. Len(p) : s[i] = s[i - 1] * Radix + p[i]
  BY ValueEquation
<1>2. t[0] = 0 /\ \A i \in 1 .. Len(q) : t[i] = t[i - 1] * Radix + q[i]
  BY ValueEquation
<1> HIDE DEF s, t
<1>3. 0 \in P
  BY <1>1, <1>2
<1>4. ASSUME NEW i \in 0 .. n, i < n, i \in P PROVE i + 1 \in P
  <2>1. i + 1 \in 1 .. n /\ i + 1 \in 1 .. Len(p) /\ i + 1 \in 1 .. Len(q) /\ (i + 1) - 1 = i
    BY <1>4
  <2>2. s[i + 1] = s[i] * Radix + p[i + 1] /\ t[i + 1] = t[i] * Radix + q[i + 1]
    BY <1>1, <1>2, <2>1
  <2> QED BY <1>4, <2>1, <2>2
<1>5. \A i \in 0 .. n : i \in P
  <2> HIDE DEF P
  <2> QED BY <1>3, <1>4, Turns
<1>6. s[n] = t[n]
  BY <1>5
<1> QED BY <1>6 DEF s, t

(* One more digit. *)
LEMMA ValueAppend ==
  ASSUME NEW p \in Seq(Digits), NEW d \in Digits
  PROVE  u32_from(Append(p, d)) = u32_from(p) * Radix + d /\ u32_from(p) \in Nat
<1> DEFINE q == Append(p, d)
           n == Len(p)
<1>1. q \in Seq(Digits) /\ Len(q) = n + 1 /\ q[n + 1] = d /\ n \in Nat
  BY SMT
<1>2. \A i \in 1 .. n : p[i] = q[i]
  OBVIOUS
<1> HIDE DEF q
<1>3. u32_from(q) = ValueUpTo(q)[n] * Radix + d
  <2>1. n + 1 \in 1 .. Len(q) /\ (n + 1) - 1 = n
    BY <1>1
  <2>2. ValueUpTo(q)[n + 1] = ValueUpTo(q)[(n + 1) - 1] * Radix + q[n + 1]
    BY <1>1, <2>1, ValueEquation
  <2> QED BY <1>1, <2>1, <2>2, ValueEquation
<1>4. ValueUpTo(p)[n] = ValueUpTo(q)[n]
  BY <1>1, <1>2, ValueLocal
<1>5. n \in 0 .. Len(p)
  BY <1>1
<1> QED BY <1>3, <1>4, <1>5, ValueEquation DEF q

(* The value never falls as digits come. *)
LEMMA ValueGrows ==
  ASSUME NEW p \in Seq(Digits), NEW k \in 0 .. Len(p)
  PROVE  ValueUpTo(p)[k] <= u32_from(p)
<1> DEFINE s == ValueUpTo(p)
           n == Len(p)
           P == {i \in 0 .. n : i >= k => s[k] <= s[i]}
<1>1. /\ s[0] = 0 /\ \A i \in 1 .. n : s[i] = s[i - 1] * Radix + p[i]
      /\ \A i \in 0 .. n : s[i] \in Nat
      /\ u32_from(p) = s[n]
  BY ValueEquation
<1>2. n \in Nat /\ Radix \in Nat /\ Radix >= 2 /\ \A i \in 1 .. n : p[i] \in Nat
  BY KeyNumbers
<1> HIDE DEF s, n
<1>0. k \in 0 .. n
  BY DEF n
<1>3. 0 \in P
  BY <1>0, <1>1, <1>2
<1>4. ASSUME NEW i \in 0 .. n, i < n, i \in P PROVE i + 1 \in P
  <2>1. i + 1 \in 1 .. n /\ i + 1 \in 0 .. n /\ (i + 1) - 1 = i
    BY <1>2, <1>4
  <2>2. s[i + 1] = s[i] * Radix + p[i + 1] /\ s[i] \in Nat /\ p[i + 1] \in Nat /\ s[k] \in Nat
    BY <1>0, <1>1, <1>2, <2>1
  <2>3. s[i] * Radix >= s[i]
    <3> DEFINE x == s[i]
    <3>1. x \in Nat
      BY <2>2
    <3> HIDE DEF x
    <3>2. x * Radix >= x
      BY <1>2, <3>1
    <3> QED BY <3>2 DEF x
  <2>4. s[i] * Radix \in Nat
    BY <1>2, <2>2
  <2>5. s[i + 1] >= s[i] /\ s[i + 1] \in Nat
    BY <2>2, <2>3, <2>4
  <2> QED BY <1>0, <1>2, <1>4, <2>1, <2>2, <2>5
<1>5. \A i \in 0 .. n : i \in P
  <2> HIDE DEF P
  <2> QED BY <1>2, <1>3, <1>4, Turns
<1>6. n \in P /\ n >= k
  BY <1>0, <1>2, <1>5
<1> QED BY <1>1, <1>6 DEF s

(* A number of more than one digit gets smaller without its last one. *)
LEMMA Shrinks ==
  ASSUME NEW n \in Nat, n >= Radix
  PROVE  /\ n \div Radix \in Nat /\ n \div Radix < n /\ n \div Radix # 0
         /\ n % Radix \in Digits /\ n % Radix \in Nat /\ n = (n \div Radix) * Radix + (n % Radix)
<1> DEFINE q == n \div Radix
           r == n % Radix
<1>0. Radix \in Nat /\ Radix >= 2 /\ Radix \in Nat \ {0} /\ Digits = 0 .. (Radix - 1)
  BY KeyNumbers
<1>1. q \in Nat /\ r \in 0 .. (Radix - 1) /\ n = Radix * q + r
  BY <1>0, DivMod
<1> HIDE DEF q, r
<1>2. q # 0
  BY <1>0, <1>1
<1>3. Radix * q >= 2 * q /\ Radix * q \in Nat /\ Radix * q = q * Radix
  BY <1>0, <1>1
<1>4. q < n
  BY <1>1, <1>2, <1>3
<1> QED BY <1>0, <1>1, <1>2, <1>3, <1>4 DEF q, r

(* Decimal is the function its equation says; it writes digits, without a  *)
(* leading zero, of the value it was given.                                *)
LEMMA DecimalEquation ==
  \A n \in 0 .. MaxSubid :
    /\ Decimal[n] = IF n < Radix THEN <<n>> ELSE Append(Decimal[n \div Radix], n % Radix)
    /\ n >= Radix => n \div Radix \in 0 .. MaxSubid /\ n \div Radix < n
<1> DEFINE S  == Seq(Nat)
           Eq(f, n) == f[n] = IF n < Radix THEN <<n>> ELSE Append(f[n \div Radix], n % Radix)
           P  == {k \in 0 .. MaxSubid : \E f \in [0 .. k -> S] : \A n \in 0 .. k : Eq(f, n)}
<1>0. Radix \in Nat /\ Radix >= 2 /\ MaxSubid \in Nat
  BY KeyNumbers
<1>2. 0 \in P
  <2> DEFINE f == [n \in 0 .. 0 |-> <<0>>]
  <2>1. <<0>> \in S
    OBVIOUS
  <2>2. f \in [0 .. 0 -> S] /\ \A n \in 0 .. 0 : Eq(f, n)
    BY <1>0, <2>1
  <2> HIDE DEF f, S
  <2> QED BY <1>0, <2>2
<1>3. ASSUME NEW k \in 0 .. MaxSubid, k < MaxSubid, k \in P PROVE k + 1 \in P
  <2>1. PICK f \in [0 .. k -> S] : \A n \in 0 .. k : Eq(f, n)
    BY <1>3
  <2> DEFINE x == IF k + 1 < Radix THEN <<k + 1>> ELSE Append(f[(k + 1) \div Radix], (k + 1) % Radix)
             g == [n \in 0 .. (k + 1) |-> IF n <= k THEN f[n] ELSE x]
  <2>2. x \in S
    <3>1. CASE k + 1 < Radix
      BY <1>0, <3>1
    <3>2. CASE k + 1 >= Radix
      <4>1. k + 1 \in Nat /\ (k + 1) \div Radix \in 0 .. k /\ (k + 1) % Radix \in Nat
        <5> DEFINE q == (k + 1) \div Radix
        <5>1. k + 1 \in Nat
          OBVIOUS
        <5>2. q \in Nat /\ q < k + 1 /\ (k + 1) % Radix \in Nat
          BY <3>2, <5>1, Shrinks
        <5> HIDE DEF q
        <5>3. q \in 0 .. k
          BY <5>2
        <5> QED BY <5>1, <5>2, <5>3 DEF q
      <4>2. f[(k + 1) \div Radix] \in Seq(Nat)
        BY <4>1
      <4> QED BY <1>0, <3>2, <4>1, <4>2
    <3> QED BY <1>0, <3>1, <3>2
  <2>3. g \in [0 .. (k + 1) -> S]
    <3> HIDE DEF x, S
    <3> QED BY <1>0, <2>2
  <2>4. ASSUME NEW n \in 0 .. (k + 1) PROVE Eq(g, n)
    <3>1. n >= Radix => n \div Radix \in 0 .. k /\ g[n \div Radix] = f[n \div Radix]
      <4> SUFFICES ASSUME n >= Radix PROVE n \div Radix \in 0 .. k /\ g[n \div Radix] = f[n \div Radix]
        OBVIOUS
      <4>1. n \in Nat
        OBVIOUS
      <4>2. n \div Radix \in 0 .. k
        <5> DEFINE q == n \div Radix
        <5>1. q \in Nat /\ q < n
          BY <4>1, Shrinks
        <5> HIDE DEF q
        <5>2. q \in 0 .. k
          BY <5>1
        <5> QED BY <5>2 DEF q
      <4> HIDE DEF x
      <4> QED BY <1>0, <4>2
    <3>2. CASE n <= k
      <4>1. n \in 0 .. k /\ g[n] = f[n]
        BY <1>0, <3>2
      <4>2. Eq(f, n)
        BY <2>1, <4>1
      <4> HIDE DEF g
      <4> QED BY <1>0, <3>1, <4>1, <4>2
    <3>3. CASE n = k + 1
      <4>1. g[n] = x
        BY <1>0, <3>3
      <4> HIDE DEF g
      <4> QED BY <1>0, <3>1, <3>3, <4>1
    <3> QED BY <1>0, <3>2, <3>3
  <2>5. k + 1 \in 0 .. MaxSubid
    BY <1>0, <1>3
  <2> HIDE DEF g, Eq
  <2> QED BY <2>3, <2>4, <2>5
<1>4. MaxSubid \in P
  <2> HIDE DEF P
  <2>1. \A k \in 0 .. MaxSubid : k \in P
    BY <1>0, <1>2, <1>3, Turns
  <2> QED BY <1>0, <2>1
<1>5. PICK f \in [0 .. MaxSubid -> S] : \A n \in 0 .. MaxSubid : Eq(f, n)
  BY <1>4
<1>6. f = [n \in 0 .. MaxSubid |-> IF n < Radix THEN <<n>> ELSE Append(f[n \div Radix], n % Radix)]
  BY <1>5
<1>7. Decimal = [n \in 0 .. MaxSubid |->
                   IF n < Radix THEN <<n>> ELSE Append(Decimal[n \div Radix], n % Radix)]
  BY <1>6 DEF Decimal
<1>8. ASSUME NEW n \in 0 .. MaxSubid, n >= Radix PROVE n \div Radix \in 0 .. MaxSubid /\ n \div Radix < n
  <2> DEFINE q == n \div Radix
  <2>1. n \in Nat
    OBVIOUS
  <2>2. q \in Nat /\ q < n
    BY <1>8, <2>1, Shrinks
  <2> HIDE DEF q
  <2>3. q \in 0 .. MaxSubid /\ q < n
    BY <1>0, <2>2
  <2> QED BY <2>3 DEF q
<1> QED BY <1>7, <1>8

LEMMA DecimalDigits ==
  \A n \in 0 .. MaxSubid :
    /\ Decimal[n] \in Seq(Digits) /\ Len(Decimal[n]) >= 1
    /\ n # 0 => Decimal[n][1] # 0
    /\ Len(Decimal[n]) > 1 => n # 0
    /\ u32_from(Decimal[n]) = n
<1> DEFINE Good(n) == /\ Decimal[n] \in Seq(Digits) /\ Len(Decimal[n]) >= 1
                      /\ n # 0 => Decimal[n][1] # 0
                      /\ Len(Decimal[n]) > 1 => n # 0
                      /\ u32_from(Decimal[n]) = n
           P == {k \in 0 .. MaxSubid : \A n \in 0 .. k : Good(n)}
<1>0. Radix \in Nat /\ Radix >= 2 /\ MaxSubid \in Nat /\ Digits = 0 .. (Radix - 1)
  BY KeyNumbers
<1>1. ASSUME NEW n \in 0 .. MaxSubid, n < Radix PROVE Good(n)
  <2>0. Decimal[n] = IF n < Radix THEN <<n>> ELSE Append(Decimal[n \div Radix], n % Radix)
    BY DecimalEquation
  <2>1. Decimal[n] = <<n>> /\ n \in Digits
    BY <1>0, <1>1, <2>0
  <2>2. <<>> \in Seq(Digits) /\ <<n>> = Append(<<>>, n) /\ <<n>> \in Seq(Digits)
    BY <2>1
  <2>3. u32_from(<<>>) = 0
    <3>1. Len(<<>>) = 0
      OBVIOUS
    <3> QED BY <2>2, <3>1, ValueEquation
  <2>4. u32_from(<<n>>) = 0 * Radix + n
    BY <2>1, <2>2, <2>3, ValueAppend
  <2> QED BY <1>0, <2>1, <2>2, <2>4
<1>2. ASSUME NEW n \in 0 .. MaxSubid, n >= Radix, Good(n \div Radix) PROVE Good(n)
  <2> DEFINE q == n \div Radix
             r == n % Radix
             D == Decimal[q]
  <2>0. n \in Nat /\ ~(n < Radix)
    BY <1>0, <1>2
  <2>1. q \in 0 .. MaxSubid /\ Decimal[n] = Append(D, r)
    <3>1. Decimal[n] = IF n < Radix THEN <<n>> ELSE Append(Decimal[q], r)
      BY DecimalEquation
    <3>2. q \in 0 .. MaxSubid
      BY <1>2, DecimalEquation
    <3> QED BY <2>0, <3>1, <3>2
  <2>2. q \in Nat /\ q # 0 /\ r \in Digits /\ n = q * Radix + r
    BY <1>2, <2>0, Shrinks
  <2>3. D \in Seq(Digits) /\ Len(D) >= 1 /\ (q # 0 => D[1] # 0) /\ u32_from(D) = q
    BY <1>2
  <2> HIDE DEF q, r, D
  <2>4. q # 0
    BY <2>2
  <2>5. u32_from(Append(D, r)) = q * Radix + r
    BY <1>0, <2>2, <2>3, ValueAppend
  <2>6. q * Radix + r = n
    BY <1>0, <2>2
  <2>7. Append(D, r) \in Seq(Digits) /\ Len(Append(D, r)) = Len(D) + 1 /\ Append(D, r)[1] = D[1]
    BY <1>0, <2>2, <2>3
  <2> QED BY <1>0, <1>2, <2>1, <2>3, <2>4, <2>5, <2>6, <2>7
<1>3. 0 \in P
  BY <1>0, <1>1
<1>4. ASSUME NEW k \in 0 .. MaxSubid, k < MaxSubid, k \in P PROVE k + 1 \in P
  <2>1. k + 1 \in 0 .. MaxSubid
    BY <1>0, <1>4
  <2>2. Good(k + 1)
    <3>1. CASE k + 1 < Radix
      BY <1>1, <2>1, <3>1
    <3>2. CASE k + 1 >= Radix
      <4>1. (k + 1) \div Radix \in 0 .. MaxSubid /\ (k + 1) \div Radix < k + 1
        BY <2>1, <3>2, DecimalEquation
      <4>2. (k + 1) \div Radix \in 0 .. k
        BY <1>0, <4>1
      <4>3. Good((k + 1) \div Radix)
        <5> HIDE DEF Good
        <5> QED BY <1>4, <4>2
      <4> HIDE DEF Good
      <4> QED BY <1>2, <2>1, <3>2, <4>3
    <3> QED BY <1>0, <3>1, <3>2
  <2> HIDE DEF Good
  <2> QED BY <1>0, <1>4, <2>1, <2>2
<1>5. \A k \in 0 .. MaxSubid : k \in P
  <2> HIDE DEF P
  <2> QED BY <1>0, <1>3, <1>4, Turns
<1>6. \A n \in 0 .. MaxSubid : Good(n)
  <2> HIDE DEF Good
  <2> QED BY <1>0, <1>5
<1> QED BY <1>6

(* A text of digits without a leading zero is the decimal of its value. *)
LEMMA Canonical ==
  ASSUME NEW p \in Seq(Digits), p # <<>>, Len(p) > 1 => p[1] # 0, u32_from(p) <= MaxSubid
  PROVE  Decimal[u32_from(p)] = p
<1> DEFINE s == ValueUpTo(p)
           n == Len(p)
           P == {i \in 0 .. n : i >= 1 => Decimal[s[i]] = SubSeq(p, 1, i)
                                           /\ (i < n => s[i] # 0)}
<1>0. /\ Radix \in Nat /\ Radix >= 2 /\ MaxSubid \in Nat /\ n \in Nat /\ n >= 1
      /\ \A i \in 1 .. n : p[i] \in 0 .. (Radix - 1)
  BY KeyNumbers
<1>1. /\ s[0] = 0 /\ \A i \in 1 .. n : s[i] = s[i - 1] * Radix + p[i]
      /\ \A i \in 0 .. n : s[i] \in Nat
      /\ u32_from(p) = s[n]
  BY ValueEquation
<1>2. \A i \in 0 .. n : s[i] \in 0 .. MaxSubid
  <2> SUFFICES ASSUME NEW i \in 0 .. n PROVE s[i] \in 0 .. MaxSubid
    OBVIOUS
  <2>1. s[i] <= u32_from(p)
    BY ValueGrows
  <2>2. s[i] \in Nat /\ s[n] \in Nat
    BY <1>0, <1>1
  <2> HIDE DEF s
  <2> QED BY <1>0, <1>1, <2>1, <2>2
<1> HIDE DEF s
<1>3. 0 \in P
  BY <1>0
<1>4. ASSUME NEW i \in 0 .. n, i < n, i \in P PROVE i + 1 \in P
  <2> DEFINE d == p[i + 1]
             x == s[i]
  <2>1. i + 1 \in 1 .. n /\ i + 1 \in 0 .. n /\ (i + 1) - 1 = i
    BY <1>0, <1>4
  <2>2. s[i + 1] = x * Radix + d /\ x \in Nat /\ d \in 0 .. (Radix - 1)
    BY <1>0, <1>1, <2>1
  <2>3. s[i + 1] \in 0 .. MaxSubid /\ x \in 0 .. MaxSubid
    BY <1>2, <2>1
  <2>4. CASE i = 0
    <3>1. s[i + 1] = d
      BY <1>0, <1>1, <2>2, <2>4
    <3>2. Decimal[d] = <<d>>
      <4>1. d \in 0 .. MaxSubid /\ d < Radix
        BY <1>0, <2>2, <2>3, <3>1
      <4> HIDE DEF d
      <4>2. Decimal[d] = IF d < Radix THEN <<d>> ELSE Append(Decimal[d \div Radix], d % Radix)
        BY <4>1, DecimalEquation
      <4> QED BY <4>1, <4>2
    <3>3. SubSeq(p, 1, 1) = <<p[1]>>
      <4>1. SubSeq(p, 1, 1) = [j \in 1 .. 1 |-> p[j]]
        BY <1>0
      <4>2. <<p[1]>> = [j \in 1 .. 1 |-> p[j]]
        OBVIOUS
      <4> QED BY <4>1, <4>2
    <3>4. 1 < n => s[1] # 0
      BY <2>4, <3>1
    <3> QED BY <2>1, <2>4, <3>1, <3>2, <3>3, <3>4
  <2>5. CASE i >= 1
    <3>1. x # 0 /\ Decimal[x] = SubSeq(p, 1, i)
      BY <1>4, <2>5
    <3>2. (x * Radix + d) \div Radix = x /\ (x * Radix + d) % Radix = d
      <4>1. Radix \in Nat \ {0} /\ x \in Nat /\ d \in 0 .. (Radix - 1)
        BY <1>0, <2>2
      <4> HIDE DEF x, d
      <4> QED BY <4>1, DivUnique
    <3> HIDE DEF x, d
    <3>3. x * Radix >= Radix /\ x * Radix \in Nat
      BY <1>0, <2>2, <3>1
    <3>4. s[i + 1] >= Radix /\ s[i + 1] # 0
      BY <1>0, <2>2, <3>3
    <3>5. Decimal[s[i + 1]] = Append(Decimal[x], d)
      <4>1. ~(s[i + 1] < Radix)
        BY <1>0, <2>3, <3>4
      <4> QED BY <2>2, <2>3, <3>2, <4>1, DecimalEquation
    <3>6. Append(SubSeq(p, 1, i), p[i + 1]) = SubSeq(p, 1, i + 1)
      BY <1>0, <2>1
    <3> QED BY <2>1, <3>1, <3>4, <3>5, <3>6 DEF d
  <2> QED BY <1>0, <2>4, <2>5
<1>5. \A i \in 0 .. n : i \in P
  <2> HIDE DEF P
  <2> QED BY <1>0, <1>3, <1>4, Turns
<1>6. Decimal[s[n]] = SubSeq(p, 1, n)
  BY <1>0, <1>5
<1>7. SubSeq(p, 1, Len(p)) = p
  OBVIOUS
<1> QED BY <1>1, <1>6, <1>7

-----------------------------------------------------------------------------
(* Texts and the dots between them. *)

Text  == Seq(Chars)
Sep(i) == IF i = 1 THEN <<>> ELSE <<Dot>>

LEMMA AppendIs ==
  ASSUME NEW S, NEW s \in Seq(S), NEW v \in S
  PROVE  Append(s, v) = [i \in 1 .. Len(s) + 1 |-> IF i = Len(s) + 1 THEN v ELSE s[i]]
<1> DEFINE x == Append(s, v)
           n == Len(s) + 1
<1>1. x \in Seq(S) /\ Len(x) = n /\ x[n] = v /\ (\A i \in 1 .. Len(s) : x[i] = s[i]) /\ Len(s) \in Nat
  BY AppendProperties
<1> HIDE DEF x
<1>2. x = [i \in 1 .. n |-> x[i]]
  BY <1>1
<1>3. ASSUME NEW i \in 1 .. n PROVE x[i] = IF i = n THEN v ELSE s[i]
  BY <1>1
<1> QED BY <1>2, <1>3 DEF x

LEMMA Concat ==
  ASSUME NEW t \in Text, NEW u \in Text
  PROVE  /\ t \o u \in Text /\ Len(t) \in Nat /\ Len(u) \in Nat /\ Len(t \o u) = Len(t) + Len(u)
         /\ \A i \in 1 .. Len(t) : (t \o u)[i] = t[i]
         /\ \A i \in 1 .. Len(u) : (t \o u)[Len(t) + i] = u[i]
<1>1. t \o u \in Text /\ Len(t) \in Nat /\ Len(u) \in Nat /\ Len(t \o u) = Len(t) + Len(u)
  BY DEF Text
<1>2. \A i \in 1 .. Len(t) : (t \o u)[i] = t[i]
  BY DEF Text
<1>3. ASSUME NEW i \in 1 .. Len(u) PROVE (t \o u)[Len(t) + i] = u[i]
  BY DEF Text
<1> QED BY <1>1, <1>2, <1>3

(* The first i texts joined. *)
JoinedUpTo(texts) ==
  LET text[i \in 0 .. Len(texts)] ==
        IF i = 0 THEN <<>>
        ELSE (text[i - 1] \o (IF i = 1 THEN <<>> ELSE <<Dot>>)) \o texts[i]
  IN  text

LEMMA JoinedEquation ==
  ASSUME NEW q \in Seq(Text)
  PROVE  /\ JoinedUpTo(q)[0] = <<>>
         /\ \A i \in 1 .. Len(q) : JoinedUpTo(q)[i] = (JoinedUpTo(q)[i - 1] \o Sep(i)) \o q[i]
         /\ \A i \in 0 .. Len(q) : JoinedUpTo(q)[i] \in Text
         /\ Joined(q) = JoinedUpTo(q)[Len(q)]
<1> DEFINE n    == Len(q)
           step == [x \in (1 .. n) \X Text |-> (x[2] \o Sep(x[1])) \o q[x[1]]]
           s    == JoinedUpTo(q)
<1>0. n \in Nat /\ <<>> \in Text /\ (\A i \in 1 .. n : q[i] \in Text) /\ \A i : Sep(i) \in Text
  BY KeyNumbers DEF Text, Sep
<1>1. \A i \in 1 .. n : \A t \in Text : (t \o Sep(i)) \o q[i] \in Text
  <2> SUFFICES ASSUME NEW i \in 1 .. n, NEW t \in Text PROVE (t \o Sep(i)) \o q[i] \in Text
    OBVIOUS
  <2>1. q[i] \in Text /\ Sep(i) \in Text
    BY <1>0
  <2>2. \A a, b \in Text : a \o b \in Text
    BY DEF Text
  <2> QED BY <2>1, <2>2
<1>2. step \in [(1 .. n) \X Text -> Text]
  <2> HIDE DEF n
  <2> QED BY <1>1
<1>3. PICK f : Iterates(f, n, Text, <<>>, step)
  <2> HIDE DEF n, step
  <2>1. n \in Nat /\ <<>> \in Text /\ step \in [(1 .. n) \X Text -> Text]
    BY <1>0, <1>2
  <2> QED BY <2>1, Recursion
<1>4. \A i \in 1 .. n : f[i] = (f[i - 1] \o Sep(i)) \o q[i]
  <2> SUFFICES ASSUME NEW i \in 1 .. n PROVE f[i] = (f[i - 1] \o Sep(i)) \o q[i]
    OBVIOUS
  <2>1. <<i, f[i - 1]>> \in (1 .. n) \X Text
    <3>1. f \in [0 .. n -> Text]
      BY <1>3 DEF Iterates
    <3> HIDE DEF n
    <3>2. i - 1 \in 0 .. n
      BY <1>0
    <3>3. f[i - 1] \in Text
      BY <3>1, <3>2
    <3> QED BY <3>3
  <2> QED BY <1>3, <2>1 DEF Iterates
<1>5. f = [i \in 0 .. n |-> IF i = 0 THEN <<>>
                            ELSE (f[i - 1] \o (IF i = 1 THEN <<>> ELSE <<Dot>>)) \o q[i]]
  <2>1. f = [i \in 0 .. n |-> IF i = 0 THEN <<>> ELSE (f[i - 1] \o Sep(i)) \o q[i]]
    BY <1>0, <1>3, <1>4 DEF Iterates
  <2> QED BY <2>1 DEF Sep
<1>6. s = [i \in 0 .. n |-> IF i = 0 THEN <<>>
                            ELSE (s[i - 1] \o (IF i = 1 THEN <<>> ELSE <<Dot>>)) \o q[i]]
  BY <1>5 DEF JoinedUpTo
<1>7. Joined(q) = s[n]
  BY DEF Joined, JoinedUpTo
<1> HIDE DEF s, n
<1>8. s[0] = <<>>
  <2>1. 0 \in 0 .. n
    BY <1>0
  <2> QED BY <1>6, <2>1
<1>9. ASSUME NEW i \in 1 .. n PROVE s[i] = (s[i - 1] \o Sep(i)) \o q[i]
  <2>1. i \in 0 .. n /\ i # 0
    BY <1>0
  <2> QED BY <1>6, <2>1 DEF Sep
<1>10. \A i \in 0 .. n : s[i] \in Text
  <2> DEFINE P == {i \in 0 .. n : s[i] \in Text}
  <2>1. 0 \in P
    BY <1>0, <1>8
  <2>2. ASSUME NEW i \in 0 .. n, i < n, i \in P PROVE i + 1 \in P
    <3>1. i + 1 \in 1 .. n /\ i + 1 \in 0 .. n /\ (i + 1) - 1 = i
      BY <1>0, <2>2
    <3>2. s[i + 1] = (s[i] \o Sep(i + 1)) \o q[i + 1]
      BY <1>9, <3>1
    <3>3. (s[i] \o Sep(i + 1)) \o q[i + 1] \in Text
      BY <1>1, <2>2, <3>1
    <3> QED BY <3>1, <3>2, <3>3
  <2>3. \A i \in 0 .. n : i \in P
    <3> HIDE DEF P
    <3> QED BY <1>0, <2>1, <2>2, Turns
  <2> QED BY <2>3
<1> QED BY <1>7, <1>8, <1>9, <1>10 DEF s, n

(* Texts that begin alike are joined alike. *)
LEMMA JoinedLocal ==
  ASSUME NEW q \in Seq(Text), NEW r \in Seq(Text), NEW n \in Nat, n <= Len(q), n <= Len(r),
         \A i \in 1 .. n : q[i] = r[i]
  PROVE  \A i \in 0 .. n : JoinedUpTo(q)[i] = JoinedUpTo(r)[i]
<1> DEFINE s == JoinedUpTo(q)
           t == JoinedUpTo(r)
           P == {i \in 0 .. n : s[i] = t[i]}
<1>1. s[0] = <<>> /\ \A i \in 1 .. Len(q) : s[i] = (s[i - 1] \o Sep(i)) \o q[i]
  BY JoinedEquation
<1>2. t[0] = <<>> /\ \A i \in 1 .. Len(r) : t[i] = (t[i - 1] \o Sep(i)) \o r[i]
  BY JoinedEquation
<1> HIDE DEF s, t
<1>3. 0 \in P
  BY <1>1, <1>2
<1>4. ASSUME NEW i \in 0 .. n, i < n, i \in P PROVE i + 1 \in P
  <2>1. i + 1 \in 1 .. n /\ i + 1 \in 1 .. Len(q) /\ i + 1 \in 1 .. Len(r) /\ (i + 1) - 1 = i
    BY <1>4
  <2>2. s[i + 1] = (s[i] \o Sep(i + 1)) \o q[i + 1] /\ t[i + 1] = (t[i] \o Sep(i + 1)) \o r[i + 1]
    BY <1>1, <1>2, <2>1
  <2>3. q[i + 1] = r[i + 1] /\ s[i] = t[i]
    BY <1>4, <2>1
  <2>4. s[i + 1] = t[i + 1]
    BY <2>2, <2>3, Zenon
  <2>5. i + 1 \in 0 .. n
    BY <2>1
  <2> QED BY <2>4, <2>5
<1>5. \A i \in 0 .. n : i \in P
  <2> HIDE DEF P
  <2> QED BY <1>3, <1>4, Turns
<1> QED BY <1>5 DEF s, t

(* One more text. *)
LEMMA JoinedAppend ==
  ASSUME NEW q \in Seq(Text), NEW t \in Text
  PROVE  Joined(Append(q, t)) = (Joined(q) \o Sep(Len(q) + 1)) \o t
<1> DEFINE r == Append(q, t)
           n == Len(q)
<1>1. r \in Seq(Text) /\ Len(r) = n + 1 /\ r[n + 1] = t /\ n \in Nat /\ \A i \in 1 .. n : q[i] = r[i]
  OBVIOUS
<1> HIDE DEF r
<1>2. n + 1 \in 1 .. Len(r) /\ (n + 1) - 1 = n /\ n \in 0 .. n /\ n <= Len(q) /\ n <= Len(r)
  BY <1>1
<1>3. JoinedUpTo(r)[n + 1] = (JoinedUpTo(r)[(n + 1) - 1] \o Sep(n + 1)) \o r[n + 1]
  BY <1>1, <1>2, JoinedEquation
<1>4. JoinedUpTo(q)[n] = JoinedUpTo(r)[n]
  BY <1>1, <1>2, JoinedLocal
<1> QED BY <1>1, <1>2, <1>3, <1>4, JoinedEquation DEF r

(* What is joined later comes after. *)
Extends(t, u) == Len(u) <= Len(t) /\ \A i \in 1 .. Len(u) : t[i] = u[i]

LEMMA ExtendsThen ==
  ASSUME NEW t \in Text, NEW u \in Text, NEW v \in Text, Extends(t, u)
  PROVE  Extends(t \o v, u)
<1>1. Len(t \o v) = Len(t) + Len(v) /\ \A i \in 1 .. Len(t) : (t \o v)[i] = t[i]
  BY DEF Text
<1>2. Len(t) \in Nat /\ Len(u) \in Nat /\ Len(v) \in Nat
  BY DEF Text
<1> HIDE DEF Text
<1> QED BY <1>1, <1>2 DEF Extends

LEMMA JoinedExtends ==
  ASSUME NEW q \in Seq(Text), NEW k \in 0 .. Len(q)
  PROVE  Extends(Joined(q), JoinedUpTo(q)[k])
<1> DEFINE s == JoinedUpTo(q)
           n == Len(q)
           P == {i \in 0 .. n : i >= k => Extends(s[i], s[k])}
<1>1. /\ s[0] = <<>> /\ \A i \in 1 .. n : s[i] = (s[i - 1] \o Sep(i)) \o q[i]
      /\ \A i \in 0 .. n : s[i] \in Text
      /\ Joined(q) = s[n]
  BY JoinedEquation
<1>2. n \in Nat /\ k \in 0 .. n /\ \A i : Sep(i) \in Text
  BY KeyNumbers DEF Text, Sep
<1>0. \A i \in 1 .. n : q[i] \in Text
  OBVIOUS
<1> HIDE DEF s, n
<1>3. s[k] \in Text /\ Extends(s[k], s[k])
  <2>1. s[k] \in Text
    BY <1>1, <1>2
  <2>2. Len(s[k]) \in Nat
    BY <2>1 DEF Text
  <2> QED BY <2>1, <2>2 DEF Extends
<1>4. 0 \in P
  <2>1. 0 >= k => k = 0
    BY <1>2
  <2> QED BY <1>2, <1>3, <2>1
<1>5. ASSUME NEW i \in 0 .. n, i < n, i \in P PROVE i + 1 \in P
  <2>1. i + 1 \in 1 .. n /\ i + 1 \in 0 .. n /\ (i + 1) - 1 = i
    BY <1>2, <1>5
  <2>2. s[i + 1] = (s[i] \o Sep(i + 1)) \o q[i + 1] /\ s[i] \in Text /\ q[i + 1] \in Text
    BY <1>0, <1>1, <2>1
  <2>3. CASE i >= k
    <3>1. Extends(s[i], s[k])
      BY <1>5, <2>3
    <3>2. s[i] \o Sep(i + 1) \in Text
      BY <1>2, <2>2 DEF Text
    <3>3. Extends(s[i] \o Sep(i + 1), s[k])
      BY <1>2, <1>3, <2>2, <3>1, ExtendsThen
    <3>4. Extends(s[i + 1], s[k])
      BY <1>3, <2>2, <3>2, <3>3, ExtendsThen
    <3> QED BY <2>1, <3>4
  <2>4. CASE i < k
    <3>1. i + 1 >= k => i + 1 = k
      BY <1>2, <2>4
    <3> QED BY <1>3, <2>1, <3>1
  <2> QED BY <1>2, <2>3, <2>4
<1>6. \A i \in 0 .. n : i \in P
  <2> HIDE DEF P
  <2> QED BY <1>2, <1>4, <1>5, Turns
<1>7. Extends(s[n], s[k])
  BY <1>2, <1>6
<1> QED BY <1>1, <1>7 DEF s

(* Where text m begins: so many characters precede it. *)
Where(q, m) == Len(JoinedUpTo(q)[m - 1]) + Len(Sep(m))

LEMMA Place ==
  ASSUME NEW q \in Seq(Text), NEW m \in 1 .. Len(q)
  PROVE  /\ Where(q, m) \in Nat /\ Joined(q) \in Text /\ Len(q[m]) \in Nat /\ Len(Joined(q)) \in Nat
         /\ Where(q, m) + Len(q[m]) <= Len(Joined(q))
         /\ \A i \in 1 .. Len(q[m]) : Joined(q)[Where(q, m) + i] = q[m][i]
         /\ m = 1 => Where(q, m) = 0
         /\ m = Len(q) => Where(q, m) + Len(q[m]) = Len(Joined(q))
         /\ m < Len(q) => /\ Where(q, m) + Len(q[m]) < Len(Joined(q))
                          /\ Joined(q)[Where(q, m) + Len(q[m]) + 1] = Dot
                          /\ Where(q, m + 1) = Where(q, m) + Len(q[m]) + 1
<1> DEFINE s == JoinedUpTo(q)
           n == Len(q)
           d == Joined(q)
           a == Where(q, m)
           t == q[m]
           u == s[m - 1]
<1>0. n \in Nat /\ m \in 1 .. n /\ m \in 0 .. n /\ m - 1 \in 0 .. n /\ n \in 0 .. n
  OBVIOUS
<1>1. /\ s[0] = <<>> /\ \A i \in 1 .. n : s[i] = (s[i - 1] \o Sep(i)) \o q[i]
      /\ \A i \in 0 .. n : s[i] \in Text
      /\ d = s[n]
  BY JoinedEquation
<1>2. \A i : Sep(i) \in Text
  BY KeyNumbers DEF Text, Sep
<1>3. \A i \in 1 .. n : q[i] \in Text
  OBVIOUS
<1>4. a = Len(u) + Len(Sep(m))
  BY DEF Where
<1>5. \A i \in 0 .. n : Extends(d, s[i])
  BY JoinedExtends
<1>6. m + 1 <= n => Where(q, m + 1) = Len(s[m]) + Len(Sep(m + 1))
  <2>1. (m + 1) - 1 = m
    OBVIOUS
  <2> QED BY <2>1 DEF Where
<1> HIDE DEF s, n, d, a
<1>7. s[m] = (u \o Sep(m)) \o t /\ u \in Text /\ t \in Text /\ Sep(m) \in Text /\ d \in Text
  BY <1>0, <1>1, <1>2, <1>3
<1> HIDE DEF t, u
<1>8. Len(u) \in Nat /\ Len(Sep(m)) \in Nat /\ Len(t) \in Nat /\ Len(d) \in Nat
  BY <1>7 DEF Text
<1>9. /\ Len(s[m]) = a + Len(t) /\ \A i \in 1 .. Len(t) : s[m][a + i] = t[i]
  <2>1. /\ Len(u \o Sep(m)) = Len(u) + Len(Sep(m)) /\ u \o Sep(m) \in Text
    BY <1>7 DEF Text
  <2> DEFINE v == u \o Sep(m)
  <2>2. v \in Text /\ Len(v) = a /\ s[m] = v \o t
    BY <1>4, <1>7, <2>1
  <2> HIDE DEF v
  <2>3. Len(v \o t) = Len(v) + Len(t) /\ \A i \in 1 .. Len(t) : (v \o t)[Len(v) + i] = t[i]
    BY <1>7, <2>2, Concat
  <2> QED BY <2>2, <2>3
<1>10. a \in Nat
  BY <1>4, <1>8
<1>11. Extends(d, s[m])
  BY <1>0, <1>5
<1>12. a + Len(t) <= Len(d) /\ \A i \in 1 .. Len(t) : d[a + i] = t[i]
  <2>1. a + Len(t) <= Len(d)
    BY <1>9, <1>11 DEF Extends
  <2>2. ASSUME NEW i \in 1 .. Len(t) PROVE d[a + i] = t[i]
    <3>1. a + i \in 1 .. Len(s[m])
      BY <1>8, <1>9, <1>10
    <3> QED BY <1>9, <1>11, <3>1 DEF Extends
  <2> QED BY <2>1, <2>2
<1>13. m = 1 => a = 0
  <2>1. m = 1 => u = <<>> /\ Sep(m) = <<>>
    BY <1>1 DEF u, Sep
  <2> QED BY <1>4, <2>1
<1>14. m = n => a + Len(t) = Len(d)
  BY <1>1, <1>9
<1>15. ASSUME m < n
       PROVE  a + Len(t) < Len(d) /\ d[a + Len(t) + 1] = Dot /\ Where(q, m + 1) = a + Len(t) + 1
  <2>1. m + 1 \in 1 .. n /\ m + 1 \in 0 .. n /\ (m + 1) - 1 = m /\ m + 1 # 1
    BY <1>0, <1>15
  <2>2. Sep(m + 1) = <<Dot>>
    BY <2>1 DEF Sep
  <2> DEFINE v == s[m]
             w == q[m + 1]
             x == s[m + 1]
  <2>3. x = (v \o <<Dot>>) \o w /\ v \in Text /\ w \in Text /\ Extends(d, x) /\ Len(v) = a + Len(t)
    BY <1>0, <1>1, <1>3, <1>5, <1>9, <2>1, <2>2
  <2>4. Where(q, m + 1) = Len(v) + 1
    <3>1. m + 1 <= n /\ Len(<<Dot>>) = 1
      BY <2>1
    <3> QED BY <1>6, <2>2, <3>1
  <2> HIDE DEF v, w, x
  <2>5. Len(x) = Len(v) + 1 + Len(w) /\ x[Len(v) + 1] = Dot /\ Len(v) \in Nat /\ Len(w) \in Nat
    <3> DEFINE y == v \o <<Dot>>
    <3>1. y \in Text /\ Len(y) = Len(v) + 1 /\ y[Len(v) + 1] = Dot /\ Len(v) \in Nat
      <4>1. v \in Seq(Chars) /\ Dot \in Chars /\ <<Dot>> \in Seq(Chars)
        BY <2>3, KeyNumbers DEF Text
      <4>2. y \in Seq(Chars) /\ Len(y) = Len(v) + Len(<<Dot>>) /\ Len(v) \in Nat
        BY <4>1
      <4>3. Len(y) = Len(v) + 1
        BY <4>2
      <4>4. y[Len(v) + 1] = Dot
        BY <4>1, <4>2
      <4> QED BY <4>2, <4>3, <4>4 DEF Text
    <3>2. x = y \o w
      BY <2>3
    <3> HIDE DEF y
    <3>3. Len(y \o w) = Len(y) + Len(w) /\ (\A i \in 1 .. Len(y) : (y \o w)[i] = y[i]) /\ Len(w) \in Nat
      BY <2>3, <3>1, Concat
    <3> QED BY <3>1, <3>2, <3>3
  <2>6. Len(v) + 1 \in 1 .. Len(x) /\ Len(x) <= Len(d)
    BY <2>3, <2>5 DEF Extends
  <2>7. d[Len(v) + 1] = Dot
    BY <2>3, <2>5, <2>6 DEF Extends
  <2>8. Len(v) < Len(d)
    BY <1>8, <2>5, <2>6
  <2> QED BY <2>3, <2>4, <2>7, <2>8
<1> QED BY <1>7, <1>8, <1>10, <1>12, <1>13, <1>14, <1>15 DEF n, d, a, t

(* A text without a dot in it. *)
Plain == {t \in Text : \A i \in 1 .. Len(t) : t[i] # Dot}

(* Texts without dots are told apart by the string they are joined to. *)
LEMMA JoinedUnique ==
  ASSUME NEW q \in Seq(Plain), NEW r \in Seq(Plain), q # <<>>, r # <<>>, Joined(q) = Joined(r)
  PROVE  q = r
<1> DEFINE d == Joined(q)
           n == Len(q)
           k == Len(r)
           P == {i \in 0 .. n : /\ i <= k /\ \A j \in 1 .. i : q[j] = r[j]
                                /\ i < n => i < k /\ Where(q, i + 1) = Where(r, i + 1)
                                /\ i = n => k = n}
<1>0. q \in Seq(Text) /\ r \in Seq(Text) /\ n \in Nat /\ k \in Nat /\ n >= 1 /\ k >= 1
  BY DEF Plain
<1>1. /\ \A i \in 1 .. n : q[i] \in Text /\ \A j \in 1 .. Len(q[i]) : q[i][j] # Dot
      /\ \A i \in 1 .. k : r[i] \in Text /\ \A j \in 1 .. Len(r[i]) : r[i][j] # Dot
  BY DEF Plain
<1>2. 0 \in P
  <2>1. Where(q, 1) = 0 /\ Where(r, 1) = 0
    <3>1. 1 \in 1 .. Len(q) /\ 1 \in 1 .. Len(r)
      BY <1>0
    <3> QED BY <1>0, <3>1, Place
  <2> QED BY <1>0, <2>1
<1>3. ASSUME NEW i \in 0 .. n, i < n, i \in P PROVE i + 1 \in P
  <2> DEFINE m == i + 1
             a == Where(q, m)
             t == q[m]
             u == r[m]
  <2>1. m \in 1 .. n /\ m \in 1 .. k /\ Where(r, m) = a
    BY <1>0, <1>3
  <2>2. /\ a \in Nat /\ d \in Text /\ Len(t) \in Nat /\ Len(d) \in Nat
        /\ a + Len(t) <= Len(d) /\ \A j \in 1 .. Len(t) : d[a + j] = t[j]
        /\ m = n => a + Len(t) = Len(d)
        /\ m < n => /\ a + Len(t) < Len(d) /\ d[a + Len(t) + 1] = Dot
                    /\ Where(q, m + 1) = a + Len(t) + 1
    BY <1>0, <2>1, Place
  <2>3. /\ Len(u) \in Nat
        /\ a + Len(u) <= Len(d) /\ \A j \in 1 .. Len(u) : d[a + j] = u[j]
        /\ m = k => a + Len(u) = Len(d)
        /\ m < k => /\ a + Len(u) < Len(d) /\ d[a + Len(u) + 1] = Dot
                    /\ Where(r, m + 1) = a + Len(u) + 1
    <3>1. Joined(r) = d
      OBVIOUS
    <3>2. /\ Len(r[m]) \in Nat
          /\ Where(r, m) + Len(r[m]) <= Len(Joined(r))
          /\ \A j \in 1 .. Len(r[m]) : Joined(r)[Where(r, m) + j] = r[m][j]
          /\ m = Len(r) => Where(r, m) + Len(r[m]) = Len(Joined(r))
          /\ m < Len(r) => /\ Where(r, m) + Len(r[m]) < Len(Joined(r))
                           /\ Joined(r)[Where(r, m) + Len(r[m]) + 1] = Dot
                           /\ Where(r, m + 1) = Where(r, m) + Len(r[m]) + 1
      BY <1>0, <2>1, Place
    <3> QED BY <2>1, <3>1, <3>2
  <2>4. t \in Text /\ u \in Text /\ (\A j \in 1 .. Len(t) : t[j] # Dot) /\ \A j \in 1 .. Len(u) : u[j] # Dot
    BY <1>1, <2>1
  <2>0. (m = n \/ m < n) /\ (m = k \/ m < k)
    BY <1>0, <2>1
  <2> HIDE DEF d, m, a, t, u, n, k
  <2>5. ~(Len(t) < Len(u))
    <3> SUFFICES ASSUME Len(t) < Len(u) PROVE FALSE
      OBVIOUS
    <3>1. m < n
      BY <2>0, <2>2, <2>3
    <3>2. Len(t) + 1 \in 1 .. Len(u) /\ a + (Len(t) + 1) = a + Len(t) + 1
      BY <2>2, <2>3
    <3>3. d[a + (Len(t) + 1)] = u[Len(t) + 1] /\ d[a + Len(t) + 1] = Dot
      BY <2>2, <2>3, <3>1, <3>2
    <3> QED BY <2>4, <3>2, <3>3
  <2>6. ~(Len(u) < Len(t))
    <3> SUFFICES ASSUME Len(u) < Len(t) PROVE FALSE
      OBVIOUS
    <3>1. m < k
      BY <2>0, <2>2, <2>3
    <3>2. Len(u) + 1 \in 1 .. Len(t) /\ a + (Len(u) + 1) = a + Len(u) + 1
      BY <2>2, <2>3
    <3>3. d[a + (Len(u) + 1)] = t[Len(u) + 1] /\ d[a + Len(u) + 1] = Dot
      BY <2>2, <2>3, <3>1, <3>2
    <3> QED BY <2>4, <3>2, <3>3
  <2>7. Len(t) = Len(u)
    BY <2>2, <2>3, <2>5, <2>6
  <2>8. t = u
    <3>1. \A j \in 1 .. Len(t) : t[j] = u[j]
      BY <2>2, <2>3, <2>7
    <3>2. t \in Seq(Chars) /\ u \in Seq(Chars)
      BY <2>4 DEF Text
    <3> QED BY <2>7, <3>1, <3>2, SeqEqual
  <2>9. m = n <=> m = k
    BY <2>0, <2>2, <2>3, <2>7
  <2>10. m < n => m < k /\ Where(q, m + 1) = Where(r, m + 1)
    BY <2>0, <2>2, <2>3, <2>7, <2>9
  <2>11. m \in 0 .. n /\ m <= k
    BY <1>0, <2>1 DEF n, k
  <2>12. \A j \in 1 .. m : q[j] = r[j]
    <3> SUFFICES ASSUME NEW j \in 1 .. m PROVE q[j] = r[j]
      OBVIOUS
    <3>1. j \in 1 .. i \/ j = m
      BY DEF m
    <3> QED BY <1>3, <2>8, <3>1 DEF t, u
  <2> QED BY <2>9, <2>10, <2>11, <2>12 DEF m
<1>4. n \in P
  <2>1. \A i \in 0 .. n : i \in P
    <3> HIDE DEF P, n
    <3> QED BY <1>0, <1>2, <1>3, Turns
  <2> HIDE DEF P
  <2> QED BY <1>0, <2>1
<1>5. n = k /\ \A j \in 1 .. n : q[j] = r[j]
  BY <1>4
<1> QED BY <1>0, <1>5

(* What one character does to the parts. *)
Grow(prev, c) ==
  IF c = Dot THEN Append(prev, <<>>) ELSE [prev EXCEPT ![Len(prev)] = Append(@, c)]

LEMMA GrowParts ==
  ASSUME NEW prev \in Seq(Plain), prev # <<>>, NEW c \in Chars
  PROVE  /\ Grow(prev, c) \in Seq(Plain) /\ Grow(prev, c) # <<>>
         /\ Joined(Grow(prev, c)) = Append(Joined(prev), c)
<1> DEFINE n == Len(prev)
<1>0. n \in Nat /\ n >= 1 /\ prev \in Seq(Text) /\ n \in 1 .. n /\ n + 1 # 1
  BY DEF Plain
<1>1. Joined(prev) \in Text
  BY <1>0, Place
<1>2. CASE c = Dot
  <2>1. Grow(prev, c) = Append(prev, <<>>) /\ <<>> \in Plain /\ <<>> \in Text
    BY <1>2 DEF Grow, Plain, Text
  <2>2. Append(prev, <<>>) \in Seq(Plain) /\ Append(prev, <<>>) # <<>>
    BY <2>1
  <2>3. Joined(Append(prev, <<>>)) = (Joined(prev) \o <<Dot>>) \o <<>>
    <3>1. Joined(Append(prev, <<>>)) = (Joined(prev) \o Sep(n + 1)) \o <<>>
      BY <1>0, <2>1, JoinedAppend
    <3>2. Sep(n + 1) = <<Dot>>
      BY <1>0 DEF Sep
    <3> QED BY <3>1, <3>2
  <2>4. \A x \in Text : (x \o <<Dot>>) \o <<>> = Append(x, Dot)
    BY KeyNumbers DEF Text
  <2> QED BY <1>1, <1>2, <2>1, <2>2, <2>3, <2>4
<1>3. CASE c # Dot
  <2> DEFINE f == SubSeq(prev, 1, n - 1)
             t == prev[n]
             g == Append(t, c)
  <2>1. f \in Seq(Plain) /\ Len(f) = n - 1 /\ prev = Append(f, t) /\ t \in Plain
    <3>1. f \in Seq(Plain) /\ Len(f) = n - 1 /\ t \in Plain /\ \A i \in 1 .. (n - 1) : f[i] = prev[i]
      <4>1. t \in Plain
        BY <1>0
      <4>2. f = [i \in 1 .. (n - 1) |-> prev[i]]
        BY <1>0
      <4>3. n - 1 \in Nat /\ \A i \in 1 .. (n - 1) : prev[i] \in Plain
        BY <1>0
      <4> HIDE DEF f, t
      <4> QED BY <4>1, <4>2, <4>3
    <3> HIDE DEF f
    <3>2. Append(f, t) = [i \in 1 .. Len(f) + 1 |-> IF i = Len(f) + 1 THEN t ELSE f[i]]
      BY <3>1, AppendIs
    <3>3. Len(f) + 1 = n
      BY <1>0, <3>1
    <3>4. prev = [i \in 1 .. n |-> prev[i]]
      BY <1>0
    <3>5. ASSUME NEW i \in 1 .. n PROVE prev[i] = IF i = n THEN t ELSE f[i]
      BY <1>0, <3>1
    <3> HIDE DEF t
    <3> QED BY <3>1, <3>2, <3>3, <3>4, <3>5
  <2>2. g \in Plain
    <3>1. t \in Text /\ \A i \in 1 .. Len(t) : t[i] # Dot
      BY <2>1 DEF Plain
    <3> HIDE DEF t
    <3>2. g \in Text /\ Len(g) = Len(t) + 1 /\ g[Len(t) + 1] = c /\ \A i \in 1 .. Len(t) : g[i] = t[i]
      BY <3>1 DEF Text
    <3>3. Len(t) \in Nat
      BY <3>1 DEF Text
    <3> HIDE DEF g
    <3> QED BY <1>3, <3>1, <3>2, <3>3 DEF Plain
  <2>3. Grow(prev, c) = [prev EXCEPT ![n] = g]
    BY <1>3 DEF Grow
  <2>4. Append(f, g) = [prev EXCEPT ![n] = g]
    <3> HIDE DEF g
    <3>1. Append(f, g) = [i \in 1 .. n |-> IF i = n THEN g ELSE prev[i]]
      <4>1. Append(f, g) = [i \in 1 .. Len(f) + 1 |-> IF i = Len(f) + 1 THEN g ELSE f[i]]
        <5> HIDE DEF f
        <5> QED BY <2>1, <2>2, AppendIs
      <4>2. Len(f) + 1 = n
        BY <1>0, <2>1
      <4>3. ASSUME NEW i \in 1 .. n, i # n PROVE f[i] = prev[i]
        BY <1>0, <4>3
      <4> HIDE DEF f
      <4> QED BY <4>1, <4>2, <4>3
    <3>2. [prev EXCEPT ![n] = g] = [i \in 1 .. n |-> IF i = n THEN g ELSE prev[i]]
      BY <1>0
    <3> QED BY <3>1, <3>2
  <2> HIDE DEF f, t, g
  <2>5. f \in Seq(Text) /\ t \in Text /\ g \in Text
    BY <2>1, <2>2 DEF Plain
  <2>6. /\ Joined(Append(f, g)) = (Joined(f) \o Sep(Len(f) + 1)) \o g
        /\ Joined(Append(f, t)) = (Joined(f) \o Sep(Len(f) + 1)) \o t
    BY <2>5, JoinedAppend
  <2> DEFINE y == Joined(f) \o Sep(Len(f) + 1)
  <2>7. y \in Text
    <3>1. Joined(f) \in Text
      <4>1. Len(f) \in 0 .. Len(f)
        BY <2>5
      <4> QED BY <2>5, <4>1, JoinedEquation
    <3>2. \A i : Sep(i) \in Text
      BY KeyNumbers DEF Text, Sep
    <3> QED BY <3>1, <3>2, Concat
  <2> HIDE DEF y
  <2>8. y \o Append(t, c) = Append(y \o t, c)
    BY <2>5, <2>7 DEF Text
  <2>9. Append(f, g) \in Seq(Plain) /\ Append(f, g) # <<>>
    BY <2>1, <2>2
  <2> QED BY <2>1, <2>3, <2>4, <2>6, <2>8, <2>9 DEF y, g
<1> QED BY <1>2, <1>3

(* The parts have no dots in them and, joined again, are the string. *)
LEMMA SplitJoined ==
  ASSUME NEW s \in Text
  PROVE  split(s) \in Seq(Plain) /\ split(s) # <<>> /\ Joined(split(s)) = s
<1> DEFINE S    == Seq(Plain) \ {<<>>}
           n    == Len(s)
           step == [x \in (1 .. n) \X S |-> Grow(x[2], s[x[1]])]
           v    == PartsUpTo(s)
           a    == << <<>> >>
<1>0. n \in Nat /\ (\A i \in 1 .. n : s[i] \in Chars) /\ <<>> \in Plain /\ <<>> \in Text
  BY DEF Text, Plain
<1>1. a \in S
  BY <1>0
<1>2. \A i \in 1 .. n : \A prev \in S :
        Grow(prev, s[i]) \in S /\ Joined(Grow(prev, s[i])) = Append(Joined(prev), s[i])
  BY <1>0, GrowParts
<1>3. step \in [(1 .. n) \X S -> S]
  <2> HIDE DEF n, S
  <2> QED BY <1>2
<1>4. PICK f : Iterates(f, n, S, a, step)
  <2> HIDE DEF n, step, S, a
  <2>1. n \in Nat /\ a \in S /\ step \in [(1 .. n) \X S -> S]
    BY <1>0, <1>1, <1>3
  <2> QED BY <2>1, Recursion
<1> HIDE DEF S
<1>5. \A i \in 1 .. n : f[i] = Grow(f[i - 1], s[i])
  <2> SUFFICES ASSUME NEW i \in 1 .. n PROVE f[i] = Grow(f[i - 1], s[i])
    OBVIOUS
  <2>1. <<i, f[i - 1]>> \in (1 .. n) \X S
    BY <1>0, <1>4 DEF Iterates
  <2> QED BY <1>4, <2>1 DEF Iterates
<1>6. f = [i \in 0 .. n |-> IF i = 0 THEN a ELSE Grow(f[i - 1], s[i])]
  <2> HIDE DEF a, step, n
  <2>1. f \in [0 .. n -> S] /\ f[0] = a
    BY <1>4 DEF Iterates
  <2>2. ASSUME NEW i \in 0 .. n PROVE f[i] = IF i = 0 THEN a ELSE Grow(f[i - 1], s[i])
    <3>1. i = 0 \/ i \in 1 .. n
      BY <1>0
    <3> QED BY <1>5, <2>1, <3>1
  <2> QED BY <2>1, <2>2
<1>7. v = [i \in 0 .. n |-> IF i = 0 THEN a ELSE Grow(v[i - 1], s[i])]
  BY <1>6 DEF PartsUpTo, Grow
<1>8. split(s) = v[n]
  BY DEF split
<1> HIDE DEF v, n, a
<1>9. v[0] = a /\ \A i \in 1 .. n : v[i] = Grow(v[i - 1], s[i])
  BY <1>0, <1>7
<1> DEFINE P == {i \in 0 .. n : v[i] \in S /\ Joined(v[i]) = SubSeq(s, 1, i)}
<1>10. 0 \in P
  <2>1. a = Append(<<>>, <<>>) /\ <<>> \in Seq(Text) /\ Len(<<>>) = 0
    BY <1>0 DEF a
  <2>2. Joined(<<>>) = <<>>
    BY <2>1, JoinedEquation
  <2>3. Joined(a) = (<<>> \o Sep(0 + 1)) \o <<>>
    BY <1>0, <2>1, <2>2, JoinedAppend
  <2>4. Sep(0 + 1) = <<>>
    BY DEF Sep
  <2>5. SubSeq(s, 1, 0) = <<>>
    BY DEF Text
  <2>6. Joined(a) = <<>>
    BY <2>3, <2>4
  <2>7. v[0] \in S /\ Joined(v[0]) = SubSeq(s, 1, 0) /\ 0 \in 0 .. n
    BY <1>0, <1>1, <1>9, <2>5, <2>6
  <2> QED BY <2>7
<1>11. ASSUME NEW i \in 0 .. n, i < n, i \in P PROVE i + 1 \in P
  <2>1. i + 1 \in 1 .. n /\ i + 1 \in 0 .. n /\ (i + 1) - 1 = i
    BY <1>0, <1>11
  <2>2. v[i + 1] = Grow(v[i], s[i + 1]) /\ v[i] \in S /\ Joined(v[i]) = SubSeq(s, 1, i)
    BY <1>9, <1>11, <2>1
  <2>3. v[i + 1] \in S /\ Joined(v[i + 1]) = Append(SubSeq(s, 1, i), s[i + 1])
    BY <1>2, <2>1, <2>2
  <2>4. Append(SubSeq(s, 1, i), s[i + 1]) = SubSeq(s, 1, i + 1)
    BY <1>0, <2>1 DEF Text, n
  <2> QED BY <2>1, <2>3, <2>4
<1>12. n \in P
  <2> HIDE DEF P
  <2>1. \A i \in 0 .. n : i \in P
    BY <1>0, <1>10, <1>11, Turns
  <2> QED BY <1>0, <2>1
<1>13. SubSeq(s, 1, Len(s)) = s
  BY DEF Text
<1> QED BY <1>8, <1>12, <1>13 DEF S, n

-----------------------------------------------------------------------------
(* Instances and their texts. *)

Subids == 0 .. MaxSubid
Texts(s) == [i \in DOMAIN s |-> Decimal[s[i]]]

LEMMA TextsOf ==
  ASSUME NEW s \in Seq(Subids)
  PROVE  /\ Texts(s) \in Seq(Plain) /\ Texts(s) \in Seq(Text) /\ Len(Texts(s)) = Len(s)
         /\ table_instance_format(s) = Joined(Texts(s))
         /\ \A i \in 1 .. Len(s) : /\ Texts(s)[i] = Decimal[s[i]] /\ s[i] \in 0 .. MaxSubid
                                   /\ Decimal[s[i]] \in Seq(Digits) /\ Len(Decimal[s[i]]) >= 1
                                   /\ Len(Decimal[s[i]]) \in Nat
<1>1. \A i \in 1 .. Len(s) : s[i] \in 0 .. MaxSubid /\ Texts(s)[i] = Decimal[s[i]]
  <2>1. DOMAIN s = 1 .. Len(s) /\ \A i \in 1 .. Len(s) : s[i] \in Subids
    OBVIOUS
  <2> QED BY <2>1 DEF Texts, Subids
<1>2. \A i \in 1 .. Len(s) : Decimal[s[i]] \in Seq(Digits) /\ Len(Decimal[s[i]]) >= 1
  BY <1>1, DecimalDigits
<1>3. \A t \in Seq(Digits) : t \in Plain /\ Len(t) \in Nat
  BY KeyNumbers DEF Plain, Text
<1>4. Texts(s) \in Seq(Plain) /\ Len(Texts(s)) = Len(s)
  <2>1. Texts(s) = [i \in 1 .. Len(s) |-> Decimal[s[i]]] /\ Len(s) \in Nat
    BY DEF Texts
  <2> QED BY <1>2, <1>3, <2>1
<1>5. Texts(s) \in Seq(Text)
  BY <1>4 DEF Plain
<1> QED BY <1>1, <1>2, <1>3, <1>4, <1>5 DEF table_instance_format, Texts

LEMMA TextsAppend ==
  ASSUME NEW s \in Seq(Subids), NEW v \in Subids
  PROVE  table_instance_format(Append(s, v)) =
           (table_instance_format(s) \o Sep(Len(s) + 1)) \o Decimal[v]
<1>1. Append(s, v) \in Seq(Subids)
  OBVIOUS
<1>2. Texts(Append(s, v)) = Append(Texts(s), Decimal[v])
  <2>1. /\ Append(s, v) = [i \in 1 .. Len(s) + 1 |-> IF i = Len(s) + 1 THEN v ELSE s[i]]
        /\ DOMAIN s = 1 .. Len(s) /\ Len(s) \in Nat
    BY AppendIs
  <2> DEFINE x == [i \in 1 .. Len(s) + 1 |-> IF i = Len(s) + 1 THEN Decimal[v] ELSE Decimal[s[i]]]
  <2>2. Texts(Append(s, v)) = x
    BY <2>1 DEF Texts
  <2>3. Append(Texts(s), Decimal[v]) = x
    <3>1. Texts(s) = [i \in 1 .. Len(s) |-> Decimal[s[i]]] /\ Texts(s) \in Seq(Text) /\ Len(Texts(s)) = Len(s)
      BY <2>1, TextsOf DEF Texts
    <3> QED BY <2>1, <3>1
  <2> QED BY <2>2, <2>3
<1>3. Decimal[v] \in Text
  <2>1. Decimal[v] \in Seq(Digits)
    BY DecimalDigits DEF Subids
  <2> QED BY <2>1, KeyNumbers DEF Text
<1>4. Joined(Append(Texts(s), Decimal[v])) = (Joined(Texts(s)) \o Sep(Len(Texts(s)) + 1)) \o Decimal[v]
  BY <1>3, TextsOf, JoinedAppend
<1> QED BY <1>1, <1>2, <1>4, TextsOf

-----------------------------------------------------------------------------
(* The specification of the parser. *)

Lead(s) == table_instance_format(s) \o Sep(Len(s) + 1)

(* A row whose key is the string being parsed. *)
Row(s) ==
  s \in SeqOf(Subids, TABLE_ROW_SUBID_MAX) /\ s # <<>> /\ table_instance_format(s) = dotted

(* The row goes on after the sub-identifiers parsed so far, and its next   *)
(* one is written after k characters.                                      *)
GoesOn(s, k) ==
  /\ Len(inst) < Len(s) /\ (\A i \in 1 .. Len(inst) : s[i] = inst[i])
  /\ Where(Texts(s), Len(inst) + 1) = k

Read == SubSeq(dotted, start + 1, pos)

KeyTypes ==
  /\ dotted \in Text /\ pos \in 0 .. Len(dotted) /\ inst \in Seq(Subids)
  /\ Len(inst) <= TABLE_ROW_SUBID_MAX /\ at \in {"component", "digits", "end"}

(* What was parsed is what is written before the component, and a row      *)
(* whose key this is has begun with it.                                    *)
InvComponent == SubSeq(dotted, 1, pos) = Lead(inst) /\ \A s : Row(s) => GoesOn(s, pos)

InvDigits ==
  /\ Len(inst) < TABLE_ROW_SUBID_MAX /\ start \in 0 .. pos
  /\ SubSeq(dotted, 1, start) = Lead(inst) /\ \A s : Row(s) => GoesOn(s, start)
  /\ Read \in Seq(Digits) /\ value = u32_from(Read) /\ value \in Subids

InvEnd ==
  /\ rc = "OK" => inst # <<>> /\ table_instance_format(inst) = dotted
  /\ rc = "INVAL" => \A s : ~Row(s)
  /\ rc \in {"OK", "INVAL"}

KeyInv ==
  /\ KeyTypes
  /\ at = "component" => InvComponent
  /\ at = "digits" => InvDigits
  /\ at = "end" => InvEnd

LEMMA RowIs ==
  ASSUME NEW s, Row(s)
  PROVE  /\ s \in Seq(Subids) /\ Len(s) \in Nat /\ Len(s) >= 1 /\ Len(s) <= TABLE_ROW_SUBID_MAX
         /\ Joined(Texts(s)) = dotted
<1>1. PICK n \in 0 .. TABLE_ROW_SUBID_MAX : s \in [1 .. n -> Subids]
  BY DEF Row, SeqOf
<1>2. s \in Seq(Subids) /\ Len(s) = n /\ n \in Nat /\ n <= TABLE_ROW_SUBID_MAX
  BY <1>1, KeyNumbers
<1>3. Len(s) # 0
  BY <1>2 DEF Row
<1> QED BY <1>2, <1>3, TextsOf DEF Row

(* What the parser sees of a row's next sub-identifier: the digits of it,  *)
(* then the end of the string or a dot with more after it.                 *)
LEMMA Ahead ==
  ASSUME KeyTypes, NEW s, Row(s), NEW k, GoesOn(s, k)
  PROVE  LET m == Len(inst) + 1
             D == Decimal[s[m]]
         IN  /\ m \in 1 .. Len(s) /\ s[m] \in 0 .. MaxSubid /\ D \in Seq(Digits) /\ Len(D) \in Nat
             /\ Len(D) >= 1 /\ k \in Nat /\ k + Len(D) <= Len(dotted)
             /\ \A i \in 1 .. Len(D) : dotted[k + i] = D[i]
             /\ m = Len(s) => k + Len(D) = Len(dotted)
             /\ m < Len(s) => /\ k + Len(D) + 1 < Len(dotted) /\ dotted[k + Len(D) + 1] = Dot
                              /\ Where(Texts(s), m + 1) = k + Len(D) + 1
<1> DEFINE m == Len(inst) + 1
           q == Texts(s)
           D == Decimal[s[m]]
<1>1. /\ s \in Seq(Subids) /\ Len(s) \in Nat /\ Joined(q) = dotted
  BY RowIs
<1>2. m \in 1 .. Len(s) /\ m \in Nat
  BY <1>1 DEF KeyTypes, GoesOn
<1>3. q \in Seq(Text) /\ Len(q) = Len(s)
  BY <1>1, TextsOf
<1>4. /\ q[m] = D /\ s[m] \in 0 .. MaxSubid /\ D \in Seq(Digits) /\ Len(D) >= 1 /\ Len(D) \in Nat
  BY <1>1, <1>2, TextsOf
<1>5. Where(q, m) = k
  BY DEF GoesOn
<1> HIDE DEF m, q, D
<1>6. /\ Where(q, m) \in Nat /\ Len(Joined(q)) \in Nat
      /\ Where(q, m) + Len(q[m]) <= Len(Joined(q))
      /\ \A i \in 1 .. Len(q[m]) : Joined(q)[Where(q, m) + i] = q[m][i]
      /\ m = Len(q) => Where(q, m) + Len(q[m]) = Len(Joined(q))
      /\ m < Len(q) => /\ Where(q, m) + Len(q[m]) < Len(Joined(q))
                       /\ Joined(q)[Where(q, m) + Len(q[m]) + 1] = Dot
                       /\ Where(q, m + 1) = Where(q, m) + Len(q[m]) + 1
  BY <1>2, <1>3, Place
<1>7. /\ k \in Nat /\ Len(dotted) \in Nat /\ k + Len(D) <= Len(dotted)
      /\ \A i \in 1 .. Len(D) : dotted[k + i] = D[i]
      /\ m = Len(s) => k + Len(D) = Len(dotted)
      /\ m < Len(s) => /\ dotted[k + Len(D) + 1] = Dot /\ Where(q, m + 1) = k + Len(D) + 1
  BY <1>1, <1>3, <1>4, <1>5, <1>6
<1>8. ASSUME m < Len(s) PROVE k + Len(D) + 1 < Len(dotted)
  <2>1. m + 1 \in 1 .. Len(q) /\ m + 1 \in 1 .. Len(s)
    BY <1>1, <1>2, <1>3, <1>8
  <2>2. Where(q, m + 1) + Len(q[m + 1]) <= Len(dotted)
    BY <1>1, <1>3, <2>1, Place
  <2>3. Len(q[m + 1]) >= 1 /\ Len(q[m + 1]) \in Nat
    BY <1>1, <2>1, TextsOf DEF q
  <2> QED BY <1>4, <1>7, <1>8, <2>2, <2>3
<1> QED BY <1>2, <1>4, <1>7, <1>8 DEF m, q, D

(* The text of the component so far, character by character. *)
LEMMA ReadIs ==
  ASSUME KeyTypes, start \in 0 .. pos
  PROVE  /\ Len(Read) = pos - start /\ pos \in Nat /\ start \in Nat /\ start <= pos
         /\ pos <= Len(dotted) /\ Len(dotted) \in Nat
         /\ \A i \in 1 .. (pos - start) : Read[i] = dotted[start + i]
         /\ Read = [i \in 1 .. (pos - start) |-> dotted[start + i]]
<1>1. /\ pos \in Nat /\ start \in Nat /\ start <= pos /\ pos <= Len(dotted) /\ Len(dotted) \in Nat
      /\ dotted \in Seq(Chars)
  BY DEF KeyTypes, Text
<1>2. Read = [i \in 1 .. (pos - start) |-> dotted[start + i]]
  <2>1. Read = SubSeq(dotted, start + 1, pos)
    BY DEF Read
  <2> QED BY <1>1, <2>1
<1>3. Len(Read) = pos - start
  BY <1>1, <1>2
<1> QED BY <1>1, <1>2, <1>3

(* While a row's key is parsed: no digit is read beyond its next           *)
(* sub-identifier, a further digit cannot exceed the bound, and where the  *)
(* digits end the sub-identifier has been read.                            *)
LEMMA Reading ==
  ASSUME KeyTypes, InvDigits, NEW s, Row(s)
  PROVE  /\ pos < Len(dotted) /\ Char \in Digits => value * Radix + Char <= MaxSubid
         /\ (pos < Len(dotted) => Char \notin Digits) =>
              /\ ~BadComponent /\ s[Len(inst) + 1] = value
              /\ pos = Len(dotted) => Len(s) = Len(inst) + 1
              /\ pos < Len(dotted) => /\ Char = Dot /\ Len(inst) + 1 < Len(s)
                                      /\ Where(Texts(s), Len(inst) + 2) = pos + 1
                                      /\ pos + 1 < Len(dotted)
<1> DEFINE m == Len(inst) + 1
           D == Decimal[s[m]]
<1>1. GoesOn(s, start)
  BY DEF InvDigits
<1>2. /\ m \in 1 .. Len(s) /\ s[m] \in 0 .. MaxSubid /\ D \in Seq(Digits) /\ Len(D) \in Nat
      /\ Len(D) >= 1 /\ start \in Nat /\ start + Len(D) <= Len(dotted)
      /\ \A i \in 1 .. Len(D) : dotted[start + i] = D[i]
      /\ m = Len(s) => start + Len(D) = Len(dotted)
      /\ m < Len(s) => /\ start + Len(D) + 1 < Len(dotted) /\ dotted[start + Len(D) + 1] = Dot
                       /\ Where(Texts(s), m + 1) = start + Len(D) + 1
  BY <1>1, Ahead
<1>3. /\ Len(Read) = pos - start /\ pos \in Nat /\ start <= pos /\ pos <= Len(dotted)
      /\ Len(dotted) \in Nat /\ \A i \in 1 .. (pos - start) : Read[i] = dotted[start + i]
  BY ReadIs DEF InvDigits
<1>4. Read \in Seq(Digits) /\ value = u32_from(Read)
  BY DEF InvDigits
<1>5. m = Len(s) \/ m < Len(s)
  <2>1. Len(s) \in Nat
    BY RowIs
  <2> QED BY <1>2, <2>1
<1>6. Len(D) > 1 => D[1] # 0
  BY <1>2, DecimalDigits
<1>7. u32_from(D) = s[m] /\ MaxSubid \in Nat
  BY <1>2, DecimalDigits, KeyNumbers
<1>8. m + 1 = Len(inst) + 2 /\ Len(inst) \in Nat
  BY DEF KeyTypes
<1> HIDE DEF m, D
<1>nums. /\ pos \in Nat /\ start \in Nat /\ Len(D) \in Nat /\ Len(dotted) \in Nat
         /\ start <= pos /\ pos <= Len(dotted) /\ start + Len(D) <= Len(dotted)
  BY <1>2, <1>3
<1>9. pos - start <= Len(D)
  <2> SUFFICES ASSUME pos - start > Len(D) PROVE FALSE
    BY <1>nums
  <2>1. m < Len(s)
    <3>1. start + Len(D) # Len(dotted)
      BY <1>nums
    <3> QED BY <1>2, <1>5, <3>1
  <2>2. Len(D) + 1 \in 1 .. (pos - start) /\ start + (Len(D) + 1) = start + Len(D) + 1
    BY <1>nums
  <2>3. Read[Len(D) + 1] = Dot
    BY <1>2, <1>3, <2>1, <2>2
  <2>4. Read[Len(D) + 1] \in Digits
    BY <1>3, <1>4, <2>2
  <2> QED BY <2>3, <2>4, KeyNumbers
<1>10. \A i \in 1 .. (pos - start) : Read[i] = D[i]
  <2> SUFFICES ASSUME NEW i \in 1 .. (pos - start) PROVE Read[i] = D[i]
    OBVIOUS
  <2>1. Read[i] = dotted[start + i]
    BY <1>3
  <2>2. i \in 1 .. Len(D)
    BY <1>nums, <1>9
  <2>3. dotted[start + i] = D[i]
    BY <1>2, <2>2
  <2> QED BY <2>1, <2>3
<1>11. ASSUME pos < Len(dotted), Char \in Digits PROVE value * Radix + Char <= MaxSubid
  <2> DEFINE n == (pos - start) + 1
             R == Append(Read, Char)
  <2>1. pos - start < Len(D)
    <3> SUFFICES ASSUME pos - start = Len(D) PROVE FALSE
      BY <1>nums, <1>9
    <3>0. pos = start + Len(D) /\ start + Len(D) # Len(dotted)
      BY <1>nums, <1>11
    <3>1. pos = start + Len(D) /\ m < Len(s)
      BY <1>2, <1>5, <3>0
    <3>2. Char = Dot
      BY <1>2, <3>1 DEF Char
    <3> QED BY <1>11, <3>2, KeyNumbers
  <2>2. n \in 1 .. Len(D) /\ start + n = pos + 1 /\ n \in Nat /\ n <= Len(D)
    BY <1>nums, <2>1
  <2>3. Char = D[n]
    <3>1. dotted[start + n] = D[n]
      BY <1>2, <2>2
    <3> QED BY <2>2, <3>1 DEF Char
  <2>4. R \in Seq(Digits) /\ Len(R) = n /\ R[n] = Char /\ \A i \in 1 .. (pos - start) : R[i] = Read[i]
    BY <1>3, <1>4, <1>11
  <2>5. u32_from(R) = value * Radix + Char
    BY <1>4, <1>11, ValueAppend
  <2> HIDE DEF R
  <2>6. \A i \in 1 .. n : R[i] = D[i]
    BY <1>3, <1>10, <2>3, <2>4
  <2> HIDE DEF n
  <2>7. n <= Len(R)
    BY <2>2, <2>4
  <2>8. ValueUpTo(R)[n] = ValueUpTo(D)[n]
    BY <1>2, <2>2, <2>4, <2>6, <2>7, ValueLocal
  <2>9. ValueUpTo(D)[n] <= u32_from(D)
    <3>1. n \in 0 .. Len(D)
      BY <1>2, <2>2
    <3> QED BY <1>2, <3>1, ValueGrows
  <2>10. u32_from(R) = ValueUpTo(R)[n]
    BY <2>4, ValueEquation
  <2>11. u32_from(R) <= s[m]
    BY <1>7, <2>8, <2>9, <2>10
  <2>12. u32_from(R) \in Nat
    <3>1. n \in 0 .. Len(R)
      BY <2>2, <2>4
    <3> QED BY <2>4, <2>10, <3>1, ValueEquation
  <2> QED BY <1>2, <1>7, <2>5, <2>11, <2>12
<1>12. ASSUME pos < Len(dotted) => Char \notin Digits
       PROVE  /\ ~BadComponent /\ s[m] = value
              /\ pos = Len(dotted) => Len(s) = m
              /\ pos < Len(dotted) => /\ Char = Dot /\ m < Len(s)
                                      /\ Where(Texts(s), m + 1) = pos + 1
                                      /\ pos + 1 < Len(dotted)
  <2>1. pos - start = Len(D)
    <3>0. Len(D) \in Nat /\ pos - start \in Int /\ pos - start <= Len(D)
      BY <1>nums, <1>9
    <3> SUFFICES ASSUME pos - start < Len(D) PROVE FALSE
      BY <3>0
    <3> DEFINE n == (pos - start) + 1
    <3>1. n \in 1 .. Len(D) /\ start + n = pos + 1 /\ pos < Len(dotted)
      BY <1>nums
    <3>2. Char = D[n]
      <4>1. dotted[start + n] = D[n]
        BY <1>2, <3>1
      <4> QED BY <3>1, <4>1 DEF Char
    <3>3. D[n] \in Digits
      BY <1>2, <3>1
    <3> QED BY <1>12, <3>1, <3>2, <3>3
  <2>2. Read = D
    <3>1. Read \in Seq(Digits) /\ D \in Seq(Digits) /\ Len(Read) = Len(D)
      BY <1>2, <1>3, <1>4, <2>1
    <3>2. \A i \in 1 .. Len(Read) : Read[i] = D[i]
      BY <1>3, <1>10
    <3> QED BY <3>1, <3>2, SeqEqual
  <2>3. s[m] = value
    BY <1>4, <1>7, <2>2
  <2>4. pos = start + Len(D) /\ pos # start
    <3>1. Len(D) >= 1
      BY <1>2
    <3> QED BY <1>nums, <2>1, <3>1
  <2>5. ~BadComponent
    <3>1. 1 \in 1 .. Len(D)
      BY <1>2
    <3>2. dotted[start + 1] = D[1]
      BY <1>2, <3>1
    <3> QED BY <1>6, <2>1, <2>4, <3>2 DEF BadComponent
  <2>6. pos = Len(dotted) => Len(s) = m
    BY <1>2, <1>5, <2>4
  <2>7. pos < Len(dotted) => /\ Char = Dot /\ m < Len(s)
                             /\ Where(Texts(s), m + 1) = pos + 1 /\ pos + 1 < Len(dotted)
    BY <1>2, <1>5, <2>4 DEF Char
  <2> QED BY <2>3, <2>5, <2>6, <2>7
<1> QED BY <1>8, <1>11, <1>12 DEF m

(* A component without fault is the decimal of its value: what has been    *)
(* parsed with it is what has been read.                                   *)
LEMMA Parsed ==
  ASSUME KeyTypes, InvDigits, ~BadComponent
  PROVE  table_instance_format(Append(inst, value)) = SubSeq(dotted, 1, pos)
<1>1. /\ Len(Read) = pos - start /\ pos \in Nat /\ start \in Nat /\ start <= pos /\ pos <= Len(dotted)
      /\ Len(dotted) \in Nat /\ \A i \in 1 .. (pos - start) : Read[i] = dotted[start + i]
  BY ReadIs DEF InvDigits
<1>2. Read \in Seq(Digits) /\ value = u32_from(Read) /\ value \in Subids
  BY DEF InvDigits
<1>3. pos # start /\ (pos - start > 1 => dotted[start + 1] # 0)
  BY DEF BadComponent
<1>4. Read # <<>> /\ (Len(Read) > 1 => Read[1] # 0)
  <2>1. Len(Read) # 0
    BY <1>1, <1>3
  <2>2. 1 \in 1 .. (pos - start)
    BY <1>1, <1>3
  <2> QED BY <1>1, <1>3, <2>1, <2>2
<1>5. u32_from(Read) <= MaxSubid
  BY <1>2, KeyNumbers DEF Subids
<1>6. Decimal[value] = Read
  BY <1>2, <1>4, <1>5, Canonical
<1>7. table_instance_format(Append(inst, value)) = Lead(inst) \o Decimal[value]
  BY <1>2, TextsAppend DEF KeyTypes, Lead
<1>8. Lead(inst) = SubSeq(dotted, 1, start) /\ Read = SubSeq(dotted, start + 1, pos)
  BY DEF InvDigits, Read
<1>9. SubSeq(dotted, 1, start) \o SubSeq(dotted, start + 1, pos) = SubSeq(dotted, 1, pos)
  <2>1. dotted \in Seq(Chars)
    BY DEF KeyTypes, Text
  <2> DEFINE a == SubSeq(dotted, 1, start)
             b == SubSeq(dotted, start + 1, pos)
             c == SubSeq(dotted, 1, pos)
  <2>2. a \in Text /\ Len(a) = start /\ \A i \in 1 .. start : a[i] = dotted[i]
    BY <1>1, <2>1 DEF Text
  <2>3. b \in Text /\ Len(b) = pos - start /\ \A i \in 1 .. (pos - start) : b[i] = dotted[start + i]
    BY <1>1, <2>1 DEF Text
  <2>4. c \in Text /\ Len(c) = pos /\ \A i \in 1 .. pos : c[i] = dotted[i]
    BY <1>1, <2>1 DEF Text
  <2> HIDE DEF a, b, c
  <2>5. /\ a \o b \in Text /\ Len(a \o b) = Len(a) + Len(b)
        /\ \A i \in 1 .. Len(a) : (a \o b)[i] = a[i]
        /\ \A i \in 1 .. Len(b) : (a \o b)[Len(a) + i] = b[i]
    BY <2>2, <2>3, Concat
  <2>6. Len(a \o b) = pos
    BY <1>1, <2>2, <2>3, <2>5
  <2>7. ASSUME NEW i \in 1 .. pos PROVE (a \o b)[i] = c[i]
    <3>0. i <= start \/ i > start
      BY <1>1
    <3>1. CASE i <= start
      <4>1. i \in 1 .. start
        BY <1>1, <3>1
      <4> QED BY <2>2, <2>4, <2>5, <4>1
    <3>2. CASE i > start
      <4> DEFINE j == i - start
      <4>1. j \in 1 .. (pos - start) /\ start + j = i
        BY <1>1, <3>2
      <4> HIDE DEF j
      <4>2. (a \o b)[start + j] = b[j] /\ b[j] = dotted[start + j]
        BY <2>2, <2>3, <2>5, <4>1
      <4> QED BY <2>4, <4>1, <4>2
    <3> QED BY <3>0, <3>1, <3>2
  <2>8. a \o b = c
    <3>1. a \o b \in Seq(Chars) /\ c \in Seq(Chars) /\ Len(c) = pos
      BY <2>4, <2>5 DEF Text
    <3> DEFINE e == a \o b
    <3>2. e \in Seq(Chars) /\ Len(e) = Len(c) /\ \A i \in 1 .. Len(e) : e[i] = c[i]
      BY <2>6, <2>7, <3>1
    <3> HIDE DEF e
    <3>3. e = c
      BY <3>1, <3>2, SeqEqual
    <3> QED BY <3>3 DEF e
  <2> QED BY <2>8 DEF a, b, c
<1> QED BY <1>6, <1>7, <1>8, <1>9

LEMMA EmptyFormat == table_instance_format(<<>>) = <<>> /\ Lead(<<>>) = <<>> /\ u32_from(<<>>) = 0
<1>1. <<>> \in Seq(Subids) /\ Len(<<>>) = 0 /\ <<>> \in Seq(Text) /\ <<>> \in Seq(Digits)
  OBVIOUS
<1>2. Texts(<<>>) = <<>>
  <2>1. Texts(<<>>) \in Seq(Text) /\ Len(Texts(<<>>)) = 0
    BY <1>1, TextsOf
  <2> QED BY <2>1
<1>3. Joined(<<>>) = <<>>
  BY <1>1, JoinedEquation
<1>4. table_instance_format(<<>>) = <<>>
  BY <1>1, <1>2, <1>3, TextsOf
<1>5. Sep(0 + 1) = <<>>
  BY DEF Sep
<1>6. Lead(<<>>) = <<>>
  BY <1>1, <1>4, <1>5 DEF Lead
<1> QED BY <1>1, <1>4, <1>6, ValueEquation

LEMMA KeyInvariant == KeySpec => []KeyInv
<1>1. KeyInit => KeyInv
  <2> SUFFICES ASSUME KeyInit PROVE KeyInv
    OBVIOUS
  <2>1. PICK n \in 0 .. MaxLen : dotted \in [1 .. n -> Chars]
    BY DEF KeyInit, SeqOf
  <2>2. MaxLen \in Nat /\ n \in Nat
    BY CellKeyAssumption
  <2>3. dotted \in Seq(Chars) /\ Len(dotted) = n
    BY <2>1, <2>2
  <2>4. KeyTypes
    BY <2>2, <2>3, KeyNumbers DEF KeyInit, KeyTypes, Text
  <2>5. SubSeq(dotted, 1, 0) = <<>> /\ pos = 0 /\ inst = <<>> /\ at = "component"
    BY <2>3 DEF KeyInit
  <2>6. ASSUME NEW s, Row(s) PROVE GoesOn(s, pos)
    <3>1. s \in Seq(Subids) /\ Len(s) \in Nat /\ Len(s) >= 1
      BY <2>6, RowIs
    <3>2. Texts(s) \in Seq(Text) /\ Len(Texts(s)) = Len(s)
      BY <3>1, TextsOf
    <3>3. 1 \in 1 .. Len(Texts(s))
      BY <3>1, <3>2
    <3>4. Where(Texts(s), 1) = 0
      BY <3>2, <3>3, Place
    <3>5. Len(inst) = 0 /\ 0 + 1 = 1
      BY <2>5
    <3> QED BY <2>5, <3>1, <3>4, <3>5 DEF GoesOn
  <2> QED BY <2>4, <2>5, <2>6, EmptyFormat DEF KeyInv, InvComponent
<1>2. KeyInv /\ [KeyNext]_keyVars => KeyInv'
  <2> SUFFICES ASSUME KeyInv, [KeyNext]_keyVars PROVE KeyInv'
    OBVIOUS
  <2>0. KeyTypes
    BY DEF KeyInv
  <2>t. /\ dotted \in Seq(Chars) /\ Len(dotted) \in Nat /\ pos \in Nat /\ pos <= Len(dotted)
        /\ inst \in Seq(Subids) /\ Len(inst) \in Nat
    BY <2>0 DEF KeyTypes, Text
  <2>1. CASE Component
    <3>1. /\ at = "component" /\ InvComponent /\ dotted' = dotted /\ pos' = pos /\ inst' = inst
      BY <2>1 DEF Component, KeyInv
    <3>2. CASE dotted = <<>> \/ Len(inst) = TABLE_ROW_SUBID_MAX
      <4>1. at' = "end" /\ rc' = "INVAL"
        BY <2>1, <3>2 DEF Component, Return
      <4>2. ASSUME NEW s, Row(s) PROVE FALSE
        <5>1. GoesOn(s, pos)
          BY <3>1, <4>2 DEF InvComponent
        <5>2. Len(inst) < Len(s) /\ Len(s) \in Nat /\ Len(s) <= TABLE_ROW_SUBID_MAX
          BY <4>2, <5>1, RowIs DEF GoesOn
        <5>3. Len(inst) # TABLE_ROW_SUBID_MAX
          BY <2>t, <5>2, KeyNumbers
        <5> DEFINE k == Len(Decimal[s[Len(inst) + 1]])
        <5>4. k \in Nat /\ k >= 1 /\ pos + k <= Len(dotted)
          BY <2>0, <4>2, <5>1, Ahead
        <5>5. Len(dotted) # 0
          BY <2>t, <5>4
        <5> QED BY <3>2, <5>3, <5>5
      <4>3. \A s : ~Row(s)'
        BY <3>1, <4>2 DEF Row
      <4>4. KeyTypes'
        BY <2>0, <3>1, <4>1 DEF KeyTypes
      <4> QED BY <4>1, <4>3, <4>4 DEF KeyInv, InvEnd
    <3>3. CASE ~(dotted = <<>> \/ Len(inst) = TABLE_ROW_SUBID_MAX)
      <4>1. at' = "digits" /\ start' = pos /\ value' = 0
        BY <2>1, <3>3 DEF Component
      <4>2. Read' = <<>>
        <5>1. SubSeq(dotted, pos + 1, pos) = <<>>
          BY <2>t
        <5> QED BY <3>1, <4>1, <5>1 DEF Read
      <4>3. Read' \in Seq(Digits) /\ value' = u32_from(Read') /\ value' \in Subids
        BY <4>1, <4>2, EmptyFormat, KeyNumbers DEF Subids
      <4>4. Len(inst') < TABLE_ROW_SUBID_MAX /\ start' \in 0 .. pos'
        BY <2>0, <2>t, <3>1, <3>3, <4>1, KeyNumbers DEF KeyTypes
      <4>5. SubSeq(dotted', 1, start') = Lead(inst)' /\ \A s : Row(s)' => GoesOn(s, start)'
        <5>1. Lead(inst)' = Lead(inst)
          BY <3>1 DEF Lead
        <5>2. \A s : Row(s)' => Row(s)
          BY <3>1 DEF Row
        <5>3. \A s : GoesOn(s, pos) => GoesOn(s, start)'
          BY <3>1, <4>1 DEF GoesOn
        <5> QED BY <3>1, <4>1, <5>1, <5>2, <5>3 DEF InvComponent
      <4>6. KeyTypes'
        BY <2>0, <3>1, <4>1 DEF KeyTypes
      <4>7. InvDigits'
        BY <4>3, <4>4, <4>5 DEF InvDigits
      <4> QED BY <4>1, <4>6, <4>7 DEF KeyInv
    <3> QED BY <3>2, <3>3
  <2>2. CASE Digit
    <3>1. /\ at = "digits" /\ InvDigits /\ dotted' = dotted /\ start' = start /\ inst' = inst
          /\ pos < Len(dotted) /\ Char \in Digits /\ value' = value * Radix + Char
      BY <2>2 DEF Digit, KeyInv
    <3>2. CASE value' > MaxSubid
      <4>1. at' = "end" /\ rc' = "INVAL" /\ pos' = pos
        BY <2>2, <3>2 DEF Digit, Return
      <4>2. ASSUME NEW s, Row(s) PROVE FALSE
        <5>1. value * Radix + Char <= MaxSubid
          BY <2>0, <3>1, <4>2, Reading
        <5>2. value * Radix + Char \in Nat
          <6>1. value \in Nat /\ Radix \in Nat /\ Char \in Nat
            BY <3>1, KeyNumbers DEF InvDigits, Subids
          <6> QED BY <6>1
        <5> QED BY <3>1, <3>2, <5>1, <5>2, KeyNumbers
      <4>3. \A s : ~Row(s)'
        BY <3>1, <4>2 DEF Row
      <4>4. KeyTypes'
        BY <2>0, <3>1, <4>1 DEF KeyTypes
      <4> QED BY <4>1, <4>3, <4>4 DEF KeyInv, InvEnd
    <3>3. CASE ~(value' > MaxSubid)
      <4>1. at' = "digits" /\ pos' = pos + 1
        BY <2>2, <3>1, <3>3 DEF Digit
      <4>2. start \in Nat /\ start <= pos /\ Read \in Seq(Digits) /\ value = u32_from(Read)
        BY <2>t, <3>1 DEF InvDigits
      <4>3. Read' = Append(Read, Char)
        <5>1. SubSeq(dotted, start + 1, pos + 1) = Append(SubSeq(dotted, start + 1, pos), dotted[pos + 1])
          BY <2>t, <3>1, <4>2
        <5> QED BY <3>1, <4>1, <5>1 DEF Read, Char
      <4>4. Read' \in Seq(Digits) /\ value' = u32_from(Read')
        <5>1. Append(Read, Char) \in Seq(Digits)
          BY <3>1, <4>2
        <5>2. u32_from(Append(Read, Char)) = u32_from(Read) * Radix + Char
          BY <3>1, <4>2, ValueAppend
        <5> QED BY <3>1, <4>2, <4>3, <5>1, <5>2
      <4>5. value' \in Subids
        <5>1. value \in Nat /\ Radix \in Nat /\ Char \in Nat /\ MaxSubid \in Nat
          BY <3>1, KeyNumbers DEF InvDigits, Subids
        <5>2. value * Radix + Char \in Nat
          BY <5>1
        <5> QED BY <3>1, <3>3, <5>1, <5>2 DEF Subids
      <4>6. SubSeq(dotted', 1, start') = Lead(inst)' /\ \A s : Row(s)' => GoesOn(s, start)'
        <5>1. Lead(inst)' = Lead(inst)
          BY <3>1 DEF Lead
        <5>2. \A s : Row(s)' => Row(s)
          BY <3>1 DEF Row
        <5>3. \A s : GoesOn(s, start) => GoesOn(s, start)'
          BY <3>1 DEF GoesOn
        <5> QED BY <3>1, <5>1, <5>2, <5>3 DEF InvDigits
      <4>7. Len(inst') < TABLE_ROW_SUBID_MAX /\ start' \in 0 .. pos'
        BY <2>t, <3>1, <4>1, <4>2 DEF InvDigits
      <4>8. KeyTypes'
        <5>1. pos + 1 \in 0 .. Len(dotted)
          BY <2>t, <3>1
        <5> QED BY <2>0, <3>1, <4>1, <5>1 DEF KeyTypes
      <4>9. InvDigits'
        BY <4>4, <4>5, <4>6, <4>7 DEF InvDigits
      <4> QED BY <4>1, <4>8, <4>9 DEF KeyInv
    <3> QED BY <3>2, <3>3
  <2>3. CASE EndOfDigits
    <3>1. /\ at = "digits" /\ InvDigits /\ dotted' = dotted
          /\ pos < Len(dotted) => Char \notin Digits
      BY <2>3 DEF EndOfDigits, KeyInv
    <3>2. CASE BadComponent
      <4>1. at' = "end" /\ rc' = "INVAL" /\ pos' = pos /\ inst' = inst
        BY <2>3, <3>2 DEF EndOfDigits, Return
      <4>2. \A s : ~Row(s)'
        <5>1. \A s : ~Row(s)
          BY <2>0, <3>1, <3>2, Reading
        <5> QED BY <3>1, <5>1 DEF Row
      <4>3. KeyTypes'
        BY <2>0, <3>1, <4>1 DEF KeyTypes
      <4> QED BY <4>1, <4>2, <4>3 DEF KeyInv, InvEnd
    <3>3. CASE ~BadComponent
      <4> DEFINE new == Append(inst, value)
      <4>1. inst' = new
        BY <2>3, <3>3 DEF EndOfDigits
      <4>2. table_instance_format(new) = SubSeq(dotted, 1, pos)
        BY <2>0, <3>1, <3>3, Parsed
      <4>3. /\ new \in Seq(Subids) /\ Len(new) = Len(inst) + 1 /\ new # <<>>
            /\ \A i \in 1 .. Len(inst) : new[i] = inst[i]
            /\ new[Len(inst) + 1] = value
        BY <2>t, <3>1 DEF InvDigits
      <4> HIDE DEF new
      <4>4. Len(new) <= TABLE_ROW_SUBID_MAX
        BY <2>t, <3>1, <4>3, KeyNumbers DEF InvDigits
      <4>5. CASE pos = Len(dotted) /\ Return("OK") /\ pos' = pos
        <5>1. at' = "end" /\ rc' = "OK" /\ pos' = pos
          BY <4>5 DEF Return
        <5>2. SubSeq(dotted, 1, Len(dotted)) = dotted
          BY <2>t
        <5>3. table_instance_format(inst)' = dotted'
          BY <3>1, <4>1, <4>2, <4>5, <5>2
        <5>4. KeyTypes'
          BY <2>0, <3>1, <4>1, <4>3, <4>4, <5>1 DEF KeyTypes
        <5> QED BY <4>1, <4>3, <5>1, <5>3, <5>4 DEF KeyInv, InvEnd
      <4>6. CASE pos < Len(dotted) /\ Char # Dot /\ Return("INVAL") /\ pos' = pos
        <5>1. at' = "end" /\ rc' = "INVAL" /\ pos' = pos
          BY <4>6 DEF Return
        <5>2. \A s : ~Row(s)'
          <6>1. \A s : ~Row(s)
            BY <2>0, <3>1, <4>6, Reading
          <6> QED BY <3>1, <6>1 DEF Row
        <5>3. KeyTypes'
          BY <2>0, <3>1, <4>1, <4>3, <4>4, <5>1 DEF KeyTypes
        <5> QED BY <5>1, <5>2, <5>3 DEF KeyInv, InvEnd
      <4>7. CASE /\ pos < Len(dotted) /\ Char = Dot /\ pos' = pos + 1
                 /\ IF pos' = Len(dotted) THEN Return("INVAL") ELSE at' = "component" /\ UNCHANGED rc
        <5>0. pos + 1 \in 0 .. Len(dotted)
          BY <2>t, <4>7
        <5>1. CASE pos + 1 = Len(dotted)
          <6>1. at' = "end" /\ rc' = "INVAL"
            BY <4>7, <5>1 DEF Return
          <6>2. \A s : ~Row(s)'
            <7>1. ASSUME NEW s, Row(s) PROVE FALSE
              <8>1. pos + 1 < Len(dotted)
                BY <2>0, <3>1, <4>7, <7>1, Reading
              <8> QED BY <2>t, <5>1, <8>1
            <7> QED BY <3>1, <7>1 DEF Row
          <6>3. KeyTypes'
            BY <2>0, <3>1, <4>1, <4>3, <4>4, <4>7, <5>0, <6>1 DEF KeyTypes
          <6> QED BY <6>1, <6>2, <6>3 DEF KeyInv, InvEnd
        <5>2. CASE pos + 1 # Len(dotted)
          <6>1. at' = "component"
            BY <4>7, <5>2
          <6>2. SubSeq(dotted, 1, pos + 1) = SubSeq(dotted, 1, pos) \o <<Dot>>
            <7>1. dotted[pos + 1] = Dot
              BY <4>7 DEF Char
            <7> QED BY <2>t, <4>7, <7>1
          <6>3. Lead(new) = table_instance_format(new) \o <<Dot>>
            <7>1. Sep(Len(new) + 1) = <<Dot>>
              BY <2>t, <4>3 DEF Sep
            <7> QED BY <7>1 DEF Lead
          <6>4. SubSeq(dotted', 1, pos') = Lead(inst)'
            BY <3>1, <4>1, <4>2, <4>7, <6>2, <6>3 DEF Lead
          <6>5. ASSUME NEW s, Row(s) PROVE GoesOn(s, pos)'
            <7>1. /\ s[Len(inst) + 1] = value /\ Len(inst) + 1 < Len(s)
                  /\ Where(Texts(s), Len(inst) + 2) = pos + 1
              BY <2>0, <3>1, <4>7, <6>5, Reading
            <7>2. \A i \in 1 .. Len(inst) : s[i] = inst[i]
              BY <3>1, <6>5 DEF InvDigits, GoesOn
            <7>3. Len(new) < Len(s)
              BY <4>3, <7>1
            <7>4. \A i \in 1 .. Len(new) : s[i] = new[i]
              BY <2>t, <4>3, <7>1, <7>2
            <7>5. Len(new) + 1 = Len(inst) + 2
              BY <2>t, <4>3
            <7> QED BY <4>1, <4>7, <7>1, <7>3, <7>4, <7>5 DEF GoesOn
          <6>6. InvComponent'
            <7>1. \A s : Row(s)' => Row(s)
              BY <3>1 DEF Row
            <7> QED BY <6>4, <6>5, <7>1 DEF InvComponent
          <6>7. KeyTypes'
            BY <2>0, <3>1, <4>1, <4>3, <4>4, <4>7, <5>0, <6>1 DEF KeyTypes
          <6> QED BY <6>1, <6>6, <6>7 DEF KeyInv
        <5> QED BY <5>1, <5>2
      <4> QED BY <2>3, <3>3, <4>5, <4>6, <4>7 DEF EndOfDigits
    <3> QED BY <3>2, <3>3
  <2>4. CASE UNCHANGED keyVars
    BY <2>4 DEF keyVars, KeyInv, KeyTypes, InvComponent, InvDigits, InvEnd, Row, GoesOn, Read, Lead
  <2> QED BY <2>1, <2>2, <2>3, <2>4 DEF KeyNext
<1> QED BY <1>1, <1>2, PTL DEF KeySpec

(* The C parser accepts the strings table_instance_format writes and no    *)
(* others, for sub-identifiers, instances and strings of any length: an    *)
(* accepted key is spelt in the one way its row is spelt, and no row's key *)
(* is refused.                                                             *)
THEOREM ParseExactHolds == KeySpec => []ParseExact
<1>1. KeyInv => ParseExact
  <2> SUFFICES ASSUME KeyInv, Done PROVE /\ rc = "OK" => table_instance_format(inst) = dotted
                                         /\ rc = "INVAL" => \A s : ~Row(s)
    BY DEF ParseExact, Row, Subids
  <2>1. at = "end"
    BY DEF Done
  <2> QED BY <2>1 DEF KeyInv, InvEnd
<1> QED BY <1>1, KeyInvariant, PTL

(* Every sub-identifier takes a digit at least and a dot before the next.  *)
LEMMA JoinedLength ==
  ASSUME NEW q \in Seq(Text), q # <<>>, \A i \in 1 .. Len(q) : Len(q[i]) >= 1
  PROVE  Len(Joined(q)) >= 2 * Len(q) - 1 /\ Len(Joined(q)) \in Nat
<1> DEFINE n == Len(q) - 1
           P == {i \in 0 .. n : Where(q, i + 1) >= 2 * i}
<1>0. n \in Nat /\ Len(q) = n + 1 /\ \A i \in 0 .. n : i + 1 \in 1 .. Len(q)
  OBVIOUS
<1>1. 0 \in P
  <2>1. 1 \in 1 .. Len(q) /\ 0 + 1 = 1
    BY <1>0
  <2>2. Where(q, 1) = 0
    BY <2>1, Place
  <2> QED BY <1>0, <2>1, <2>2
<1>2. ASSUME NEW i \in 0 .. n, i < n, i \in P PROVE i + 1 \in P
  <2> DEFINE m == i + 1
  <2>1. m \in 1 .. Len(q) /\ m < Len(q) /\ m \in 0 .. n /\ m = i + 1
    BY <1>0, <1>2
  <2> HIDE DEF m
  <2>2. Where(q, m) \in Nat /\ Len(q[m]) \in Nat /\ Where(q, m + 1) = Where(q, m) + Len(q[m]) + 1
    BY <2>1, Place
  <2>3. Len(q[m]) >= 1 /\ Where(q, m) >= 2 * i
    BY <1>2, <2>1
  <2>4. Where(q, m + 1) >= 2 * m
    BY <2>1, <2>2, <2>3
  <2> QED BY <2>1, <2>4
<1>3. n \in P
  <2> HIDE DEF P, n
  <2>1. \A i \in 0 .. n : i \in P
    BY <1>0, <1>1, <1>2, Turns
  <2> QED BY <1>0, <2>1
<1>4. n + 1 \in 1 .. Len(q) /\ n + 1 = Len(q) /\ Where(q, n + 1) >= 2 * n
  BY <1>0, <1>3
<1> DEFINE m == n + 1
<1>5. /\ Where(q, m) \in Nat /\ Len(q[m]) \in Nat /\ Len(Joined(q)) \in Nat
      /\ Where(q, m) + Len(q[m]) <= Len(Joined(q))
  BY <1>4, Place
<1>6. Len(q[m]) >= 1
  BY <1>4
<1> HIDE DEF n, m
<1>7. m = n + 1 /\ Len(q) = n + 1 /\ Where(q, m) >= 2 * n
  BY <1>0, <1>4 DEF m
<1> QED BY <1>0, <1>5, <1>6, <1>7

(* On every string that fits a key, C's table_instance_parse and Rust's    *)
(* parse_instance say the same: the same rows found, the same keys         *)
(* skipped.                                                                *)
THEOREM ParsersAgreeHolds == KeySpec => []ParsersAgree
<1>1. KeyInv => ParsersAgree
  <2> SUFFICES ASSUME KeyInv, Done, Len(dotted) + 2 <= STORAGE_KEY_MAX
               PROVE  parse_instance(dotted) =
                        [ok |-> rc = "OK", inst |-> IF rc = "OK" THEN inst ELSE <<>>]
    BY DEF ParsersAgree
  <2> DEFINE q == split(dotted)
             out == [i \in DOMAIN q |-> u32_from(q[i])]
  <2>1. KeyTypes /\ InvEnd
    BY DEF KeyInv, Done
  <2>2. dotted \in Text /\ Len(dotted) \in Nat
    BY <2>1 DEF KeyTypes, Text
  <2>3. q \in Seq(Plain) /\ q # <<>> /\ Joined(q) = dotted
    BY <2>2, SplitJoined
  <2>4. q \in Seq(Text) /\ DOMAIN q = 1 .. Len(q) /\ Len(q) \in Nat
    BY <2>3 DEF Plain
  <2>5. parse_instance(dotted) =
          IF dotted # <<>> /\ \A i \in DOMAIN q : PartOk(q[i])
            THEN [ok |-> TRUE, inst |-> out] ELSE [ok |-> FALSE, inst |-> <<>>]
    BY DEF parse_instance
  <2> HIDE DEF q
  <2>6. CASE rc = "OK"
    <3>1. inst \in Seq(Subids) /\ inst # <<>> /\ table_instance_format(inst) = dotted
      BY <2>1, <2>6 DEF KeyTypes, InvEnd
    <3>2. /\ Texts(inst) \in Seq(Plain) /\ Len(Texts(inst)) = Len(inst) /\ Joined(Texts(inst)) = dotted
          /\ \A i \in 1 .. Len(inst) : Texts(inst)[i] = Decimal[inst[i]] /\ inst[i] \in 0 .. MaxSubid
      BY <3>1, TextsOf
    <3>3. Texts(inst) # <<>>
      BY <3>1, <3>2
    <3>4. q = Texts(inst)
      BY <2>3, <3>2, <3>3, JoinedUnique
    <3>5. ASSUME NEW i \in 1 .. Len(inst) PROVE PartOk(q[i]) /\ u32_from(q[i]) = inst[i]
      <4> DEFINE D == Decimal[inst[i]]
      <4>1. q[i] = D /\ inst[i] \in 0 .. MaxSubid
        BY <3>2, <3>4
      <4>2. /\ D \in Seq(Digits) /\ Len(D) >= 1 /\ (Len(D) > 1 => D[1] # 0) /\ u32_from(D) = inst[i]
        BY <4>1, DecimalDigits
      <4> HIDE DEF D
      <4>3. D # <<>> /\ \A j \in DOMAIN D : D[j] \in Digits
        BY <4>2
      <4>4. u32_from(D) <= MaxSubid
        BY <4>1, <4>2, KeyNumbers
      <4> QED BY <4>1, <4>2, <4>3, <4>4 DEF PartOk
    <3>6. dotted # <<>>
      <4>1. \A i \in 1 .. Len(q) : Len(q[i]) >= 1
        BY <3>1, <3>2, <3>4, TextsOf
      <4>2. Len(dotted) >= 2 * Len(q) - 1
        BY <2>3, <2>4, <4>1, JoinedLength
      <4>3. Len(q) # 0
        BY <2>3, <2>4
      <4>4. Len(dotted) # 0
        BY <2>2, <2>4, <4>2, <4>3
      <4> QED BY <4>4
    <3>7. DOMAIN q = 1 .. Len(inst)
      BY <2>4, <3>2, <3>4
    <3>8. out = inst
      <4>1. inst = [i \in 1 .. Len(inst) |-> inst[i]]
        BY <3>1
      <4> QED BY <3>5, <3>7, <4>1
    <3> HIDE DEF out
    <3> QED BY <2>5, <2>6, <3>5, <3>6, <3>7, <3>8
  <2>7. CASE rc # "OK"
    <3>1. \A s : ~Row(s)
      BY <2>1, <2>7 DEF InvEnd
    <3>2. ~(\A i \in DOMAIN q : PartOk(q[i]))
      <4> SUFFICES ASSUME \A i \in DOMAIN q : PartOk(q[i]) PROVE FALSE
        OBVIOUS
      <4>1. ASSUME NEW i \in 1 .. Len(q)
            PROVE  /\ Len(q[i]) >= 1 /\ out[i] = u32_from(q[i]) /\ out[i] \in Subids
                   /\ Decimal[out[i]] = q[i]
        <5> DEFINE t == q[i]
        <5>1. PartOk(t) /\ t \in Text /\ out[i] = u32_from(t)
          BY <2>4
        <5> HIDE DEF t
        <5>2. /\ t # <<>> /\ (\A j \in DOMAIN t : t[j] \in Digits) /\ (Len(t) > 1 => t[1] # 0)
              /\ u32_from(t) <= MaxSubid
          BY <5>1 DEF PartOk
        <5>3. t \in Seq(Digits) /\ Len(t) \in Nat /\ Len(t) >= 1
          BY <5>1, <5>2 DEF Text
        <5>4. Decimal[u32_from(t)] = t
          BY <5>2, <5>3, Canonical
        <5>5. u32_from(t) \in Nat
          <6>1. Len(t) \in 0 .. Len(t)
            BY <5>3
          <6> QED BY <5>3, <6>1, ValueEquation
        <5>6. u32_from(t) \in Subids
          BY <5>2, <5>5, KeyNumbers DEF Subids
        <5> QED BY <5>1, <5>3, <5>4, <5>6 DEF t
      <4>2. DOMAIN out = 1 .. Len(q) /\ out = [i \in 1 .. Len(q) |-> out[i]]
        BY <2>4
      <4> HIDE DEF out
      <4>3. out \in [1 .. Len(q) -> Subids]
        BY <4>1, <4>2
      <4>4. out \in Seq(Subids) /\ Len(out) = Len(q) /\ out # <<>>
        BY <2>3, <2>4, <4>3
      <4>5. Texts(out) = q
        <5>1. Texts(out) = [i \in 1 .. Len(q) |-> Decimal[out[i]]]
          BY <4>2 DEF Texts
        <5>2. q = [i \in 1 .. Len(q) |-> q[i]]
          BY <2>4
        <5> QED BY <4>1, <5>1, <5>2
      <4>6. table_instance_format(out) = dotted
        BY <2>3, <4>4, <4>5, TextsOf
      <4>7. Len(q) <= TABLE_ROW_SUBID_MAX
        <5>1. Len(dotted) >= 2 * Len(q) - 1
          BY <2>3, <2>4, <4>1, JoinedLength
        <5>2. 2 * Len(q) <= STORAGE_KEY_MAX
          BY <2>2, <2>4, <5>1, KeyNumbers
        <5>3. Len(q) <= STORAGE_KEY_MAX \div 2
          BY <2>4, <5>2, KeyNumbers
        <5>4. STORAGE_KEY_MAX \div 2 \in Nat
          BY KeyNumbers
        <5> QED BY <2>4, <5>3, <5>4, KeyNumbers
      <4>8. out \in SeqOf(Subids, TABLE_ROW_SUBID_MAX)
        <5>1. Len(q) \in 0 .. TABLE_ROW_SUBID_MAX
          BY <2>4, <4>7, KeyNumbers
        <5> QED BY <4>3, <5>1 DEF SeqOf
      <4> QED BY <3>1, <4>4, <4>6, <4>8 DEF Row
    <3>3. parse_instance(dotted) = [ok |-> FALSE, inst |-> <<>>]
      BY <2>5, <3>2
    <3> QED BY <2>7, <3>3
  <2> QED BY <2>6, <2>7
<1> QED BY <1>1, KeyInvariant, PTL

(* The length of Rust's key with the first i sub-identifiers. *)
KeyLength(collen, s) ==
  LET keylen[i \in 0 .. Len(s)] ==
        IF i = 0 THEN collen ELSE keylen[i - 1] + 1 + Len(Decimal[s[i]])
  IN  keylen

(* It is that of the column, a dot and the instance as C writes it. *)
LEMMA KeyLengthIs ==
  ASSUME NEW collen \in Nat, NEW s \in Seq(Subids), s # <<>>
  PROVE  /\ KeyLength(collen, s)[Len(s)] = collen + 1 + Len(table_instance_format(s))
         /\ Len(table_instance_format(s)) \in Nat
<1> DEFINE n    == Len(s)
           q    == Texts(s)
           J    == JoinedUpTo(q)
           f    == [i \in 0 .. n |-> IF i = 0 THEN collen ELSE collen + 1 + Len(J[i])]
           Rec(v) == v = [i \in 0 .. n |-> IF i = 0 THEN collen ELSE v[i - 1] + 1 + Len(Decimal[s[i]])]
           c    == KeyLength(collen, s)
<1>0. n \in Nat /\ n >= 1
  OBVIOUS
<1>1. /\ q \in Seq(Text) /\ Len(q) = n /\ table_instance_format(s) = Joined(q)
      /\ \A i \in 1 .. n : q[i] = Decimal[s[i]] /\ Len(Decimal[s[i]]) \in Nat
  BY TextsOf
<1>2. /\ J[0] = <<>> /\ \A i \in 1 .. n : J[i] = (J[i - 1] \o Sep(i)) \o q[i]
      /\ \A i \in 0 .. n : J[i] \in Text
      /\ Joined(q) = J[n]
  BY <1>1, JoinedEquation
<1> HIDE DEF J, q, n
<1>3. \A i \in 0 .. n : Len(J[i]) \in Nat
  BY <1>2 DEF Text
<1>4. ASSUME NEW i \in 1 .. n PROVE Len(J[i]) = Len(J[i - 1]) + Len(Sep(i)) + Len(Decimal[s[i]])
  <2> DEFINE a == J[i - 1]
             b == Sep(i)
             t == q[i]
  <2>1. i - 1 \in 0 .. n
    BY <1>0
  <2>2. a \in Text /\ b \in Text /\ t \in Text
    BY <1>1, <1>2, <2>1, KeyNumbers DEF Text, Sep
  <2>3. J[i] = (a \o b) \o t
    BY <1>2
  <2> HIDE DEF a, b, t
  <2>4. a \o b \in Text /\ Len(a \o b) = Len(a) + Len(b)
    BY <2>2, Concat
  <2>5. Len((a \o b) \o t) = Len(a \o b) + Len(t)
    BY <2>2, <2>4, Concat
  <2> QED BY <1>1, <2>3, <2>4, <2>5 DEF a, b, t
<1>5. ASSUME NEW i \in 1 .. n PROVE f[i] = f[i - 1] + 1 + Len(Decimal[s[i]])
  <2>1. i - 1 \in 0 .. n /\ i \in 0 .. n /\ i # 0
    BY <1>0
  <2>2. Len(J[i]) \in Nat /\ Len(J[i - 1]) \in Nat /\ Len(Decimal[s[i]]) \in Nat
    BY <1>1, <1>3, <2>1
  <2>3. CASE i = 1
    <3>1. Len(Sep(i)) = 0 /\ Len(J[i - 1]) = 0 /\ i - 1 = 0
      BY <1>2, <2>3 DEF Sep
    <3>2. f[i] = collen + 1 + Len(J[i]) /\ f[i - 1] = collen
      BY <2>1, <3>1
    <3>3. Len(J[i]) = Len(J[i - 1]) + Len(Sep(i)) + Len(Decimal[s[i]])
      BY <1>4
    <3> HIDE DEF f
    <3> QED BY <2>2, <3>1, <3>2, <3>3
  <2>4. CASE i # 1
    <3>1. Len(Sep(i)) = 1 /\ i - 1 # 0
      BY <1>0, <2>4 DEF Sep
    <3>2. f[i] = collen + 1 + Len(J[i]) /\ f[i - 1] = collen + 1 + Len(J[i - 1])
      BY <2>1, <3>1
    <3>3. Len(J[i]) = Len(J[i - 1]) + Len(Sep(i)) + Len(Decimal[s[i]])
      BY <1>4
    <3> DEFINE x == Len(J[i])
               y == Len(J[i - 1])
               z == Len(Decimal[s[i]])
    <3>4. x = y + 1 + z /\ x \in Nat /\ y \in Nat /\ z \in Nat
      BY <2>2, <3>1, <3>3
    <3>5. f[i] = collen + 1 + x /\ f[i - 1] = collen + 1 + y
      BY <3>2
    <3> HIDE DEF f, x, y, z
    <3>6. f[i] = f[i - 1] + 1 + z
      BY <3>4, <3>5
    <3> QED BY <3>6 DEF z
  <2> HIDE DEF f
  <2> QED BY <2>3, <2>4
<1>6. f[0] = collen /\ f[n] = collen + 1 + Len(J[n]) /\ f = [i \in 0 .. n |-> f[i]]
  <2>1. 0 \in 0 .. n /\ n \in 0 .. n /\ n # 0
    BY <1>0
  <2>2. f[0] = collen /\ f[n] = collen + 1 + Len(J[n])
    BY <2>1
  <2>3. f = [i \in 0 .. n |-> f[i]]
    BY Zenon
  <2> QED BY <2>2, <2>3
<1> HIDE DEF f
<1>7. Rec(f)
  <2>1. ASSUME NEW i \in 0 .. n PROVE f[i] = IF i = 0 THEN collen ELSE f[i - 1] + 1 + Len(Decimal[s[i]])
    <3>1. i = 0 \/ i \in 1 .. n
      BY <1>0
    <3> QED BY <1>5, <1>6, <3>1
  <2> QED BY <1>6, <2>1
<1>8. Rec(c)
  <2>1. c = CHOOSE v : Rec(v)
    BY DEF KeyLength, n
  <2> HIDE DEF Rec, c
  <2> QED BY <1>7, <2>1
<1> HIDE DEF c
<1> DEFINE P == {i \in 0 .. n : c[i] = f[i]}
<1>9. 0 \in P
  BY <1>0, <1>6, <1>8
<1>10. ASSUME NEW i \in 0 .. n, i < n, i \in P PROVE i + 1 \in P
  <2>1. i + 1 \in 1 .. n /\ i + 1 \in 0 .. n /\ (i + 1) - 1 = i /\ i + 1 # 0
    BY <1>0, <1>10
  <2>2. f[i + 1] = f[i] + 1 + Len(Decimal[s[i + 1]])
    BY <1>5, <2>1
  <2>3. c[i + 1] = c[i] + 1 + Len(Decimal[s[i + 1]])
    BY <1>8, <2>1
  <2> QED BY <1>10, <2>1, <2>2, <2>3
<1>11. c[n] = f[n]
  <2>1. \A i \in 0 .. n : i \in P
    <3> HIDE DEF P
    <3> QED BY <1>0, <1>9, <1>10, Turns
  <2> QED BY <1>0, <2>1
<1>12. n \in 0 .. n
  BY <1>0
<1> QED BY <1>1, <1>2, <1>3, <1>6, <1>11, <1>12 DEF c, n

(* C's table_cell_key and Rust's cell_key build a key for columns of the   *)
(* same lengths, and the same rows, up to the last character of the limit. *)
THEOREM SameKeysHolds == KeySpec => []SameKeys
<1>1. KeyInv => SameKeys
  <2> SUFFICES ASSUME KeyInv, Done, rc = "OK", NEW collen \in 0 .. STORAGE_KEY_MAX + 1
               PROVE  table_cell_key(collen, inst) <=> cell_key(collen, inst)
    BY DEF SameKeys
  <2>1. /\ inst \in Seq(Subids) /\ inst # <<>> /\ Len(inst) <= TABLE_ROW_SUBID_MAX
    BY DEF KeyInv, Done, KeyTypes, InvEnd
  <2> DEFINE F == Len(table_instance_format(inst))
  <2>2. collen \in Nat /\ STORAGE_KEY_MAX \in Nat
    BY KeyNumbers
  <2>3. KeyLength(collen, inst)[Len(inst)] = collen + 1 + F /\ F \in Nat
    BY <2>1, <2>2, KeyLengthIs
  <2>4. cell_key(collen, inst) <=>
          collen > 0 /\ inst # <<>> /\ KeyLength(collen, inst)[Len(inst)] <= STORAGE_KEY_MAX
    BY DEF cell_key, KeyLength
  <2>5. table_cell_key(collen, inst) <=>
          /\ collen > 0 /\ collen + 2 <= STORAGE_KEY_MAX + 1
          /\ F < STORAGE_KEY_MAX - collen
          /\ collen + 1 + F <= STORAGE_KEY_MAX
    BY <2>1 DEF table_cell_key
  <2> HIDE DEF F
  <2> QED BY <2>1, <2>2, <2>3, <2>4, <2>5
<1> QED BY <1>1, KeyInvariant, PTL
=============================================================================
