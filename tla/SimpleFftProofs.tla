------------------------- MODULE SimpleFftProofs -------------------------
(* The transform of SimpleFft, by exchanges of bit-reversed indices,
   butterflies and factors from a recurrence, is the discrete Fourier transform
   for all data of any power of two up to 16.

   Argument: the factors are powers of a root of unity, whose order gives
   w^(e + 16) = w^e and w^(e + 8) = -w^e (first section).  A transform of 2 * m
   samples a stride apart is the sum of those of the samples with even and with
   odd place (second).  rearrangeData exchanges every pair of indices with
   reversed bits once (third, fourth).  So each pass joins the transforms of
   blocks to those of blocks twice as long (fifth), until there is one block. *)
EXTENDS SimpleFft, Arithmetic, TLAPS

---------------------------------------------------------------------------
\* The numbers, the powers of the root, and how a sum over a stride splits.

\* The remainder of a sum or a product is that of the remainders.
LEMMA ModFacts ==
    ASSUME NEW x \in Int, NEW y \in Int
    PROVE  /\ (x + (y % 17)) % 17 = (x + y) % 17
           /\ (x - (y % 17)) % 17 = (x - y) % 17
           /\ (x * (y % 17)) % 17 = (x * y) % 17
           /\ (x * y) \in Int /\ x % 17 \in 0 .. 16
<1>1. PICK q \in Int, r \in Int : y = 17 * q + r /\ r = y % 17
  OBVIOUS
<1>2. x * y = x * r + 17 * (x * q) /\ x * r \in Int /\ x * q \in Int
  BY <1>1
<1>3. \A u, v \in Int : (u + 17 * v) % 17 = u % 17
  OBVIOUS
<1>4. (x * y) % 17 = (x * r) % 17
  BY <1>2, <1>3
<1>5. (x + (y % 17)) % 17 = (x + y) % 17 /\ (x - (y % 17)) % 17 = (x - y) % 17
  OBVIOUS
<1>6. x * y \in Int /\ x % 17 \in 0 .. 16
  BY <1>2
<1> QED
  BY <1>1, <1>4, <1>5, <1>6

\* Remainders may be added one by one.
LEMMA ModAdds ==
    ASSUME NEW a1 \in Int, NEW a2 \in Int, NEW b1 \in Int, NEW b2 \in Int,
           a1 % 17 = b1 % 17, a2 % 17 = b2 % 17
    PROVE  (a1 + a2) % 17 = (b1 + b2) % 17
<1>1. (a1 + a2) % 17 = (a1 + (b2 % 17)) % 17 /\ (a1 + (b2 % 17)) % 17 = (a1 + b2) % 17
  BY ModFacts
<1>2. (b2 + a1) % 17 = (b2 + (b1 % 17)) % 17 /\ (b2 + (b1 % 17)) % 17 = (b2 + b1) % 17
  BY ModFacts
<1>3. a1 + b2 = b2 + a1 /\ b2 + b1 = b1 + b2
  OBVIOUS
<1> QED
  BY <1>1, <1>2, <1>3

---------------------------------------------------------------------------
\* The powers of three modulo 17.
Table == [e \in 0 .. 16 |-> <<1, 3, 9, 10, 13, 5, 15, 11, 16, 14, 8, 7, 4, 12, 2, 6, 1>>[e + 1]]

\* The definition of Power has a solution, and so Power is one.
LEMMA PowerTable == Power = [e \in 0 .. 16 |-> IF e = 0 THEN 1 ELSE (3 * Power[e - 1]) % 17]
<1> DEFINE Unfolds17(p) == p = [e \in 0 .. 16 |-> IF e = 0 THEN 1 ELSE (3 * p[e - 1]) % 17]
<1>1. Unfolds17(Table)
  <2>1. \A e \in 0 .. 16 : Table[e] = IF e = 0 THEN 1 ELSE (3 * Table[e - 1]) % 17
    BY DEF Table
  <2>2. Table = [e \in 0 .. 16 |-> Table[e]]
    BY DEF Table
  <2> HIDE DEF Table
  <2> QED
    BY <2>1, <2>2
<1>2. Power = CHOOSE p : Unfolds17(p)
  BY DEF Power, Order, Modulus
<1> QED
  BY <1>1, <1>2

\* Three has order 16, and its eighth power is -1.
LEMMA PowerFacts ==
    /\ Power[0] = 1 /\ Power[8] = 16 /\ Power[16] = 1
    /\ \A e \in 0 .. 15 : Power[e + 1] = (3 * Power[e]) % 17
    /\ \A e \in 0 .. 16 : Power[e] \in 0 .. 16
<1>1. Power[0] = 1 /\ \A e \in 1 .. 16 : Power[e] = (3 * Power[e - 1]) % 17
  BY PowerTable
<1>2. Power[1] = 3 /\ Power[2] = 9 /\ Power[3] = 10 /\ Power[4] = 13
  BY <1>1
<1>3. Power[5] = 5 /\ Power[6] = 15 /\ Power[7] = 11 /\ Power[8] = 16
  BY <1>1, <1>2
<1>4. Power[9] = 14 /\ Power[10] = 8 /\ Power[11] = 7 /\ Power[12] = 4
  BY <1>1, <1>3
<1>5. Power[13] = 12 /\ Power[14] = 2 /\ Power[15] = 6 /\ Power[16] = 1
  BY <1>1, <1>4
<1>6. \A e \in 0 .. 16 : Power[e] \in 0 .. 16
  BY <1>1, <1>2, <1>3, <1>4, <1>5
<1>7. \A e \in 0 .. 15 : Power[e + 1] = (3 * Power[e]) % 17
  BY <1>1
<1> QED
  BY <1>1, <1>3, <1>5, <1>6, <1>7

\* The powers with any exponent.
Root(e) == Power[e % 16]

\* The next power.
LEMMA RootFacts ==
    ASSUME NEW e \in Nat
    PROVE  /\ Root(e) \in 0 .. 16 /\ Root(e + 1) = (3 * Root(e)) % 17
           /\ Root(e + 16) = Root(e)
<1>1. /\ e % 16 \in 0 .. 15 /\ (e + 16) % 16 = e % 16
      /\ (e + 1) % 16 = IF e % 16 = 15 THEN 0 ELSE (e % 16) + 1
  OBVIOUS
<1>2. Root(e + 1) = (3 * Root(e)) % 17
  BY <1>1, PowerFacts DEF Root
<1> QED
  BY <1>1, <1>2, PowerFacts DEF Root

\* The power of a sum of exponents is the product of the powers.
LEMMA RootOfSum ==
    ASSUME NEW a \in Nat, NEW b \in Nat
    PROVE  Root(a + b) = (Root(a) * Root(b)) % 17
<1> DEFINE Good == {n \in Nat : Root(a + n) = (Root(a) * Root(n)) % 17}
<1>1. 0 \in Good
  <2>1. Root(0) = 1 /\ Root(a) \in 0 .. 16
    BY PowerFacts, RootFacts DEF Root
  <2> QED
    BY <2>1
<1>2. ASSUME NEW n \in Nat, n \in Good PROVE n + 1 \in Good
  <2>1. /\ Root(a) \in Int /\ Root(n) \in Int /\ Root(n + 1) = (3 * Root(n)) % 17
        /\ Root(a + (n + 1)) = (3 * Root(a + n)) % 17
    <3>1. a + n \in Nat /\ a + (n + 1) = a + n + 1
      OBVIOUS
    <3>2. Root(a + n + 1) = (3 * Root(a + n)) % 17
      BY <3>1, RootFacts
    <3> QED
      BY <3>1, <3>2, RootFacts
  <2>2. Root(a + n) = (Root(a) * Root(n)) % 17
    BY <1>2
  <2> DEFINE p == Root(a)
             q == Root(n)
  <2> HIDE DEF p, q
  <2>3. (3 * ((p * q) % 17)) % 17 = (3 * (p * q)) % 17
    BY <2>1, ModFacts DEF p, q
  <2>4. (p * ((3 * q) % 17)) % 17 = (p * (3 * q)) % 17
    BY <2>1, ModFacts DEF p, q
  <2>5. 3 * (p * q) = p * (3 * q)
    BY <2>1 DEF p, q
  <2> QED
    BY <2>1, <2>2, <2>3, <2>4, <2>5 DEF p, q
<1> HIDE DEF Good
<1>3. Nat \subseteq Good
  BY <1>1, <1>2, NumberInduction
<1> QED
  BY <1>3 DEF Good

\* Whole turns make no difference.
LEMMA RootTurns ==
    ASSUME NEW a \in Nat, NEW t \in Nat
    PROVE  Root(a + 16 * t) = Root(a)
<1>1. (a + 16 * t) % 16 = a % 16
  OBVIOUS
<1> QED
  BY <1>1 DEF Root

\* Half a turn changes the sign.
LEMMA RootHalfTurn ==
    ASSUME NEW a \in Nat
    PROVE  Root(a + 8) = (0 - Root(a)) % 17
<1>1. Root(8) = 16 /\ Root(a) \in 0 .. 16
  BY PowerFacts, RootFacts DEF Root
<1>2. Root(a + 8) = (Root(a) * 16) % 17
  BY <1>1, RootOfSum
<1> QED
  BY <1>1, <1>2

---------------------------------------------------------------------------
\* Sums of elements that agree up to a factor agree up to this factor.
LEMMA SumCongruent ==
    ASSUME NEW f, NEW g, NEW S, IsFiniteSet(S), NEW c \in Int,
           \A x \in S : f[x] \in Int /\ g[x] \in Int /\ f[x] % 17 = (c * g[x]) % 17
    PROVE  SumFunctionOnSet(f, S) % 17 = (c * SumFunctionOnSet(g, S)) % 17
<1> DEFINE Good == {s \in SUBSET S :
                      SumFunctionOnSet(f, s) % 17 = (c * SumFunctionOnSet(g, s)) % 17}
<1>1. {} \in Good
  BY SumOfNothing
<1>2. ASSUME NEW s \in SUBSET S, NEW x \in S, s \in Good, x \notin s
      PROVE  s \cup {x} \in Good
  <2>1. IsFiniteSet(s) /\ IsFiniteSet(s \cup {x}) /\ (s \cup {x}) \ {x} = s /\ x \in s \cup {x}
    BY <1>2, FS_Subset
  <2>2. \A y \in s \cup {x} : f[y] \in Int /\ g[y] \in Int
    OBVIOUS
  <2>3. SumFunctionOnSet(f, s \cup {x}) = f[x] + SumFunctionOnSet(f, (s \cup {x}) \ {x})
    BY <2>1, <2>2, SumAdds
  <2>4. SumFunctionOnSet(g, s \cup {x}) = g[x] + SumFunctionOnSet(g, (s \cup {x}) \ {x})
    BY <2>1, <2>2, SumAdds
  <2>5. SumFunctionOnSet(f, s) \in Int /\ SumFunctionOnSet(g, s) \in Int
    BY <2>1, <2>2, SumType
  <2> DEFINE F == SumFunctionOnSet(f, s)
             G == SumFunctionOnSet(g, s)
  <2>6. F % 17 = (c * G) % 17 /\ f[x] % 17 = (c * g[x]) % 17
    BY <1>2
  <2>7. f[x] \in Int /\ F \in Int /\ c * G \in Int /\ c * g[x] \in Int
    BY <2>2, <2>5
  <2>8. c * (g[x] + G) = c * g[x] + c * G
    BY <2>2, <2>5
  <2>10. (f[x] + F) % 17 = (c * g[x] + c * G) % 17
    <3> DEFINE a == f[x]
               p == c * g[x]
               q == c * G
    <3>1. a \in Int /\ F \in Int /\ p \in Int /\ q \in Int /\ a % 17 = p % 17 /\ F % 17 = q % 17
      BY <2>6, <2>7
    <3> HIDE DEF F, a, p, q
    <3>2. (a + F) % 17 = (p + q) % 17
      BY <3>1, ModAdds
    <3> QED
      BY <3>2 DEF a, p, q
  <2> QED
    BY <2>1, <2>3, <2>4, <2>8, <2>10
<1> HIDE DEF Good
<1>3. SUBSET S \subseteq Good
  BY <1>1, <1>2, SubsetInduction
<1> QED
  BY <1>3 DEF Good

(* The transform of the i samples of data at o, o + m, o + 2m ...            *)
Term(data, i, m, o, k) == [j \in 0 .. i - 1 |-> data[j * m + o] * Root(j * k * (16 \div i))]
Strided(data, i, m, o, k) == SumFunctionOnSet(Term(data, i, m, o, k), 0 .. i - 1)

\* It is an integer.
LEMMA StridedType ==
    ASSUME NEW data, NEW i \in PowersOfTwo, NEW m \in Nat, NEW o \in Nat, NEW k \in Nat,
           \A j \in 0 .. i - 1 : data[j * m + o] \in Int
    PROVE  /\ \A j \in 0 .. i - 1 : Term(data, i, m, o, k)[j] \in Int
           /\ Strided(data, i, m, o, k) \in Int
<1>1. i \in Nat /\ i > 0 /\ 16 \div i \in Nat /\ IsFiniteSet(0 .. i - 1)
  BY FS_Interval DEF PowersOfTwo
<1>2. ASSUME NEW j \in 0 .. i - 1 PROVE Term(data, i, m, o, k)[j] \in Int
  <2>1. j * k * (16 \div i) \in Nat
    BY <1>1
  <2>2. Root(j * k * (16 \div i)) \in Int
    BY <2>1, RootFacts
  <2>3. Term(data, i, m, o, k)[j] = data[j * m + o] * Root(j * k * (16 \div i))
    BY DEF Term
  <2> QED
    BY <2>2, <2>3, ModFacts
<1> QED
  BY <1>1, <1>2, SumType DEF Strided

(* The transform of twice as many samples, in two halves of its places, from
   that of the even and that of the odd samples.                             *)
Splits(data, i, m, o, k) ==
    LET even == Strided(data, i, 2 * m, o, k)
        odd == Strided(data, i, 2 * m, o + m, k)
        root == Root(k * (8 \div i))
    IN  /\ even \in Int /\ odd \in Int
        /\ Strided(data, 2 * i, m, o, k) % 17 = (even + root * odd) % 17
        /\ Strided(data, 2 * i, m, o, k + i) % 17 = (even - root * odd) % 17

\* Twice as many samples: every other one belongs to each half.
LEMMA StridedSplits ==
    ASSUME NEW data, NEW i \in {1, 2, 4, 8}, NEW m \in Nat, NEW o \in Nat, NEW k \in 0 .. i - 1,
           \A j \in 0 .. 2 * i - 1 : data[j * m + o] \in Int
    PROVE  Splits(data, i, m, o, k)
<1> DEFINE s == 8 \div i
           root == Root(k * s)
           Even(kk) == [j \in 0 .. i - 1 |-> Term(data, 2 * i, m, o, kk)[2 * j]]
           Odd(kk) == [j \in 0 .. i - 1 |-> Term(data, 2 * i, m, o, kk)[2 * j + 1]]
           e == Term(data, i, 2 * m, o, k)
           d == Term(data, i, 2 * m, o + m, k)
<1>1. /\ i \in PowersOfTwo /\ 2 * i \in PowersOfTwo /\ i \in Nat /\ k \in Nat /\ k + i \in Nat
      /\ s \in Nat /\ 16 \div i = 2 * s /\ 16 \div (2 * i) = s /\ i * s = 8
      /\ 2 * m \in Nat /\ o + m \in Nat
  BY DEF PowersOfTwo
<1>2. \A j \in 0 .. i - 1 :
         /\ 2 * j \in 0 .. 2 * i - 1 /\ 2 * j + 1 \in 0 .. 2 * i - 1
         /\ (2 * j) * m + o = j * (2 * m) + o
         /\ (2 * j + 1) * m + o = j * (2 * m) + (o + m)
  BY <1>1
<1>3. \A j \in 0 .. i - 1 : /\ data[j * (2 * m) + o] \in Int
                            /\ data[j * (2 * m) + (o + m)] \in Int
  BY <1>2
<1>4. /\ Strided(data, i, 2 * m, o, k) \in Int /\ Strided(data, i, 2 * m, o + m, k) \in Int
      /\ \A j \in 0 .. i - 1 : e[j] \in Int /\ d[j] \in Int
  BY <1>1, <1>3, StridedType
<1>5. root \in 0 .. 16
  <2>1. k * s \in Nat
    BY <1>1
  <2> QED
    BY <2>1, RootFacts
<1>6. ASSUME NEW kk \in Nat
      PROVE  /\ \A j \in 0 .. i - 1 :
                   /\ Even(kk)[j] = data[j * (2 * m) + o] * Root((2 * j) * kk * s)
                   /\ Odd(kk)[j] = data[j * (2 * m) + (o + m)] * Root((2 * j + 1) * kk * s)
                   /\ Even(kk)[j] \in Int /\ Odd(kk)[j] \in Int
             /\ Strided(data, 2 * i, m, o, kk) =
                   SumFunctionOnSet(Even(kk), 0 .. i - 1) + SumFunctionOnSet(Odd(kk), 0 .. i - 1)
  <2>1. \A j \in 0 .. 2 * i - 1 : Term(data, 2 * i, m, o, kk)[j] \in Int
    BY <1>1, StridedType
  <2>2. \A j \in 0 .. i - 1 :
           /\ Even(kk)[j] = data[j * (2 * m) + o] * Root((2 * j) * kk * s)
           /\ Odd(kk)[j] = data[j * (2 * m) + (o + m)] * Root((2 * j + 1) * kk * s)
    BY <1>1, <1>2 DEF Term
  <2>3. \A j \in 0 .. i - 1 : Even(kk)[j] \in Int /\ Odd(kk)[j] \in Int
    BY <1>2, <2>1
  <2>4. SumFunctionOnSet(Term(data, 2 * i, m, o, kk), 0 .. 2 * i - 1) =
           SumFunctionOnSet(Even(kk), 0 .. i - 1) + SumFunctionOnSet(Odd(kk), 0 .. i - 1)
    <3>1. \A j \in 0 .. i - 1 : /\ Even(kk)[j] = Term(data, 2 * i, m, o, kk)[2 * j]
                                /\ Odd(kk)[j] = Term(data, 2 * i, m, o, kk)[2 * j + 1]
      OBVIOUS
    <3> DEFINE f == Term(data, 2 * i, m, o, kk)
               even == Even(kk)
               odd == Odd(kk)
    <3>2. /\ \A x \in 0 .. 2 * i - 1 : f[x] \in Int
          /\ \A j \in 0 .. i - 1 : even[j] = f[2 * j] /\ odd[j] = f[2 * j + 1]
      BY <2>1, <3>1
    <3> HIDE DEF f, even, odd
    <3>3. i \in Nat
      BY <1>1
    <3>4. SumFunctionOnSet(f, 0 .. 2 * i - 1) =
             SumFunctionOnSet(even, 0 .. i - 1) + SumFunctionOnSet(odd, 0 .. i - 1)
      BY <3>2, <3>3, SumEvenOdd
    <3> QED
      BY <3>4 DEF f, even, odd
  <2> QED
    BY <2>2, <2>3, <2>4 DEF Strided
<1>7. ASSUME NEW j \in 0 .. i - 1
      PROVE  /\ e[j] = data[j * (2 * m) + o] * Root(2 * (j * k * s))
             /\ d[j] = data[j * (2 * m) + (o + m)] * Root(2 * (j * k * s))
  <2>1. j * k * (2 * s) = 2 * (j * k * s)
    BY <1>1
  <2> QED
    BY <1>1, <2>1 DEF Term
<1>8. ASSUME NEW j \in 0 .. i - 1
      PROVE  /\ Root((2 * j) * k * s) = Root(2 * (j * k * s))
             /\ Root((2 * j) * (k + i) * s) = Root(2 * (j * k * s))
             /\ Root((2 * j + 1) * k * s) = (root * Root(2 * (j * k * s))) % 17
             /\ Root((2 * j + 1) * (k + i) * s) = (0 - root * Root(2 * (j * k * s))) % 17
             /\ Root(2 * (j * k * s)) \in 0 .. 16
  <2>1. PICK t \in Nat : t = j * k * s
    BY <1>1
  <2>2. PICK u \in Nat : u = k * s
    <3>1. k * s \in Nat
      BY <1>1
    <3> QED
      BY <3>1
  <2>3. /\ (2 * j) * k * s = 2 * t /\ (2 * j + 1) * k * s = u + 2 * t
        /\ (2 * j) * (k + i) * s = 2 * t + 16 * j
        /\ (2 * j + 1) * (k + i) * s = (u + 2 * t + 8) + 16 * j
    <3>1. (i = 1 /\ s = 8) \/ (i = 2 /\ s = 4) \/ (i = 4 /\ s = 2) \/ (i = 8 /\ s = 1)
      BY <1>1
    <3> HIDE DEF s
    <3>2. CASE i = 1 /\ s = 8
      BY <1>1, <2>1, <2>2, <3>2
    <3>3. CASE i = 2 /\ s = 4
      BY <1>1, <2>1, <2>2, <3>3
    <3>4. CASE i = 4 /\ s = 2
      BY <1>1, <2>1, <2>2, <3>4
    <3>5. CASE i = 8 /\ s = 1
      BY <1>1, <2>1, <2>2, <3>5
    <3> QED
      BY <3>1, <3>2, <3>3, <3>4, <3>5
  <2>4. 2 * t \in Nat /\ u + 2 * t \in Nat /\ u + 2 * t + 8 \in Nat /\ j \in Nat
    OBVIOUS
  <2>5. Root(2 * t + 16 * j) = Root(2 * t) /\ Root(2 * t) \in 0 .. 16
    BY <2>4, RootTurns, RootFacts
  <2>6. Root(u + 2 * t) = (root * Root(2 * t)) % 17
    BY <2>2, <2>4, RootOfSum
  <2>7. Root((u + 2 * t + 8) + 16 * j) = (0 - Root(u + 2 * t)) % 17
    BY <2>4, RootTurns, RootHalfTurn
  <2>8. (0 - ((root * Root(2 * t)) % 17)) % 17 = (0 - root * Root(2 * t)) % 17
    <3>1. root * Root(2 * t) \in Int
      BY <1>5, <2>5
    <3> QED
      BY <3>1, ModFacts
  <2>9. Root((2 * j + 1) * (k + i) * s) = (0 - root * Root(2 * t)) % 17
    <3>1. Root((2 * j + 1) * (k + i) * s) = (0 - Root(u + 2 * t)) % 17
      <4> HIDE DEF root, s
      <4> QED
        BY <2>3, <2>7, Zenon
    <3>2. (0 - Root(u + 2 * t)) % 17 = (0 - ((root * Root(2 * t)) % 17)) % 17
      <4> DEFINE l == Root(u + 2 * t)
                 r == (root * Root(2 * t)) % 17
      <4>1. l = r
        BY <2>6
      <4> HIDE DEF l, r
      <4>2. (0 - l) % 17 = (0 - r) % 17
        BY <4>1
      <4> QED
        BY <4>2 DEF l, r
    <3> HIDE DEF root, s
    <3> QED
      BY <2>8, <3>1, <3>2, Zenon
  <2>10. Root((2 * j) * k * s) = Root(2 * t) /\ Root((2 * j) * (k + i) * s) = Root(2 * t)
    BY <2>3, <2>5
  <2>11. Root((2 * j + 1) * k * s) = (root * Root(2 * t)) % 17
    BY <2>3, <2>6
  <2> HIDE DEF root, s
  <2> QED
    BY <2>1, <2>5, <2>9, <2>10, <2>11
<1> HIDE DEF s, root, Even, Odd, e, d
<1>9. ASSUME NEW x \in Int, NEW r \in Int, NEW q \in Int, NEW f, f = x * ((q * r) % 17)
      PROVE  f % 17 = (q * (x * r)) % 17
  <2>1. q * r \in Int /\ x * (q * r) = q * (x * r)
    OBVIOUS
  <2> QED
    BY <1>9, <2>1, ModFacts
<1>10. IsFiniteSet(0 .. i - 1)
  BY <1>1, FS_Interval
<1>20. ASSUME NEW j \in 0 .. i - 1
       PROVE  /\ Even(k)[j] = e[j] /\ Even(k + i)[j] = e[j] /\ e[j] \in Int
              /\ Odd(k)[j] % 17 = (root * d[j]) % 17
              /\ Odd(k + i)[j] % 17 = ((0 - root) * d[j]) % 17
              /\ Odd(k)[j] \in Int /\ Odd(k + i)[j] \in Int /\ d[j] \in Int
  <2> DEFINE x == data[j * (2 * m) + o]
             y == data[j * (2 * m) + (o + m)]
             r == Root(2 * (j * k * s))
  <2>1. /\ Even(k)[j] = x * Root((2 * j) * k * s)
        /\ Odd(k)[j] = y * Root((2 * j + 1) * k * s)
        /\ Odd(k)[j] \in Int
    BY <1>1, <1>6
  <2>2. /\ Even(k + i)[j] = x * Root((2 * j) * (k + i) * s)
        /\ Odd(k + i)[j] = y * Root((2 * j + 1) * (k + i) * s)
        /\ Odd(k + i)[j] \in Int
    BY <1>1, <1>6
  <2>3. e[j] = x * r /\ d[j] = y * r /\ e[j] \in Int /\ d[j] \in Int
    BY <1>4, <1>7
  <2>4. /\ Root((2 * j) * k * s) = r /\ Root((2 * j) * (k + i) * s) = r
        /\ Root((2 * j + 1) * k * s) = (root * r) % 17
        /\ Root((2 * j + 1) * (k + i) * s) = (0 - root * r) % 17
    BY <1>8, Zenon
  <2>5. root \in Int /\ 0 - root \in Int /\ r \in Int /\ y \in Int
    BY <1>3, <1>5, <1>8
  <2> HIDE DEF x, y, r
  <2>6. Even(k)[j] = e[j] /\ Even(k + i)[j] = e[j]
    BY <2>1, <2>2, <2>3, <2>4, Zenon
  <2>7. Odd(k)[j] = y * ((root * r) % 17)
    BY <2>1, <2>4, Zenon
  <2>8. Odd(k + i)[j] = y * (((0 - root) * r) % 17)
    <3>1. 0 - root * r = (0 - root) * r
      BY <2>5
    <3> QED
      BY <2>2, <2>4, <3>1, Zenon
  <2>9. Odd(k)[j] % 17 = (root * d[j]) % 17 /\ Odd(k + i)[j] % 17 = ((0 - root) * d[j]) % 17
    BY <1>9, <2>3, <2>5, <2>7, <2>8
  <2> QED
    BY <2>1, <2>2, <2>3, <2>6, <2>9
<1>11. SumFunctionOnSet(Even(k), 0 .. i - 1) = SumFunctionOnSet(e, 0 .. i - 1)
       /\ SumFunctionOnSet(Even(k + i), 0 .. i - 1) = SumFunctionOnSet(e, 0 .. i - 1)
  BY <1>10, <1>20, SumOfSame
<1>12. SumFunctionOnSet(Odd(k), 0 .. i - 1) % 17 = (root * SumFunctionOnSet(d, 0 .. i - 1)) % 17
  <2>1. root \in Int
    BY <1>5
  <2> QED
    BY <1>10, <1>20, <2>1, SumCongruent
<1>13. SumFunctionOnSet(Odd(k + i), 0 .. i - 1) % 17 = ((0 - root) * SumFunctionOnSet(d, 0 .. i - 1)) % 17
  <2>1. 0 - root \in Int
    BY <1>5
  <2> QED
    BY <1>10, <1>20, <2>1, SumCongruent
<1> DEFINE E == SumFunctionOnSet(e, 0 .. i - 1)
           D == SumFunctionOnSet(d, 0 .. i - 1)
<1>14. E = Strided(data, i, 2 * m, o, k) /\ D = Strided(data, i, 2 * m, o + m, k)
  BY DEF Strided, e, d
<1>15. E \in Int /\ D \in Int
  BY <1>4, <1>14
<1>16. /\ SumFunctionOnSet(Odd(k), 0 .. i - 1) \in Int
       /\ SumFunctionOnSet(Odd(k + i), 0 .. i - 1) \in Int
  BY <1>10, <1>20, SumType
<1> DEFINE U == SumFunctionOnSet(Odd(k), 0 .. i - 1)
           V == SumFunctionOnSet(Odd(k + i), 0 .. i - 1)
<1>17. /\ Strided(data, 2 * i, m, o, k) = E + U
       /\ Strided(data, 2 * i, m, o, k + i) = E + V
  BY <1>1, <1>6, <1>11
<1>18. /\ U \in Int /\ V \in Int /\ U % 17 = (root * D) % 17 /\ V % 17 = ((0 - root) * D) % 17
       /\ root * D \in Int /\ (0 - root) * D = 0 - root * D
  <2>1. root \in Int
    BY <1>5
  <2>2. root * D \in Int /\ (0 - root) * D = 0 - root * D
    <3> HIDE DEF D
    <3> QED
      BY <1>15, <2>1
  <2> QED
    BY <1>12, <1>13, <1>16, <2>2
<1> HIDE DEF E, D, U, V
<1>19. \A p \in Int, w \in Int : w % 17 = p % 17 => (E + w) % 17 = (E + p) % 17
  BY <1>15, ModAdds
<1>21. (E + U) % 17 = (E + root * D) % 17 /\ (E + V) % 17 = (E - root * D) % 17
  <2>1. PICK p \in Int : p = root * D
    BY <1>18
  <2>2. U % 17 = p % 17 /\ V % 17 = (0 - p) % 17 /\ 0 - p \in Int /\ E + (0 - p) = E - p
    BY <1>15, <1>18, <2>1
  <2>3. (E + U) % 17 = (E + p) % 17 /\ (E + V) % 17 = (E + (0 - p)) % 17
    BY <1>18, <1>19, <2>2
  <2> QED
    BY <2>1, <2>2, <2>3
<1> QED
  BY <1>14, <1>15, <1>17, <1>21 DEF root, s, Splits

---------------------------------------------------------------------------
\* Reversed bits, and the counter that rearrangeData counts them with.

\* The largest element of a set of numbers.
LEMMA MaxIs ==
    ASSUME NEW S, S \subseteq Int, NEW m \in S, \A y \in S : y <= m
    PROVE  Max(S) = m
<1>1. \A x \in S : (\A y \in S : x >= y) => x = m
  OBVIOUS
<1>2. \A y \in S : m >= y
  OBVIOUS
<1> QED
  BY <1>1, <1>2 DEF Max

\* The index below n with its bits reversed.
Reversed(x, n) ==
    IF n = 1 THEN 0
    ELSE IF n = 2 THEN x
    ELSE IF n = 4 THEN 2 * (x % 2) + (x \div 2)
    ELSE IF n = 8 THEN 4 * (x % 2) + 2 * ((x \div 2) % 2) + (x \div 4)
    ELSE 8 * (x % 2) + 4 * ((x \div 2) % 2) + 2 * ((x \div 4) % 2) + (x \div 8)

\* Reversing the bits twice gives the index again.
LEMMA ReversedFacts ==
    ASSUME NEW n \in PowersOfTwo, NEW x \in 0 .. n - 1
    PROVE  Reversed(x, n) \in 0 .. n - 1 /\ Reversed(Reversed(x, n), n) = x
<1>1. CASE n = 1
  BY <1>1 DEF Reversed
<1>2. CASE n = 2
  BY <1>2 DEF Reversed
<1>3. CASE n = 4
  BY <1>3 DEF Reversed
<1>4. CASE n = 8
  BY <1>4 DEF Reversed
<1>5. CASE n = 16
  BY <1>5 DEF Reversed
<1> QED
  BY <1>1, <1>2, <1>3, <1>4, <1>5 DEF PowersOfTwo

\* The indices with reversed bits of twice as many samples.
LEMMA ReversedDoubles ==
    ASSUME NEW m \in {1, 2, 4, 8}, NEW b \in 0 .. m - 1
    PROVE  /\ Reversed(2 * b, 2 * m) = Reversed(b, m)
           /\ Reversed(2 * b + 1, 2 * m) = Reversed(b, m) + m
<1>1. CASE m = 1
  BY <1>1 DEF Reversed
<1>2. CASE m = 2
  BY <1>2 DEF Reversed
<1>3. CASE m = 4
  BY <1>3 DEF Reversed
<1>4. CASE m = 8
  BY <1>4 DEF Reversed
<1> QED
  BY <1>1, <1>2, <1>3, <1>4

\* The next target: the ones above the highest zero are dropped, and it is set.
LEMMA NextTargetIs ==
    ASSUME NEW n \in PowersOfTwo, NEW t \in Nat, NEW h \in Masks(n), ~HasBit(t, h),
           \A m \in Masks(n) : m > h => HasBit(t, m)
    PROVE  NextTarget(t, n) = (t % h) + h
<1> DEFINE zeros == {m \in Masks(n) : ~HasBit(t, m)}
<1>1. h \in zeros /\ zeros \subseteq Int
  BY DEF Masks, PowersOfTwo
<1>2. \A y \in zeros : y <= h
  BY <1>1
<1>3. Max(zeros) = h
  BY <1>1, <1>2, MaxIs
<1> QED
  BY <1>1, <1>3 DEF NextTarget

\* The target of the next index is the next target: the counter runs over the
\* indices with reversed bits.
LEMMA NextTargetCounts ==
    ASSUME NEW n \in PowersOfTwo, NEW p \in Nat, p + 1 < n
    PROVE  NextTarget(Reversed(p, n), n) = Reversed(p + 1, n)
<1> DEFINE t == Reversed(p, n)
<1>0. /\ Masks(2) = {1} /\ Masks(4) = {1, 2} /\ Masks(8) = {1, 2, 4} /\ Masks(16) = {1, 2, 4, 8}
      /\ t \in Nat
  BY ReversedFacts DEF Masks, PowersOfTwo
<1>2. CASE n = 2
  BY <1>0, <1>2, NextTargetIs DEF Reversed, HasBit
<1>3. CASE n = 4
  <2>1. CASE p % 2 = 0
    <3>1. ~HasBit(t, 2)
      BY <1>3, <2>1 DEF Reversed, HasBit
    <3>2. NextTarget(t, 4) = (t % 2) + 2
      <4> HIDE DEF t
      <4> QED
        BY <1>0, <1>3, <3>1, NextTargetIs
    <3>3. (t % 2) + 2 = Reversed(p + 1, 4)
      BY <1>3, <2>1 DEF Reversed
    <3> QED
      BY <1>3, <3>2, <3>3
  <2>2. CASE p % 4 = 1
    <3>1. ~HasBit(t, 1) /\ HasBit(t, 2)
      BY <1>3, <2>2 DEF Reversed, HasBit
    <3>2. NextTarget(t, 4) = (t % 1) + 1
      <4> HIDE DEF t
      <4> QED
        BY <1>0, <1>3, <3>1, NextTargetIs
    <3>3. (t % 1) + 1 = Reversed(p + 1, 4)
      BY <1>3, <2>2 DEF Reversed
    <3> QED
      BY <1>3, <3>2, <3>3
  <2> QED
    BY <1>3, <2>1, <2>2
<1>4. CASE n = 8
  <2>1. CASE p % 2 = 0
    <3>1. ~HasBit(t, 4)
      BY <1>4, <2>1 DEF Reversed, HasBit
    <3>2. NextTarget(t, 8) = (t % 4) + 4
      <4> HIDE DEF t
      <4> QED
        BY <1>0, <1>4, <3>1, NextTargetIs
    <3>3. (t % 4) + 4 = Reversed(p + 1, 8)
      BY <1>4, <2>1 DEF Reversed
    <3> QED
      BY <1>4, <3>2, <3>3
  <2>2. CASE p % 4 = 1
    <3>1. ~HasBit(t, 2) /\ HasBit(t, 4)
      BY <1>4, <2>2 DEF Reversed, HasBit
    <3>2. NextTarget(t, 8) = (t % 2) + 2
      <4> HIDE DEF t
      <4> QED
        BY <1>0, <1>4, <3>1, NextTargetIs
    <3>3. (t % 2) + 2 = Reversed(p + 1, 8)
      BY <1>4, <2>2 DEF Reversed
    <3> QED
      BY <1>4, <3>2, <3>3
  <2>3. CASE p % 8 = 3
    <3>1. ~HasBit(t, 1) /\ HasBit(t, 2) /\ HasBit(t, 4)
      BY <1>4, <2>3 DEF Reversed, HasBit
    <3>2. NextTarget(t, 8) = (t % 1) + 1
      <4> HIDE DEF t
      <4> QED
        BY <1>0, <1>4, <3>1, NextTargetIs
    <3>3. (t % 1) + 1 = Reversed(p + 1, 8)
      BY <1>4, <2>3 DEF Reversed
    <3> QED
      BY <1>4, <3>2, <3>3
  <2> QED
    BY <1>4, <2>1, <2>2, <2>3
<1>5. CASE n = 16
  <2>1. CASE p % 2 = 0
    <3>1. ~HasBit(t, 8)
      BY <1>5, <2>1 DEF Reversed, HasBit
    <3>2. NextTarget(t, 16) = (t % 8) + 8
      <4> HIDE DEF t
      <4> QED
        BY <1>0, <1>5, <3>1, NextTargetIs
    <3>3. (t % 8) + 8 = Reversed(p + 1, 16)
      BY <1>5, <2>1 DEF Reversed
    <3> QED
      BY <1>5, <3>2, <3>3
  <2>2. CASE p % 4 = 1
    <3>1. ~HasBit(t, 4) /\ HasBit(t, 8)
      BY <1>5, <2>2 DEF Reversed, HasBit
    <3>2. NextTarget(t, 16) = (t % 4) + 4
      <4> HIDE DEF t
      <4> QED
        BY <1>0, <1>5, <3>1, NextTargetIs
    <3>3. (t % 4) + 4 = Reversed(p + 1, 16)
      BY <1>5, <2>2 DEF Reversed
    <3> QED
      BY <1>5, <3>2, <3>3
  <2>3. CASE p % 8 = 3
    <3>1. ~HasBit(t, 2) /\ HasBit(t, 4) /\ HasBit(t, 8)
      BY <1>5, <2>3 DEF Reversed, HasBit
    <3>2. NextTarget(t, 16) = (t % 2) + 2
      <4> HIDE DEF t
      <4> QED
        BY <1>0, <1>5, <3>1, NextTargetIs
    <3>3. (t % 2) + 2 = Reversed(p + 1, 16)
      BY <1>5, <2>3 DEF Reversed
    <3> QED
      BY <1>5, <3>2, <3>3
  <2>4. CASE p % 16 = 7
    <3>1. ~HasBit(t, 1) /\ HasBit(t, 2) /\ HasBit(t, 4) /\ HasBit(t, 8)
      BY <1>5, <2>4 DEF Reversed, HasBit
    <3>2. NextTarget(t, 16) = (t % 1) + 1
      <4> HIDE DEF t
      <4> QED
        BY <1>0, <1>5, <3>1, NextTargetIs
    <3>3. (t % 1) + 1 = Reversed(p + 1, 16)
      BY <1>5, <2>4 DEF Reversed
    <3> QED
      BY <1>5, <3>2, <3>3
  <2> QED
    BY <1>5, <2>1, <2>2, <2>3, <2>4
<1> QED
  BY <1>2, <1>3, <1>4, <1>5 DEF PowersOfTwo

---------------------------------------------------------------------------
\* rearrangeData.

\* One iteration of rearrangeData, from the state b in which iteration i - 1 begins.
Iteration(b, i, n) ==
    [data |-> IF b.target_index > i - 1
              THEN bufferExchangeHelper(b.data, b.target_index, i - 1)
              ELSE b.data,
     target_index |-> NextTarget(b.target_index, n)]
Begins(b, data, n, m) ==
    b = [i \in 0 .. m |-> IF i = 0 THEN [data |-> data, target_index |-> 0]
                          ELSE Iteration(b[i - 1], i, n)]

\* The definition of Rearranged.
LEMMA RearrangedUnfolded ==
    ASSUME NEW data, NEW n
    PROVE  Rearranged(data, n) = (CHOOSE b : Begins(b, data, n, n))[n].data
BY DEF Rearranged, Begins, Iteration

\* The recursion has a solution.
LEMMA BeginsExists ==
    ASSUME NEW data, NEW n, NEW m \in Nat
    PROVE  \E b : Begins(b, data, n, m)
<1> DEFINE Good == {k \in Nat : \E b : Begins(b, data, n, k)}
           start == [data |-> data, target_index |-> 0]
<1>1. 0 \in Good
  <2> DEFINE g == [i \in 0 .. 0 |-> start]
  <2>1. \A i \in 0 .. 0 : i = 0
    OBVIOUS
  <2>2. Begins(g, data, n, 0)
    BY <2>1 DEF Begins
  <2> QED
    BY <2>2
<1>2. ASSUME NEW k \in Nat, k \in Good PROVE k + 1 \in Good
  <2>1. PICK g : Begins(g, data, n, k)
    BY <1>2
  <2> DEFINE h == [i \in 0 .. k + 1 |-> IF i = 0 THEN start ELSE Iteration(g[i - 1], i, n)]
  <2>2. \A i \in 0 .. k : i \in 0 .. k + 1
    OBVIOUS
  <2>3. \A i \in 0 .. k : h[i] = g[i]
    BY <2>1, <2>2 DEF Begins
  <2>4. \A i \in 0 .. k + 1 : i # 0 => i - 1 \in 0 .. k
    OBVIOUS
  <2>5. \A i \in 0 .. k + 1 : i # 0 => Iteration(g[i - 1], i, n) = Iteration(h[i - 1], i, n)
    BY <2>3, <2>4
  <2>6. h = [i \in 0 .. k + 1 |-> IF i = 0 THEN start ELSE Iteration(h[i - 1], i, n)]
    BY <2>5
  <2>7. Begins(h, data, n, k + 1)
    BY <2>6 DEF Begins
  <2> QED
    BY <2>7
<1> HIDE DEF Good
<1>3. Nat \subseteq Good
  BY <1>1, <1>2, NumberInduction
<1> QED
  BY <1>3 DEF Good

\* A buffer of n elements.
IsBuffer(a, n) == a = [x \in 0 .. n - 1 |-> a[x]]

\* After i iterations the pairs with one index below i have been exchanged.
LEMMA ExchangesPairs ==
    ASSUME NEW n \in PowersOfTwo, NEW data, IsBuffer(data, n),
           NEW b, Begins(b, data, n, n)
    PROVE  \A i \in 0 .. n :
              /\ IsBuffer(b[i].data, n)
              /\ \A x \in 0 .. n - 1 :
                    b[i].data[x] = IF x < i \/ Reversed(x, n) < i THEN data[Reversed(x, n)]
                                   ELSE data[x]
              /\ i < n => b[i].target_index = Reversed(i, n)
<1> DEFINE Swapped(i) ==
              /\ IsBuffer(b[i].data, n)
              /\ \A x \in 0 .. n - 1 :
                    b[i].data[x] = IF x < i \/ Reversed(x, n) < i THEN data[Reversed(x, n)]
                                   ELSE data[x]
              /\ i < n => b[i].target_index = Reversed(i, n)
           Good == {i \in Nat : i <= n => Swapped(i)}
<1>1. n \in Nat /\ n > 0
  BY DEF PowersOfTwo
<1>2. \A x \in 0 .. n - 1 : Reversed(x, n) \in 0 .. n - 1 /\ Reversed(Reversed(x, n), n) = x
  BY ReversedFacts
<1>3. b[0] = [data |-> data, target_index |-> 0]
  BY <1>1 DEF Begins
<1>4. 0 \in Good
  <2>1. Reversed(0, n) = 0
    BY DEF Reversed, PowersOfTwo
  <2> QED
    BY <1>1, <1>2, <1>3, <2>1
<1>5. ASSUME NEW k \in Nat, k \in Good PROVE k + 1 \in Good
  <2> SUFFICES ASSUME k + 1 <= n PROVE Swapped(k + 1)
    OBVIOUS
  <2>1. k \in 0 .. n - 1 /\ k <= n /\ k < n /\ k + 1 \in 0 .. n /\ k + 1 # 0 /\ k + 1 - 1 = k
    BY <1>1
  <2>2. b[k + 1] = Iteration(b[k], k + 1, n)
    BY <2>1 DEF Begins
  <2>3. Swapped(k)
    BY <1>5, <2>1
  <2> DEFINE t == Reversed(k, n)
             old == b[k].data
             new == b[k + 1].data
  <2>4. /\ b[k].target_index = t /\ t \in 0 .. n - 1 /\ Reversed(t, n) = k
        /\ IsBuffer(old, n)
    BY <1>2, <2>1, <2>3
  <2>45. old = [x \in 0 .. n - 1 |-> old[x]]
    BY <2>4 DEF IsBuffer
  <2>5. new = IF t > k THEN [old EXCEPT ![t] = old[k], ![k] = old[t]] ELSE old
    BY <2>1, <2>2, <2>4 DEF Iteration, bufferExchangeHelper
  <2>6. IsBuffer(new, n)
    <3>1. k \in 0 .. n - 1 /\ t \in 0 .. n - 1
      BY <2>1, <2>4
    <3> HIDE DEF old, new, t
    <3> QED
      BY <2>4, <2>5, <3>1 DEF IsBuffer
  <2>7. ASSUME NEW x \in 0 .. n - 1
        PROVE  new[x] = IF x < k + 1 \/ Reversed(x, n) < k + 1 THEN data[Reversed(x, n)] ELSE data[x]
    <3> DEFINE r == Reversed(x, n)
    <3>1. r \in 0 .. n - 1 /\ Reversed(r, n) = x /\ (x = t <=> r = k) /\ (x = k <=> r = t)
      BY <1>2, <2>1, <2>4
    <3>2. old[x] = IF x < k \/ r < k THEN data[r] ELSE data[x]
      BY <2>3
    <3>3. old[t] = (IF t < k THEN data[k] ELSE data[t]) /\ old[k] = IF t < k THEN data[t] ELSE data[k]
      BY <2>1, <2>3, <2>4
    <3>4. new[x] = IF t > k THEN (IF x = k THEN old[t] ELSE IF x = t THEN old[k] ELSE old[x]) ELSE old[x]
      <4>1. k \in 0 .. n - 1 /\ t \in 0 .. n - 1
        BY <2>1, <2>4
      <4> HIDE DEF old, new, t
      <4> QED
        BY <2>45, <2>5, <4>1
    <3> HIDE DEF t, old, new, r
    <3>9. x \in Int /\ k \in Int /\ t \in Int /\ r \in Int
      BY <1>1, <2>4, <3>1
    <3>5. new[x] = IF x < k + 1 \/ r < k + 1 THEN data[r] ELSE data[x]
      <4>1. CASE x = k
        BY <2>1, <2>4, <3>1, <3>2, <3>3, <3>4, <3>9, <4>1
      <4>2. CASE x = t
        BY <2>1, <2>4, <3>1, <3>2, <3>3, <3>4, <3>9, <4>2
      <4>3. CASE x # k /\ x # t
        <5>1. r # k /\ x # k /\ new[x] = old[x]
          BY <3>1, <3>4, <4>3
        <5>2. (x < k + 1 <=> x < k) /\ (r < k + 1 <=> r < k)
          BY <3>9, <5>1
        <5> QED
          BY <3>2, <5>1, <5>2
      <4> QED
        BY <4>1, <4>2, <4>3
    <3> QED
      BY <3>5 DEF r
  <2>8. k + 1 < n => b[k + 1].target_index = Reversed(k + 1, n)
    BY <2>2, <2>4, NextTargetCounts DEF Iteration
  <2> QED
    BY <2>6, <2>7, <2>8
<1> HIDE DEF Good
<1>6. Nat \subseteq Good
  BY <1>4, <1>5, NumberInduction
<1> QED
  BY <1>1, <1>6 DEF Good

\* Rearranging puts every element to the place with reversed bits.
LEMMA RearrangedIs ==
    ASSUME NEW n \in PowersOfTwo, NEW data,
           IsBuffer(data, n)
    PROVE  Rearranged(data, n) = [x \in 0 .. n - 1 |-> data[Reversed(x, n)]]
<1>1. n \in Nat /\ n \in 0 .. n
  BY DEF PowersOfTwo
<1>2. Begins(CHOOSE b : Begins(b, data, n, n), data, n, n)
  BY <1>1, BeginsExists
<1>3. PICK b : Rearranged(data, n) = b[n].data /\ Begins(b, data, n, n)
  BY <1>2, RearrangedUnfolded
<1>4. /\ IsBuffer(b[n].data, n)
      /\ \A x \in 0 .. n - 1 :
            b[n].data[x] = IF x < n \/ Reversed(x, n) < n THEN data[Reversed(x, n)] ELSE data[x]
  BY <1>1, <1>3, ExchangesPairs
<1>5. \A x \in 0 .. n - 1 : x < n
  BY <1>1
<1>6. \A x \in 0 .. n - 1 : b[n].data[x] = data[Reversed(x, n)]
  BY <1>4, <1>5
<1> QED
  BY <1>3, <1>4, <1>6 DEF IsBuffer

---------------------------------------------------------------------------
\* One pass of butterflies.

Recurrence(f, i) ==
    f = [j \in 0 .. i - 1 |->
            IF j = 0 THEN 1 ELSE ((UnitRoot(2 * i) - 1) * f[j - 1] + f[j - 1]) % Modulus]

\* The factors of a pass are the powers of its root of unity.
LEMMA FactorsAreRoots ==
    ASSUME NEW i \in {1, 2, 4, 8}, NEW j \in 0 .. i - 1
    PROVE  Factors(i)[j] = Root(j * (8 \div i))
<1> DEFINE s == 8 \div i
           w == UnitRoot(2 * i)
           R == [x \in 0 .. i - 1 |-> Root(x * s)]
<1>1. i \in Nat /\ i > 0 /\ s \in 1 .. 8 /\ w = Root(s) /\ w \in 0 .. 16 /\ Root(0) = 1
  <2>1. i \in Nat /\ i > 0 /\ s \in 1 .. 8 /\ w = Power[s] /\ s % 16 = s
    BY DEF UnitRoot, Order, Modulus
  <2> HIDE DEF s, w
  <2>2. w \in 0 .. 16 /\ Root(0) = 1 /\ w = Root(s)
    BY <2>1, PowerFacts DEF Root
  <2> QED
    BY <2>1, <2>2
<1> HIDE DEF s, w
<1>2. ASSUME NEW x \in 1 .. i - 1
      PROVE  Root(x * s) = ((w - 1) * Root((x - 1) * s) + Root((x - 1) * s)) % 17
  <2>1. x \in Nat /\ x - 1 \in Nat /\ s \in Nat /\ x * s = s + (x - 1) * s /\ (x - 1) * s \in Nat
    BY <1>1
  <2>2. Root(x * s) = (w * Root((x - 1) * s)) % 17 /\ Root((x - 1) * s) \in Int
    <3>1. Root(s + (x - 1) * s) = (Root(s) * Root((x - 1) * s)) % 17
      BY <2>1, RootOfSum
    <3>2. Root((x - 1) * s) \in Int
      BY <2>1, RootFacts
    <3> QED
      BY <1>1, <2>1, <3>1, <3>2
  <2>3. (w - 1) * Root((x - 1) * s) + Root((x - 1) * s) = w * Root((x - 1) * s)
    BY <1>1, <2>2
  <2> QED
    BY <2>2, <2>3
<1>3. Recurrence(R, i)
  <2>1. \A x \in 0 .. i - 1 :
           R[x] = IF x = 0 THEN 1 ELSE ((w - 1) * R[x - 1] + R[x - 1]) % 17
    <3> SUFFICES ASSUME NEW x \in 0 .. i - 1
                 PROVE  R[x] = IF x = 0 THEN 1 ELSE ((w - 1) * R[x - 1] + R[x - 1]) % 17
      OBVIOUS
    <3>1. CASE x = 0
      <4>1. 0 * s = 0
        BY <1>1
      <4> QED
        BY <1>1, <3>1, <4>1
    <3>2. CASE x # 0
      <4>1. x \in 1 .. i - 1 /\ x - 1 \in 0 .. i - 1
        BY <1>1, <3>2
      <4>2. R[x] = Root(x * s) /\ R[x - 1] = Root((x - 1) * s)
        BY <4>1
      <4> HIDE DEF R
      <4> QED
        BY <1>2, <3>2, <4>1, <4>2
    <3> QED
      BY <3>1, <3>2
  <2>2. R = [x \in 0 .. i - 1 |-> R[x]]
    OBVIOUS
  <2> HIDE DEF R
  <2> QED
    BY <2>1, <2>2 DEF Recurrence, w, Modulus
<1>4. Factors(i) = CHOOSE f : Recurrence(f, i)
  BY DEF Factors, Recurrence
<1>5. PICK f : f = Factors(i) /\ Recurrence(f, i)
  BY <1>3, <1>4
<1> DEFINE Good == {x \in Nat : x < i => f[x] = Root(x * s)}
<1>6. 0 \in Good
  <2>1. 0 * s = 0 /\ 0 \in 0 .. i - 1
    BY <1>1
  <2> QED
    BY <1>1, <1>5, <2>1 DEF Recurrence
<1>7. ASSUME NEW x \in Nat, x \in Good PROVE x + 1 \in Good
  <2> SUFFICES ASSUME x + 1 < i PROVE f[x + 1] = Root((x + 1) * s)
    OBVIOUS
  <2>1. x < i /\ x + 1 \in 0 .. i - 1 /\ x + 1 # 0 /\ x + 1 - 1 = x /\ x + 1 \in 1 .. i - 1
    BY <1>1
  <2>2. f[x + 1] = ((w - 1) * f[x] + f[x]) % 17
    BY <1>5, <2>1 DEF Recurrence, w, Modulus
  <2>3. f[x] = Root(x * s)
    BY <1>7, <2>1
  <2>4. Root((x + 1) * s) = ((w - 1) * Root(x * s) + Root(x * s)) % 17
    BY <1>2, <2>1
  <2> QED
    BY <2>2, <2>3, <2>4
<1> HIDE DEF Good
<1>8. Nat \subseteq Good
  BY <1>6, <1>7, NumberInduction
<1>9. j \in Nat /\ j < i
  BY <1>1
<1> QED
  BY <1>5, <1>8, <1>9 DEF Good, s

(* Every block of i places holds the transform of every m-th sample.         *)
Transformed(D, data, i, m) ==
    \A b \in 0 .. m - 1, k \in 0 .. i - 1 :
        D[i * b + k] = Strided(data, i, m, Reversed(b, m), k) % 17

\* What the butterflies of a pass do at both ends of a pair.
Pairs(D, i, m, b, k) ==
    LET x == 2 * i * b + k
        root == Root(k * (8 \div i))
        B == Butterflies(D, 2 * i * m, i)
    IN  /\ B[x] = (D[x] + D[x + i] * root) % 17
        /\ B[x + i] = (D[x] - D[x + i] * root) % 17

\* The pairs of a pass do not overlap.
LEMMA ButterflyPair ==
    ASSUME NEW D, NEW i \in {1, 2, 4, 8}, NEW m \in {1, 2, 4, 8},
           NEW b \in 0 .. m - 1, NEW k \in 0 .. i - 1
    PROVE  Pairs(D, i, m, b, k)
<1> DEFINE x == 2 * i * b + k
           root == Root(k * (8 \div i))
           n == 2 * i * m
<1>1. /\ x \in 0 .. n - 1 /\ x + i \in 0 .. n - 1 /\ x + i - i = x
      /\ x % (2 * i) = k /\ (x + i) % (2 * i) = k + i
      /\ x % i = k /\ (x + i) % i = k /\ k < i /\ ~(k + i < i)
  <2>1. CASE i = 1
    BY <2>1
  <2>2. CASE i = 2
    BY <2>2
  <2>3. CASE i = 4
    BY <2>3
  <2>4. CASE i = 8
    BY <2>4
  <2> QED
    BY <2>1, <2>2, <2>3, <2>4
<1>2. Factors(i)[k] = root
  BY FactorsAreRoots
<1> HIDE DEF x, n, root
<1>3. Butterflies(D, n, i) =
         [y \in 0 .. n - 1 |->
            IF y % (2 * i) < i THEN (D[y] + D[y + i] * Factors(i)[y % i]) % 17
            ELSE (D[y - i] - D[y] * Factors(i)[y % i]) % 17]
  BY DEF Butterflies, fftTransformHelper, Modulus
<1>4. Butterflies(D, n, i)[x] = (D[x] + D[x + i] * root) % 17
  BY <1>1, <1>2, <1>3
<1>5. Butterflies(D, n, i)[x + i] = (D[x] - D[x + i] * root) % 17
  BY <1>1, <1>2, <1>3
<1> QED
  BY <1>4, <1>5 DEF x, n, root, Pairs

\* A pass joins the transforms of pairs of blocks.
LEMMA PassJoins ==
    ASSUME NEW D, NEW data, NEW i \in {1, 2, 4, 8}, NEW m \in {1, 2, 4, 8},
           \A x \in 0 .. 2 * i * m - 1 : data[x] \in Int,
           Transformed(D, data, i, 2 * m)
    PROVE  Transformed(Butterflies(D, 2 * i * m, i), data, 2 * i, m)
<1> SUFFICES ASSUME NEW b \in 0 .. m - 1, NEW kk \in 0 .. 2 * i - 1
             PROVE  Butterflies(D, 2 * i * m, i)[2 * i * b + kk] =
                       Strided(data, 2 * i, m, Reversed(b, m), kk) % 17
  BY DEF Transformed
<1>1. PICK k \in 0 .. i - 1 : kk = k \/ kk = k + i
  <2>1. kk \in 0 .. i - 1 \/ (kk - i \in 0 .. i - 1 /\ kk = kk - i + i)
    OBVIOUS
  <2> QED
    BY <2>1
<1> DEFINE o == Reversed(b, m)
           x == 2 * i * b + k
           even == Strided(data, i, 2 * m, o, k)
           odd == Strided(data, i, 2 * m, o + m, k)
           root == Root(k * (8 \div i))
<1>2. /\ o \in 0 .. m - 1 /\ i \in Nat /\ m \in Nat /\ o \in Nat
      /\ 2 * b \in 0 .. 2 * m - 1 /\ 2 * b + 1 \in 0 .. 2 * m - 1
      /\ Reversed(2 * b, 2 * m) = o /\ Reversed(2 * b + 1, 2 * m) = o + m
  BY ReversedFacts, ReversedDoubles DEF PowersOfTwo
<1>3. i * (2 * b) + k = x /\ i * (2 * b + 1) + k = x + i
  BY <1>2
<1>4. D[x] = even % 17 /\ D[x + i] = odd % 17
  BY <1>2, <1>3 DEF Transformed
<1>5. \A j \in 0 .. 2 * i - 1 : data[j * m + o] \in Int
  <2> SUFFICES ASSUME NEW j \in 0 .. 2 * i - 1 PROVE j * m + o \in 0 .. 2 * i * m - 1
    OBVIOUS
  <2>1. j * m \in Nat /\ j * m <= (2 * i - 1) * m /\ (2 * i - 1) * m = 2 * i * m - m
    BY <1>2
  <2>2. 2 * i * m \in Nat
    BY <1>2
  <2> QED
    BY <1>2, <2>1, <2>2
<1>6. /\ even \in Int /\ odd \in Int
      /\ Strided(data, 2 * i, m, o, k) % 17 = (even + root * odd) % 17
      /\ Strided(data, 2 * i, m, o, k + i) % 17 = (even - root * odd) % 17
  <2>1. m \in Nat /\ o \in Nat
    BY <1>2
  <2> HIDE DEF o
  <2>2. Splits(data, i, m, o, k)
    BY <1>5, <2>1, StridedSplits
  <2> QED
    BY <2>2 DEF Splits
<1>7. /\ Butterflies(D, 2 * i * m, i)[x] = (D[x] + D[x + i] * root) % 17
      /\ Butterflies(D, 2 * i * m, i)[x + i] = (D[x] - D[x + i] * root) % 17
  <2>1. Pairs(D, i, m, b, k)
    BY ButterflyPair
  <2> QED
    BY <2>1 DEF Pairs
<1>8. root \in Int
  <2>1. k * (8 \div i) \in Nat
    BY <1>2
  <2> QED
    BY <2>1, RootFacts
<1> HIDE DEF x, even, odd, root, o
<1>9. /\ ((even % 17) + (odd % 17) * root) % 17 = (even + root * odd) % 17
      /\ ((even % 17) - (odd % 17) * root) % 17 = (even - root * odd) % 17
  <2>1. ((even % 17) + (odd % 17) * root) % 17 = ((odd % 17) * root + even) % 17
        /\ odd % 17 \in Int /\ even % 17 \in Int /\ root * odd \in Int /\ (odd % 17) * root \in Int
    <3>1. odd % 17 \in Int /\ even % 17 \in Int
      BY <1>6
    <3>2. root * odd \in Int /\ (odd % 17) * root \in Int
      BY <1>6, <1>8, <3>1
    <3> DEFINE p == (odd % 17) * root
    <3> HIDE DEF p
    <3>3. ((even % 17) + p) % 17 = (p + even) % 17
      BY <1>6, <3>1, <3>2 DEF p
    <3> QED
      BY <3>1, <3>2, <3>3 DEF p
  <2>2. ((odd % 17) * root) % 17 = (root * odd) % 17
    <3>1. (odd % 17) * root = root * (odd % 17)
      BY <1>8, <2>1
    <3> QED
      BY <1>6, <1>8, <3>1, ModFacts
  <2> DEFINE p == (odd % 17) * root
             q == root * odd
  <2>3. p \in Int /\ q \in Int /\ p % 17 = q % 17 /\ even \in Int
    BY <1>6, <2>1, <2>2
  <2> HIDE DEF p, q
  <2>4. ((even % 17) + p) % 17 = (even + q) % 17 /\ ((even % 17) - p) % 17 = (even - q) % 17
    BY <2>3
  <2> QED
    BY <2>4 DEF p, q
<1>10. 2 * i * b + kk = x \/ 2 * i * b + kk = x + i
  BY <1>1, <1>2 DEF x
<1>11. CASE kk = k
  BY <1>4, <1>6, <1>7, <1>9, <1>11 DEF x, o
<1>12. CASE kk = k + i
  <2>1. 2 * i * b + kk = x + i
    BY <1>2, <1>12 DEF x
  <2> QED
    BY <1>4, <1>6, <1>7, <1>9, <1>12, <2>1 DEF o
<1> QED
  BY <1>1, <1>11, <1>12

---------------------------------------------------------------------------
\* All passes.

Passes(a, data, n) ==
    a = [i \in PowersOfTwo \cup {0} |-> IF i = 0 THEN data ELSE Butterflies(a[i \div 2], n, i)]

\* The buffer after each pass, of which the last is left as the transform.
PassesTo(a, data, n, p) ==
    /\ p = a[n \div 2]
    /\ a[0] = data
    /\ \A i \in PowersOfTwo : a[i] = Butterflies(a[i \div 2], n, i)

\* The passes follow each other.
LEMMA MakeTransformIs ==
    ASSUME NEW data, NEW n \in PowersOfTwo
    PROVE  \E a : PassesTo(a, data, n, MakeTransform(data, n))
<1> DEFINE a1 == Butterflies(data, n, 1)
           a2 == Butterflies(a1, n, 2)
           a4 == Butterflies(a2, n, 4)
           a8 == Butterflies(a4, n, 8)
           a16 == Butterflies(a8, n, 16)
           a == [i \in PowersOfTwo \cup {0} |->
                   IF i = 0 THEN data ELSE IF i = 1 THEN a1 ELSE IF i = 2 THEN a2
                   ELSE IF i = 4 THEN a4 ELSE IF i = 8 THEN a8 ELSE a16]
<1>1. Passes(a, data, n)
  <2>1. /\ a[0] = data /\ a[1] = a1 /\ a[2] = a2 /\ a[4] = a4 /\ a[8] = a8 /\ a[16] = a16
        /\ a = [i \in PowersOfTwo \cup {0} |-> a[i]]
        /\ 1 \div 2 = 0 /\ 2 \div 2 = 1 /\ 4 \div 2 = 2 /\ 8 \div 2 = 4 /\ 16 \div 2 = 8
    BY DEF PowersOfTwo
  <2> HIDE DEF a
  <2>2. \A i \in PowersOfTwo \cup {0} : a[i] = IF i = 0 THEN data ELSE Butterflies(a[i \div 2], n, i)
    BY <2>1 DEF PowersOfTwo
  <2> QED
    BY <2>1, <2>2 DEF Passes
<1>2. MakeTransform(data, n) = (CHOOSE f : Passes(f, data, n))[n \div 2]
  BY DEF MakeTransform, Passes
<1>3. PICK f : MakeTransform(data, n) = f[n \div 2] /\ Passes(f, data, n)
  BY <1>1, <1>2
<1>4. f[0] = data /\ \A i \in PowersOfTwo : f[i] = Butterflies(f[i \div 2], n, i)
  BY <1>3 DEF Passes, PowersOfTwo
<1> QED
  BY <1>3, <1>4 DEF PassesTo

\* The transform of one sample is this sample.
LEMMA OneSample ==
    ASSUME NEW n \in PowersOfTwo, NEW data \in [0 .. n - 1 -> Number]
    PROVE  Transformed(Rearranged(data, n), data, 1, n)
<1> SUFFICES ASSUME NEW b \in 0 .. n - 1
             PROVE  Rearranged(data, n)[1 * b + 0] = Strided(data, 1, n, Reversed(b, n), 0) % 17
  BY DEF Transformed
<1> DEFINE o == Reversed(b, n)
           f == Term(data, 1, n, o, 0)
<1>0. o \in 0 .. n - 1
  BY ReversedFacts
<1>1. n \in Nat /\ b \in Nat /\ o \in 0 .. n - 1 /\ 1 * b + 0 = b /\ 0 * n + o = o
      /\ 0 * 0 * (16 \div 1) = 0
  <2> HIDE DEF o
  <2>1. n \in Nat /\ b \in Nat /\ o \in Int
    BY <1>0 DEF PowersOfTwo
  <2>2. 0 * n = 0 /\ 1 * b = b /\ 16 \div 1 = 16 /\ 0 * 0 * 16 = 0
    BY <2>1
  <2> QED
    BY <1>0, <2>1, <2>2
<1>2. data[o] \in 0 .. 16 /\ Rearranged(data, n)[b] = data[o]
  BY <1>1, RearrangedIs DEF Number, Order, Modulus, IsBuffer
<1>3. f[0] = data[o]
  <2>1. f[0] = data[0 * n + o] * Root(0 * 0 * (16 \div 1))
    BY DEF Term
  <2>2. Root(0) = 1
    BY PowerFacts DEF Root
  <2> QED
    BY <1>1, <1>2, <2>1, <2>2
<1>4. SumFunctionOnSet(f, 0 .. 0) = data[o]
  <2> HIDE DEF f, o
  <2>0. 0 \in Nat /\ \A x \in 0 .. 0 : f[x] \in Int
    BY <1>2, <1>3
  <2>1. SumFunctionOnSet(f, 0 .. 0) = f[0] + SumFunctionOnSet(f, 0 .. 0 - 1)
    BY <2>0, SumUpTo
  <2>2. 0 .. 0 - 1 = {}
    OBVIOUS
  <2> QED
    BY <1>2, <1>3, <2>1, <2>2, SumOfNothing
<1>5. Strided(data, 1, n, o, 0) = data[o]
  BY <1>4 DEF Strided
<1>6. data[o] % 17 = data[o]
  BY <1>2
<1> QED
  BY <1>1, <1>2, <1>5, <1>6

\* All samples in one block: the discrete Fourier transform.
LEMMA OneBlock ==
    ASSUME NEW n \in PowersOfTwo, NEW data, NEW D, Transformed(D, data, n, 1),
           D = [x \in 0 .. n - 1 |-> D[x]]
    PROVE  D = DFT(data, n)
<1>1. n \in Nat /\ Reversed(0, 1) = 0
  BY DEF PowersOfTwo, Reversed
<1>2. ASSUME NEW k \in 0 .. n - 1
      PROVE  D[k] = SumFunction([j \in 0 .. n - 1 |->
                        data[j] * Power[(j * k * (Order \div n)) % Order]]) % Modulus
  <2>1. D[n * 0 + k] = Strided(data, n, 1, Reversed(0, 1), k) % 17
    <3>1. 0 \in 0 .. 1 - 1
      OBVIOUS
    <3> QED
      BY <3>1 DEF Transformed
  <2>2. n * 0 + k = k
    BY <1>1
  <2>3. Term(data, n, 1, 0, k) = [j \in 0 .. n - 1 |-> data[j] * Power[(j * k * (16 \div n)) % 16]]
    <3>1. \A j \in 0 .. n - 1 : j * 1 + 0 = j
      BY <1>1
    <3> QED
      BY <3>1 DEF Term, Root
  <2>4. Strided(data, n, 1, 0, k) =
          SumFunction([j \in 0 .. n - 1 |-> data[j] * Power[(j * k * (16 \div n)) % 16]])
    BY <2>3 DEF Strided, SumFunction
  <2>5. D[k] = Strided(data, n, 1, 0, k) % 17
    BY <1>1, <2>1, <2>2
  <2>6. Order = 16 /\ Modulus = 17
    BY DEF Order, Modulus
  <2> QED
    BY <2>4, <2>5, <2>6, Zenon
<1> QED
  BY <1>2 DEF DFT

(* The transform in place, by exchanges of bit-reversed indices, butterflies
   and factors from a recurrence, is the discrete Fourier transform, for all
   data of any power of two up to 16 (rearrangeData and makeTransform,
   fft_impl.hpp:124-244).                                                    *)
THEOREM FFTIsDFT ==
    \A n \in PowersOfTwo : \A data \in [0 .. n - 1 -> Number] : FFT(data, n) = DFT(data, n)
<1> SUFFICES ASSUME NEW n \in PowersOfTwo, NEW data \in [0 .. n - 1 -> Number]
             PROVE  FFT(data, n) = DFT(data, n)
  OBVIOUS
<1> DEFINE A == Rearranged(data, n)
<1>1. FFT(data, n) = MakeTransform(A, n)
  <2>1. copyArray(data, n) = data
    BY DEF copyArray
  <2> QED
    BY <2>1 DEF FFT, FFT_inplace
<1>2. Transformed(A, data, 1, n) /\ IsBuffer(data, n)
  BY OneSample DEF IsBuffer
<1>3. A = [x \in 0 .. n - 1 |-> A[x]]
  BY <1>2, RearrangedIs
<1>4. \A x \in 0 .. n - 1 : data[x] \in Int
  BY DEF Number, Order, Modulus
<1> HIDE DEF A
<1>55. PICK a : PassesTo(a, A, n, MakeTransform(A, n))
  BY MakeTransformIs
<1>5. /\ MakeTransform(A, n) = a[n \div 2]
      /\ a[0] = A
      /\ \A i \in PowersOfTwo : a[i] = Butterflies(a[i \div 2], n, i)
  BY <1>55 DEF PassesTo
<1>6. /\ 1 \div 2 = 0 /\ 2 \div 2 = 1 /\ 4 \div 2 = 2 /\ 8 \div 2 = 4 /\ 16 \div 2 = 8
      /\ {1, 2, 4, 8} \subseteq PowersOfTwo
  BY DEF PowersOfTwo
<1>7. ASSUME NEW i \in {1, 2, 4, 8}, NEW m \in {1, 2, 4, 8}, n = 2 * i * m,
             Transformed(a[i \div 2], data, i, 2 * m)
      PROVE  /\ Transformed(a[i], data, 2 * i, m)
             /\ a[i] = [x \in 0 .. n - 1 |-> a[i][x]]
  <2>1. a[i] = Butterflies(a[i \div 2], n, i)
    BY <1>5, <1>6
  <2>2. Transformed(Butterflies(a[i \div 2], n, i), data, 2 * i, m)
    BY <1>4, <1>7, PassJoins
  <2>3. Butterflies(a[i \div 2], n, i) = [x \in 0 .. n - 1 |-> Butterflies(a[i \div 2], n, i)[x]]
    BY DEF Butterflies
  <2> QED
    BY <2>1, <2>2, <2>3
<1>8. ASSUME NEW p, MakeTransform(A, n) = p, Transformed(p, data, n, 1),
             p = [x \in 0 .. n - 1 |-> p[x]]
      PROVE  FFT(data, n) = DFT(data, n)
  BY <1>1, <1>8, OneBlock
<1>9. CASE n = 1
  <2>1. n \div 2 = 0
    BY <1>9
  <2> QED
    BY <1>2, <1>3, <1>5, <1>8, <1>9, <2>1
<1>10. CASE n = 2
  <2>1. Transformed(a[1], data, 2, 1) /\ a[1] = [x \in 0 .. n - 1 |-> a[1][x]]
    BY <1>2, <1>5, <1>6, <1>7, <1>10
  <2> QED
    BY <1>5, <1>6, <1>8, <1>10, <2>1
<1>11. CASE n = 4
  <2>1. Transformed(a[1], data, 2, 2)
    BY <1>2, <1>5, <1>6, <1>7, <1>11
  <2>2. Transformed(a[2], data, 4, 1) /\ a[2] = [x \in 0 .. n - 1 |-> a[2][x]]
    BY <1>6, <1>7, <1>11, <2>1
  <2> QED
    BY <1>5, <1>6, <1>8, <1>11, <2>2
<1>12. CASE n = 8
  <2>1. Transformed(a[1], data, 2, 4)
    BY <1>2, <1>5, <1>6, <1>7, <1>12
  <2>2. Transformed(a[2], data, 4, 2)
    BY <1>6, <1>7, <1>12, <2>1
  <2>3. Transformed(a[4], data, 8, 1) /\ a[4] = [x \in 0 .. n - 1 |-> a[4][x]]
    BY <1>6, <1>7, <1>12, <2>2
  <2> QED
    BY <1>5, <1>6, <1>8, <1>12, <2>3
<1>13. CASE n = 16
  <2>1. Transformed(a[1], data, 2, 8)
    BY <1>2, <1>5, <1>6, <1>7, <1>13
  <2>2. Transformed(a[2], data, 4, 4)
    BY <1>6, <1>7, <1>13, <2>1
  <2>3. Transformed(a[4], data, 8, 2)
    BY <1>6, <1>7, <1>13, <2>2
  <2>4. Transformed(a[8], data, 16, 1) /\ a[8] = [x \in 0 .. n - 1 |-> a[8][x]]
    BY <1>6, <1>7, <1>13, <2>3
  <2> QED
    BY <1>5, <1>6, <1>8, <1>13, <2>4
<1> QED
  BY <1>9, <1>10, <1>11, <1>12, <1>13 DEF PowersOfTwo
=============================================================================
