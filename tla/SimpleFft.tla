----------------------------- MODULE SimpleFft -----------------------------
(* The forward transform of client/include/simple_fft in one dimension: the
   permutation by reversed bits and the butterflies, in place.

   What makes the algorithm right is that the factors are powers of a root of
   unity, not that they are floats on the unit circle.  So the numbers are the
   integers modulo 17, where 3 has order 16 and takes the place of
   exp(-2 pi i / 16): every computation is exact, for sizes up to 16.        *)
EXTENDS Integers, FiniteSetsExt, Functions

Modulus == 17
Order == Modulus - 1
Number == 0 .. Order

Power[e \in 0 .. Order] == IF e = 0 THEN 1 ELSE (3 * Power[e - 1]) % Modulus

\* A primitive n-th root of unity, for n dividing Order.
UnitRoot(n) == Power[Order \div n]

\* The masks of the bits of an index below n, for n a power of two.
PowersOfTwo == {1, 2, 4, 8, 16}
Masks(n) == {m \in PowersOfTwo : m < n}

HasBit(t, mask) == (t \div mask) % 2 = 1

\* num && !(num & (num - 1)), for numbers of five bits.
isPowerOfTwo(num) ==
    num # 0 /\ ~\E mask \in PowersOfTwo : HasBit(num, mask) /\ HasBit(num - 1, mask)

---------------------------------------------------------------------------
(* target_index is a counter with its bits reversed: the leading ones are
   dropped and the first zero is set.                                        *)
NextTarget(t, n) ==
    LET zeros == {m \in Masks(n) : ~HasBit(t, m)}
    IN  IF zeros = {} THEN 0 ELSE (t % Max(zeros)) + Max(zeros)

bufferExchangeHelper(data, i, j) == [data EXCEPT ![i] = data[j], ![j] = data[i]]

RearrangedTwice(data, n) ==   \* mutant: every pair is exchanged back again
    LET before[i \in 0 .. n] ==
            IF i = 0 THEN [data |-> data, target_index |-> 0]
            ELSE LET b == before[i - 1]
                 IN  [data |-> bufferExchangeHelper(b.data, b.target_index, i - 1),
                      target_index |-> NextTarget(b.target_index, n)]
    IN  before[n].data
\* before[i] is the state in which iteration i begins.
Rearranged(data, n) ==
    LET before[i \in 0 .. n] ==
            IF i = 0 THEN [data |-> data, target_index |-> 0]
            ELSE LET b == before[i - 1]
                 IN  [data |-> IF b.target_index > i - 1
                               THEN bufferExchangeHelper(b.data, b.target_index, i - 1)
                               ELSE b.data,
                      target_index |-> NextTarget(b.target_index, n)]
    IN  before[n].data

\* The factors of one pass, by the recurrence factor = mult * factor + factor.
Factors(i) ==
    LET mult == UnitRoot(2 * i) - 1
        factor[j \in 0 .. i - 1] ==
            IF j = 0 THEN 1 ELSE (mult * factor[j - 1] + factor[j - 1]) % Modulus
    IN  factor

\* The new values of the pair at k and match.
fftTransformHelper(data, match, k, factor) ==
    LET product == data[match] * factor
    IN  [k |-> (data[k] + product) % Modulus, match |-> (data[k] - product) % Modulus]

\* One pass: pairs at distance i are disjoint, so their order is immaterial.
Butterflies(data, n, i) ==
    LET factor == Factors(i)
    IN  [x \in 0 .. n - 1 |->
            IF x % (2 * i) < i
            THEN fftTransformHelper(data, x + i, x, factor[x % i]).k
            ELSE fftTransformHelper(data, x, x - i, factor[x % i]).match]

MakeTransform(data, n) ==
    LET after[i \in PowersOfTwo \cup {0}] ==
            IF i = 0 THEN data
            ELSE Butterflies(after[i \div 2], n, i)
    IN  after[n \div 2]

checkNumElements(n) == isPowerOfTwo(n)

FFT_inplace(data, n) == MakeTransform(Rearranged(data, n), n)

copyArray(data, n) == [i \in 0 .. n - 1 |-> data[i]]

\* Not in place: the piece of the song is left as it is.
FFT(data, n) == FFT_inplace(copyArray(data, n), n)

---------------------------------------------------------------------------
\* Reference: the definition of the discrete Fourier transform.
DFT(data, n) ==
    [k \in 0 .. n - 1 |->
        SumFunction([j \in 0 .. n - 1 |->
            data[j] * Power[(j * k * (Order \div n)) % Order]]) % Modulus]
=============================================================================
