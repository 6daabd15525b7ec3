---------------------------- MODULE MCLightShow ----------------------------
(* LightShow with three lines of the sixteen, and two kinds of songs: short ones
   with every succession of two levels, at rates that give pieces of 1, 2, 3
   and 5 samples; and longer ones of a single impulse, in pieces of 8, 9 and
   16.  The edges are chosen so that bins of the last lie on them.           *)
EXTENDS LightShow

ThreeBands == <<0, 30, 60, 100>>

ShortSongs ==
    {[rate |-> r, samples |-> s] :
        r \in {0, 29, 30, 60, 90, 150},
        s \in UNION {[0 .. n - 1 -> {0, 1}] : n \in {0, 2, 3, 4, 5, 6}}}

Impulse(n, i) == [x \in 0 .. n - 1 |-> IF x = i THEN 5 ELSE 0]
LongSongs ==
    {[rate |-> r, samples |-> Impulse(16, i)] : r \in {240, 270, 480}, i \in 0 .. 15}

\* Just too low and just high enough for one pixel, just too low for eight, and,
\* but for the clamp, high enough for nine.
MCLevels == {6, 7, 93, 130}

MCSongs == ShortSongs \cup LongSongs
=============================================================================
