-------------------------------- MODULE Fractions ------------------------------
(* Exact numbers where the code has doubles.  A number is a whole part and a   *)
(* part of one, so that a day of frames times a rate of 60000/1001 still fits  *)
(* the checker's integers.  A ratio is a pair of positive naturals.            *)
EXTENDS Integers

Gcd[a \in Nat, b \in Nat] == IF b = 0 THEN a ELSE Gcd[b, a % b]

\* w + n/d, for any n and a positive d.
Number(w, n, d) ==
    LET g == Gcd[n % d, d]
    IN [whole |-> w + n \div d, part |-> <<(n % d) \div g, d \div g>>]

Whole(w) == Number(w, 0, 1)

IsWhole(x) == x.part[1] = 0

Negative(x) == Number(-x.whole, -x.part[1], x.part[2])

Add(x, y) ==
    LET g == Gcd[x.part[2], y.part[2]]
    IN Number(x.whole + y.whole,
              x.part[1] * (y.part[2] \div g) + y.part[1] * (x.part[2] \div g),
              x.part[2] * (y.part[2] \div g))

Sub(x, y) == Add(x, Negative(y))

Less(x, y) == Sub(x, y).whole < 0

Magnitude(x) == IF x.whole < 0 THEN Negative(x) ELSE x

Ratio(p, q) == LET g == Gcd[p, q] IN <<p \div g, q \div g>>

Over(r, s) ==
    LET a == Ratio(r[1], s[1])
        b == Ratio(s[2], r[2])
    IN Ratio(a[1] * b[1], a[2] * b[2])

\* x times the ratio r, cancelled first against the denominator of the part.
ScalePositive(x, r) ==
    LET p == Ratio(r[1], x.part[2])
    IN Add(Number((x.whole \div r[2]) * r[1], (x.whole % r[2]) * r[1], r[2]),
           Number(0, x.part[1] * p[1], p[2] * r[2]))

Scale(x, r) == IF x.whole < 0 THEN Negative(ScalePositive(Negative(x), r)) ELSE ScalePositive(x, r)

Floor(x) == x.whole

Ceil(x) == IF IsWhole(x) THEN x.whole ELSE x.whole + 1

\* std::round: halves away from zero.
Round(x) ==
    IF 2 * x.part[1] > x.part[2] \/ (2 * x.part[1] = x.part[2] /\ x.whole >= 0)
    THEN x.whole + 1 ELSE x.whole

\* The first k decimals of n/d, as a number, and what is left of n.
Decimals(n, d, k) ==
    LET step[i \in 0..k] ==
            IF i = 0 THEN <<0, n>>
            ELSE LET s == step[i - 1] IN <<s[1] * 10 + (s[2] * 10) \div d, (s[2] * 10) % d>>
    IN step[k]
================================================================================
