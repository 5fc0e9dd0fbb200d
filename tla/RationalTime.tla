------------------------------ MODULE RationalTime -----------------------------
(* opentime: a value at a rate, and arithmetic between rates.  The rate of a   *)
(* result is the higher one of its operands; comparisons compare seconds.      *)
EXTENDS Fractions

RationalTime(value, rate) == [value |-> value, rate |-> rate]

Frames(n, rate) == RationalTime(Whole(n), rate)

LowerRate(r, s) == r[1] * s[2] < s[1] * r[2]

ValueRescaledTo(t, rate) == IF t.rate = rate THEN t.value ELSE Scale(t.value, Over(rate, t.rate))

RescaledTo(t, rate) == RationalTime(ValueRescaledTo(t, rate), rate)

AlmostEqual(t, other, delta) ==
    ~Less(delta, Magnitude(Sub(ValueRescaledTo(t, other.rate), other.value)))

FloorTime(t) == Frames(Floor(t.value), t.rate)
CeilTime(t) == Frames(Ceil(t.value), t.rate)
RoundTime(t) == Frames(Round(t.value), t.rate)

DurationFromStartEnd(start, end) ==
    RationalTime(Sub(ValueRescaledTo(end, start.rate), start.value), start.rate)

DurationFromStartEndInclusive(start, end) ==
    RationalTime(Add(Sub(ValueRescaledTo(end, start.rate), start.value), Whole(1)), start.rate)

FromSeconds(seconds, rate) == RescaledTo(RationalTime(seconds, <<1, 1>>), rate)

ToSeconds(t) == ValueRescaledTo(t, <<1, 1>>)

\* Mutant: the rate of the left operand.
Plus_LeftRate(t, u) ==
    RationalTime(Add(Scale(u.value, Over(t.rate, u.rate)), t.value),
                 IF LowerRate(t.rate, u.rate) THEN u.rate ELSE t.rate)

Plus(t, u) ==
    IF LowerRate(t.rate, u.rate)
    THEN RationalTime(Add(ValueRescaledTo(t, u.rate), u.value), u.rate)
    ELSE RationalTime(Add(ValueRescaledTo(u, t.rate), t.value), t.rate)

Minus(t, u) ==
    IF LowerRate(t.rate, u.rate)
    THEN RationalTime(Sub(ValueRescaledTo(t, u.rate), u.value), u.rate)
    ELSE RationalTime(Sub(t.value, ValueRescaledTo(u, t.rate)), t.rate)

Negated(t) == RationalTime(Negative(t.value), t.rate)

Later(t, u) == Less(ToSeconds(u), ToSeconds(t))

SameTime(t, u) == ValueRescaledTo(t, u.rate) = u.value

\* timeTransform.h: an offset and a scale, and a rate for the result, or NoRate.
NoRate == <<0, 1>>

TimeTransform(offset, scale, rate) == [offset |-> offset, scale |-> scale, rate |-> rate]

AppliedTo(f, t) ==
    LET result == Plus(RationalTime(Scale(t.value, f.scale), t.rate), f.offset)
    IN RescaledTo(result, IF f.rate = NoRate THEN t.rate ELSE f.rate)

AppliedToTransform(f, g) ==
    TimeTransform(Plus(f.offset, g.offset), Ratio(f.scale[1] * g.scale[1], f.scale[2] * g.scale[2]),
                  IF f.rate = NoRate THEN g.rate ELSE f.rate)
================================================================================
