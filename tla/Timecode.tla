-------------------------------- MODULE Timecode -------------------------------
(* The conversions of opentime between times, SMPTE timecode and time strings, *)
(* and a client that passes each result on to the next conversion.  Rates are  *)
(* ratios and values exact: the rounding of doubles is left out.               *)
EXTENDS RationalTime, Sequences, SequencesExt

CONSTANTS
    Starts,     \* the times a client starts from
    Typed,      \* timecode that users type
    Spelled,    \* time strings that users type
    Rates,      \* the rates it asks for
    Operands,   \* the times it adds and subtracts
    Transforms, \* the transforms it applies
    Span,       \* it counts this many frames on from a start
    Limit       \* it adds to values up to here

VARIABLES
    kind,       \* what the last call returned: a "time", a "label" or a "text"
    current,    \* that result
    outcome     \* ErrorStatus::outcome

vars == <<kind, current, outcome>>

Given(result) == [outcome |-> "OK", result |-> result]
Error(code) == [outcome |-> code, result |-> <<>>]

--------------------------------------------------------------------------------
(* Rates.  The array of SMPTE rates has one slot more than it has rates.       *)

SmpteTimecodeRates ==
    <<<<24000, 1001>>, <<24, 1>>, <<25, 1>>, <<30000, 1001>>, <<30, 1>>, <<48000, 1001>>,
      <<48, 1>>, <<50, 1>>, <<60000, 1001>>, <<60, 1>>, <<0, 1>>>>

IsSmpteTimecodeRate(rate) == \E i \in DOMAIN SmpteTimecodeRates : SmpteTimecodeRates[i] = rate

IsDropframeRate(rate) == rate \in {<<30000, 1001>>, <<60000, 1001>>}

Distance(r, s) == Magnitude(Sub(Number(0, r[1], r[2]), Number(0, s[1], s[2])))

\* The rates that may be asked for.
KnownRates ==
    Rates \cup ToSet(SmpteTimecodeRates) \cup {s.rate : s \in Starts} \cup {o.rate : o \in Operands}

NearestSmpteTimecodeRate ==
    [rate \in KnownRates |->
        LET Nearer(best, r) == IF Less(Distance(rate, r), Distance(rate, best)) THEN r ELSE best
        IN FoldLeft(Nearer, SmpteTimecodeRates[1], SmpteTimecodeRates)]

\* abs(nearest - rate) > 0.1, where abs is that of integers: a difference below one
\* is none.
TooFar(rate, nearest) == Distance(rate, nearest).whole >= 1

NominalFps(rate) == Ceil(Number(0, rate[1], rate[2]))

Dropped(rate) == IF rate = <<30000, 1001>> THEN 2 ELSE 4

--------------------------------------------------------------------------------
(* Timecode: four fields, and ";" before the frames where frames are dropped.  *)

Label(drop, fields) == [drop |-> drop, fields |-> fields]

\* rate and drop as to_timecode has them after snapping to a SMPTE rate.
UsesDropframe(rate, mode) ==
    IF mode = "InferFromRate" THEN IsDropframeRate(rate) ELSE mode = "ForceYes"

\* Where frames are not dropped 24000/1001 counts as 24; other rates keep theirs.
CountingRate(rate, drop) ==
    IF ~drop /\ Round(Number(0, rate[1], rate[2])) = 24 THEN <<24, 1>> ELSE rate

FramesIn(seconds, rate) == Round(Scale(Whole(seconds), rate))

FramesPer24Hours(rate, drop) == 24 * FramesIn(3600, CountingRate(rate, drop))

\* Mutant: every minute that has begun drops its labels, and so does every tenth.
LabelNumber_TenMinutes(n, rate) ==
    n + Dropped(rate) * (n \div (NominalFps(rate) * 60 - Dropped(rate)))

\* The number of the label of frame n of a day: n and the labels dropped so far.
LabelNumber(n, rate) ==
    LET chunks == n \div FramesIn(600, rate)
        over == n % FramesIn(600, rate)
        drop == Dropped(rate)
        perMinute == NominalFps(rate) * 60 - drop
    IN n + drop * 9 * chunks + (IF over > drop THEN drop * ((over - drop) \div perMinute) ELSE 0)

FieldsOf(number, fps) ==
    LET seconds == number \div fps
    IN <<seconds \div 3600, (seconds \div 60) % 60, seconds % 60, number % fps>>

ToTimecode(t, asked, mode) ==
    LET frames == ValueRescaledTo(t, asked)
        nearest == NearestSmpteTimecodeRate[asked]
        drop == UsesDropframe(nearest, mode)
        rate == CountingRate(nearest, drop)
        n == Floor(frames) % FramesPer24Hours(nearest, drop)
    IN IF frames.whole < 0 THEN Error("NEGATIVE_VALUE")
       ELSE IF TooFar(asked, nearest) THEN Error("INVALID_TIMECODE_RATE")
       ELSE IF mode = "ForceYes" /\ ~IsDropframeRate(nearest)
            THEN Error("INVALID_RATE_FOR_DROP_FRAME_TIMECODE")
       ELSE Given(Label(drop, FieldsOf(IF drop THEN LabelNumber(n, rate) ELSE n, NominalFps(rate))))

\* With an error status: whatever the first call says, the nearest rate is used.
ToNearestTimecode(t, rate, mode) == ToTimecode(t, NearestSmpteTimecodeRate[rate], mode)

\* Mutant: the first minute of every ten is not made up for.
FromTimecode_EveryMinute(label, rate) ==
    LET f == label.fields
        minutes == f[1] * 60 + f[2]
    IN IF ~IsSmpteTimecodeRate(rate) THEN Error("INVALID_TIMECODE_RATE")
       ELSE IF label.drop /\ ~IsDropframeRate(rate)
            THEN Error("INVALID_RATE_FOR_DROP_FRAME_TIMECODE")
       ELSE IF f = <<>> THEN Error("INVALID_TIMECODE_STRING")
       ELSE IF f[4] >= NominalFps(rate) THEN Error("TIMECODE_RATE_MISMATCH")
       ELSE Given(Frames((minutes * 60 + f[3]) * NominalFps(rate) + f[4]
                             - (IF label.drop THEN Dropped(rate) * minutes ELSE 0), rate))

\* What was typed may be no timecode; then it has no fields.
FromTimecode(label, rate) ==
    LET f == label.fields
        minutes == f[1] * 60 + f[2]
        missing == IF label.drop THEN Dropped(rate) * (minutes - minutes \div 10) ELSE 0
    IN IF ~IsSmpteTimecodeRate(rate) THEN Error("INVALID_TIMECODE_RATE")
       ELSE IF label.drop /\ ~IsDropframeRate(rate)
            THEN Error("INVALID_RATE_FOR_DROP_FRAME_TIMECODE")
       ELSE IF f = <<>> THEN Error("INVALID_TIMECODE_STRING")
       ELSE IF f[4] >= NominalFps(rate) THEN Error("TIMECODE_RATE_MISMATCH")
       ELSE Given(Frames((minutes * 60 + f[3]) * NominalFps(rate) + f[4] - missing, rate))

--------------------------------------------------------------------------------
(* Time strings: fields between colons, hours first.  A field is a number of   *)
(* seconds, minutes or hours, or one of the other things that may stand there: *)
(* nothing ("empty"), a number that starts with its point ("point"), a sign    *)
(* and a number ("signed"), a sign alone ("sign"), anything else ("junk").     *)

Field(form, whole, micros) == [form |-> form, whole |-> whole, micros |-> micros]

\* How many zeros follow the point of n/d.
LeadingZeros(n, d) == CHOOSE k \in 0..9 : Decimals(n, d, k)[1] = 0 /\ Decimals(n, d, k + 1)[1] > 0

\* n/d to k decimals, rounded.
Rounded(n, d, k) ==
    LET cut == Decimals(n, d, k) IN IF 2 * cut[2] >= d THEN cut[1] + 1 ELSE cut[1]

\* The fraction is printed with seven significant digits, less its first character,
\* and cut after six more.  Below 1/10000 that is a mantissa with an exponent: what
\* is left of it reads as a fraction where it has all its digits, and else has an e.
SecondsField(seconds, n, d) ==
    LET zeros == LeadingZeros(n, d)
        digits == Rounded(n, d, zeros + 7)
        micros == digits \div 10^(zeros + 1)
    IN IF n = 0 THEN Field("number", seconds, 0)
       ELSE IF zeros < 4 THEN Field("number", seconds, micros % 1000000)
       ELSE IF digits % 10 # 0 THEN Field("number", seconds, digits % 1000000)
       ELSE Field("junk", 0, 0)

ToTimeString(t) ==
    LET s == Magnitude(ToSeconds(t))
        day == s.whole % 86400
    IN <<Field(IF t.value.whole < 0 THEN "signed" ELSE "number", day \div 3600, 0),
         Field("number", (day % 3600) \div 60, 0),
         SecondsField(day % 60, s.part[1], s.part[2])>>

\* What parseFloat makes of field i, after the scan for characters that are no digits:
\* the scan passes over the last one of the first field.
Readable(text, i) ==
    LET f == text[i]
    IN IF i = 1
       THEN \/ f.form \in {"number", "point"}
            \/ f.form = "empty"
            \/ f.form = "sign" /\ Len(text) > 1
       ELSE f.form = "number" /\ f.whole < 60

FromTimeString(text, rate) ==
    LET Seconds(f) == Number(f.whole, f.micros, 1000000)
        power == <<3600, 60, 1>>
        total == FoldLeftDomain(
                    LAMBDA sum, i : Add(sum, Scale(Seconds(text[i]), <<power[3 - Len(text) + i], 1>>)),
                    Whole(0), text)
    IN IF ~IsSmpteTimecodeRate(rate) THEN Error("INVALID_TIMECODE_RATE")
       ELSE IF Len(text) > 3 \/ \E i \in DOMAIN text : ~Readable(text, i)
            THEN Error("INVALID_TIME_STRING")
       ELSE Given(FromSeconds(total, rate))

--------------------------------------------------------------------------------
(* The client.                                                                 *)

Modes == {"InferFromRate", "ForceNo", "ForceYes"}

Becomes(what, answer) ==
    /\ kind' = what /\ outcome' = answer.outcome
    /\ current' = IF answer.outcome = "OK" THEN answer.result ELSE <<>>

Start ==
    \/ kind = "time" /\ current \in Starts
    \/ kind = "label" /\ current \in Typed
    \/ kind = "text" /\ current \in Spelled

Init == Start /\ outcome = "OK"

Has(what) == kind = what /\ outcome = "OK"

\* The times that calls are made with: small ones, and those just after a start.
Near(t, s) == t.rate = s.rate /\ t.value.whole - s.value.whole \in 0..(Span - 1)

Watched(t) == t.value.whole \in -Limit..Limit \/ \E s \in Starts : Near(t, s)

\* The next frame.
Advance ==
    /\ Has("time") /\ IsWhole(current.value)
    /\ \E s \in Starts : Near(current, s)
    /\ Becomes("time", Given(Plus(current, Frames(1, current.rate))))

Operable == Has("time") /\ IsWhole(current.value) /\ current.value.whole \in -Limit..Limit

Increase == Operable /\ \E o \in Operands : Becomes("time", Given(Plus(current, o)))

Decrease == Operable /\ \E o \in Operands : Becomes("time", Given(Minus(current, o)))

Transform == Operable /\ \E f \in Transforms : Becomes("time", Given(AppliedTo(f, current)))

Rescale == Operable /\ \E r \in Rates : Becomes("time", Given(RescaledTo(current, r)))

ToWhole ==
    /\ Has("time") /\ ~IsWhole(current.value)
    /\ \E t \in {FloorTime(current), CeilTime(current), RoundTime(current)} : Becomes("time", Given(t))

\* The rates a time is shown at: its own, and those at which its value fits the
\* integers of the checker.
Fits(t, rate) == t.rate = rate \/ (IsWhole(t.value) /\ t.value.whole <= 2000000000 \div Over(rate, t.rate)[1])

ShownAt(t) == {t.rate} \cup {r \in Rates : Fits(t, r)}

Show ==
    /\ Has("time") /\ Watched(current)
    /\ \E r \in ShownAt(current), mode \in Modes :
        \/ Becomes("label", ToTimecode(current, r, mode))
        \/ /\ Fits(current, NearestSmpteTimecodeRate[r])
           /\ Becomes("label", ToNearestTimecode(current, r, mode))

Read == Has("label") /\ \E r \in Rates : Becomes("time", FromTimecode(current, r))

\* Only whole numbers of frames, which keeps the fractions of a second small.
Spell == Has("time") /\ Watched(current) /\ IsWhole(current.value) /\ Becomes("text", Given(ToTimeString(current)))

ReadString == Has("text") /\ \E r \in Rates : Becomes("time", FromTimeString(current, r))

\* After an error, or with a time that is far from all others, a client starts again.
StartAgain ==
    /\ outcome # "OK" \/ (Has("time") /\ ~Watched(current))
    /\ \E s \in Starts : Becomes("time", Given(s))

Next ==
    \/ Advance \/ Increase \/ Decrease \/ Transform \/ Rescale \/ ToWhole
    \/ Show \/ Read \/ Spell \/ ReadString \/ StartAgain

Spec == Init /\ [][Next]_vars

--------------------------------------------------------------------------------
(* Properties.                                                                 *)

\* Results are of their kind, an error leaves none, and the labels that to_timecode
\* makes have hours, minutes and seconds of a day.
TypeOK ==
    /\ kind \in {"time", "label", "text"}
    /\ (outcome # "OK") <=> (current = <<>>)
    /\ Has("label") =>
        \/ current \in Typed
        \/ \A i \in 1..4 : current.fields[i] \in 0..<<23, 59, 59, 59>>[i]

\* The value of a label, of whatever rate and mode, is the frame of the day that it
\* was made for: from_timecode undoes to_timecode, dropped labels, rates that are only
\* near a SMPTE rate and the end of a day included.
LabelRoundTrip ==
    Has("time") =>
        \A r \in ShownAt(current), mode \in Modes :
            LET shown == ToTimecode(current, r, mode)
                nearest == NearestSmpteTimecodeRate[r]
                n == Floor(ValueRescaledTo(current, r))
            IN shown.outcome = "OK" =>
                FromTimecode(shown.result, nearest)
                    = Given(Frames(n % FramesPer24Hours(nearest, shown.result.drop), nearest))

\* The label after l, by the rule for drop frame timecode: the first labels of a minute
\* are left out, but for every tenth minute.
Successor(l, fps) ==
    LET f == l.fields
        first == IF l.drop /\ (f[2] + 1) % 10 # 0 THEN fps \div 15 ELSE 0
    IN Label(l.drop,
             IF f[4] + 1 < fps THEN <<f[1], f[2], f[3], f[4] + 1>>
             ELSE IF f[3] < 59 THEN <<f[1], f[2], f[3] + 1, 0>>
             ELSE IF f[2] < 59 THEN <<f[1], f[2] + 1, 0, first>>
             ELSE IF f[1] < 23 THEN <<f[1] + 1, 0, 0, 0>>
             ELSE <<0, 0, 0, 0>>)

\* A rate that is no whole number and does not drop frames ends its day before the last
\* label.
EndsEarly(rate, drop) == CountingRate(rate, drop)[2] # 1 /\ ~drop

\* The labels of one frame and the next follow each other: none is skipped, none comes
\* twice, and the last of the day is followed by the first.
CountsOn ==
    [][Advance =>
        \A mode \in Modes :
            LET shown == ToTimecode(current, current.rate, mode)
                next == ToTimecode(current', current.rate, mode)
                rate == NearestSmpteTimecodeRate[current.rate]
                day == FramesPer24Hours(rate, UsesDropframe(rate, mode))
            IN shown.outcome = "OK" /\ ~(EndsEarly(rate, shown.result.drop) /\ current'.value.whole % day = 0)
                => next.outcome = "OK" /\ next.result = Successor(shown.result, NominalFps(rate))]_vars

\* The time of day, with its fraction of a second to the microsecond.
Spellable(t) ==
    /\ t.value.whole >= 0 /\ IsWhole(t.value) /\ IsSmpteTimecodeRate(t.rate)
    /\ LET part == ToSeconds(t).part IN part[1] = 0 \/ part[1] * 10000 >= part[2]

\* from_time_string gives back the time that to_time_string was given, less whole days,
\* to a small part of a frame (test_time_string).
StringRoundTrip ==
    Has("time") /\ Spellable(current) =>
        LET days == ToSeconds(current).whole \div 86400
            ofDay == RationalTime(Sub(current.value, Scale(Whole(days * 86400), current.rate)), current.rate)
            back == FromTimeString(ToTimeString(current), current.rate)
        IN back.outcome = "OK" /\ AlmostEqual(back.result, ofDay, Number(0, 1, 1000))

\* Sums and differences are those of the seconds, at the higher of the rates; adding is
\* undone by subtracting, is the same from either side, and the durations from a time to
\* its sum end where it does, or a frame after.
ArithmeticIsExact ==
    Operable =>
        \A o \in Operands :
            LET sum == Plus(current, o)
                difference == Minus(current, o)
            IN /\ ToSeconds(sum) = Add(ToSeconds(current), ToSeconds(o))
               /\ ToSeconds(difference) = Sub(ToSeconds(current), ToSeconds(o))
               /\ sum.rate \in {current.rate, o.rate} /\ difference.rate = sum.rate
               /\ ~LowerRate(sum.rate, current.rate) /\ ~LowerRate(sum.rate, o.rate)
               /\ SameTime(Minus(sum, o), current) /\ SameTime(Plus(o, current), sum)
               /\ SameTime(Plus(current, DurationFromStartEnd(current, sum)), sum)
               /\ LET through == DurationFromStartEndInclusive(current, sum)
                  IN SameTime(Plus(current, through), Plus(sum, Frames(1, current.rate)))
               /\ Minus(current, o) = Plus(current, Negated(o))
               /\ Later(sum, current) <=> Later(o, Frames(0, o.rate))

\* Reading what was shown gives back the time that was shown, as timecode in every
\* mode and as a time string.
RoundTrips == TypeOK /\ LabelRoundTrip /\ StringRoundTrip
================================================================================
