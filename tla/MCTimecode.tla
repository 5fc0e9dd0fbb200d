------------------------------- MODULE MCTimecode ------------------------------
(* Timecode for TLC: frames on either side of the places where counting is     *)
(* hard, at SMPTE rates and at rates people write for them.                    *)
EXTENDS Timecode

Ntsc24 == <<24000, 1001>>
Ntsc30 == <<30000, 1001>>
Ntsc60 == <<60000, 1001>>
About30 == <<2997, 100>>

\* The first minute, the tenth, the hour and the day of each rate.
Edges(rate, drop) ==
    LET fps == NominalFps(rate)
        missing == IF drop THEN Dropped(rate) ELSE 0
    IN {0, 60 * fps, 120 * fps - missing, 600 * fps - 9 * missing,
        3600 * fps - 54 * missing, FramesPer24Hours(rate, drop)}

MCStarts ==
    {Frames(n - 2, rate) : n \in Edges(<<24, 1>>, FALSE), rate \in {<<24, 1>>, Ntsc24}}
        \cup {Frames(n - 2, <<25, 1>>) : n \in Edges(<<25, 1>>, FALSE)}
        \cup {Frames(n - 2, rate) : n \in Edges(Ntsc30, TRUE), rate \in {Ntsc30, About30}}
        \cup {Frames(n - 2, Ntsc60) : n \in Edges(Ntsc60, TRUE)}
        \cup {Frames(FramesPer24Hours(<<48000, 1001>>, FALSE) - 2, <<48000, 1001>>)}

\* Labels that are dropped, that are past the hour, with too many frames, and none.
MCTyped ==
    {Label(drop, f) : drop \in BOOLEAN,
     f \in {<<0, 1, 0, 0>>, <<0, 10, 0, 0>>, <<1, 60, 75, 2>>, <<0, 0, 0, 29>>, <<>>}}

Fields == {Field("number", 1, 500000), Field("number", 61, 0), Field("empty", 0, 0),
           Field("point", 0, 500000), Field("signed", 1, 0), Field("sign", 0, 0), Field("junk", 0, 0)}

MCSpelled ==
    {<<f>> : f \in Fields} \cup {<<f, g>> : f \in Fields, g \in Fields}
        \cup {<<f, Field("number", 59, 0), g>> : f \in Fields, g \in Fields}
        \cup {<<Field("number", 1, 0), Field("number", 1, 0), Field("number", 1, 0), Field("number", 1, 0)>>}

MCRates == {<<24, 1>>, <<25, 1>>, Ntsc24, Ntsc30, Ntsc60, <<47, 2>>, <<100, 1>>}

MCOperands == {Frames(1, <<24, 1>>), Frames(-3, Ntsc30), Frames(2, <<100, 1>>)}

MCTransforms ==
    {TimeTransform(Frames(1, <<24, 1>>), <<2, 1>>, NoRate),
     AppliedToTransform(TimeTransform(Frames(0, <<24, 1>>), <<1, 3>>, <<25, 1>>),
                        TimeTransform(Frames(-1, Ntsc30), <<1, 1>>, NoRate))}
================================================================================
