-------------------------------- MODULE MCFlatten --------------------------------
(* Flatten for TLC: three tracks of clips, gaps and transitions.               *)
EXTENDS Flatten

Short1 == Clip("a", TimeRange(5, 1))
Long3 == Clip("b", TimeRange(0, 3))
Dissolve == Transition(<<1, 1>>)
Hole1 == Gap(TimeRange(0, 1))
Hole2 == Gap(TimeRange(0, 2))
Off3 == Disabled(Long3)

Tops == {<<>>, <<Hole1>>, <<Hole1, Short1, Hole2>>, <<Short1, Dissolve, Hole2>>, <<Hole2, Dissolve, Long3>>,
         <<Hole1, Hole1, Long3>>, <<Hole2, Short1, Hole1>>, <<Off3, Short1>>}
Middles == {<<>>, <<Long3>>, <<Hole1, Long3>>, <<Hole2, Short1>>, <<Short1, Hole1, Long3>>, <<Long3, Dissolve, Long3>>,
            <<Short1, Off3, Short1>>, <<Short1, Dissolve>>, <<Dissolve, Short1>>}
Bottoms == {<<>>, <<Long3, Short1>>, <<Off3, Short1>>, <<Hole1, Long3>>, <<Long3, Dissolve, Long3>>,
            <<Short1, Dissolve, Short1, Dissolve, Short1>>, <<Short1, [kind |-> "composable"], Short1>>}

T(kids) == Track(TRUE, kids)
MCStacks ==
    {<<T(b), T(m), T(t)>> : b \in Bottoms, m \in Middles, t \in Tops}
        \cup {<<Track(e, b), Track(f, t)>> : e, f \in BOOLEAN, b \in Bottoms, t \in Tops}
        \cup {<<>>, <<T(<<Long3>>), [kind |-> "clip"]>>}
MCAddresses == 1..7
================================================================================
