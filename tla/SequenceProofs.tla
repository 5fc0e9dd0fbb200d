----------------------------- MODULE SequenceProofs ----------------------------
(* The list-like containers in Python, for lists of any length, any slice and  *)
(* any values: single calls and slices do what they do to a list, and a        *)
(* composition never loses or doubles a child, because an assignment that      *)
(* fails is taken back.                                                        *)
(* The loops of the mixin are recursive functions here; that each of them runs *)
(* to its end, and what holds after each turn, follows from LoopRuns and Rounds.*)
EXTENDS SequenceProtocol, ListLemmas, FiniteSetTheorems

\* What a container may hold.
Proper(k, s) ==
    /\ s \in Seq(Values)
    /\ k = "composition" => IsInjective(s) /\ Range(s) \cap Elsewhere = {}

\* What a call may answer.
Answers(k) == {answer \in [ok : BOOLEAN, list : Seq(Values)] : Proper(k, answer.list)}

LEMMA AnswerIsProper ==
    ASSUME NEW k, NEW s, Proper(k, s)
    PROVE  /\ Done(s) \in Answers(k) /\ Done(s).ok = TRUE /\ Done(s).list = s
           /\ Refused(s) \in Answers(k) /\ Refused(s).ok = FALSE /\ Refused(s).list = s
  BY DEF Done, Refused, Answers, Proper

LEMMA ThenIsProper ==
    ASSUME NEW k, NEW answer \in Answers(k), NEW next, answer.ok => next \in Answers(k)
    PROVE  Then(answer, next) \in Answers(k)
  BY DEF Then

--------------------------------------------------------------------------------
(* The bindings.                                                               *)

LEMMA PositionIsInt ==
    ASSUME NEW k, NEW i \in Int, NEW n \in Int
    PROVE  Position(k, i, n) \in Int /\ Adjusted(i, n) \in Int
  BY DEF Position, Adjusted

LEMMA SetIsProper ==
    ASSUME NEW k, NEW s, Proper(k, s), NEW i \in Int, NEW v \in Values
    PROVE  InternalSet(k, s, i, v) \in Answers(k)
  <1> DEFINE p == Position(k, i, Len(s))
  <1>1. s \in Seq(Values) /\ p \in Int
    BY PositionIsInt DEF Proper
  <1> HIDE DEF p
  <1>2. CASE ~InRange(p, s) \/ (s[p + 1] # v /\ Taken(k, s, v))
    BY <1>2, AnswerIsProper DEF InternalSet, p
  <1>3. CASE InRange(p, s) /\ (s[p + 1] = v \/ ~Taken(k, s, v))
    <2>1. p + 1 \in 1..Len(s)
      BY <1>1, <1>3 DEF InRange
    <2>2. /\ ReplaceAt(s, p + 1, v) \in Seq(Values)
          /\ Range(ReplaceAt(s, p + 1, v)) \subseteq Range(s) \cup {v}
          /\ IsInjective(s) /\ v \notin Range(s) => IsInjective(ReplaceAt(s, p + 1, v))
      BY <1>1, <2>1, ReplaceAtElements
    <2>3. s[p + 1] = v => ReplaceAt(s, p + 1, v) = s /\ v \in Range(s)
      BY <1>1, <2>1 DEF ReplaceAt, Range
    <2>4. Proper(k, ReplaceAt(s, p + 1, v))
      BY <1>3, <2>2, <2>3 DEF Proper, Taken
    <2>5. InternalSet(k, s, i, v) = Done(ReplaceAt(s, p + 1, v))
      BY <1>3 DEF InternalSet, p
    <2> QED BY <2>4, <2>5, AnswerIsProper
  <1> QED BY <1>2, <1>3

LEMMA SetKeepsLength ==
    ASSUME NEW k, NEW s, Proper(k, s), NEW i \in Int, NEW v
    PROVE  Len(InternalSet(k, s, i, v).list) = Len(s)
  <1>1. s \in Seq(Values)
    BY DEF Proper
  <1>2. ASSUME NEW p PROVE Len(ReplaceAt(s, p, v)) = Len(s)
    BY <1>1 DEF ReplaceAt
  <1> QED BY <1>2 DEF InternalSet, Done, Refused

LEMMA AppendIsProper ==
    ASSUME NEW k, NEW s, Proper(k, s), NEW v \in Values, ~Taken(k, s, v)
    PROVE  Proper(k, Append(s, v))
  <1>1. s \in Seq(Values) /\ Append(s, v) \in Seq(Values) /\ DOMAIN s = 1..Len(s) /\ Len(s) \in Nat
    BY DEF Proper
  <1>2. DOMAIN Append(s, v) = 1..(Len(s) + 1) /\ Append(s, v)[Len(s) + 1] = v
        /\ \A j \in 1..Len(s) : Append(s, v)[j] = s[j]
    BY <1>1
  <1>3. Range(Append(s, v)) = Range(s) \cup {v}
    BY <1>1, <1>2 DEF Range
  <1>4. ASSUME IsInjective(s), v \notin Range(s) PROVE IsInjective(Append(s, v))
    BY <1>1, <1>2, <1>4 DEF IsInjective, Range
  <1> QED BY <1>1, <1>3, <1>4 DEF Proper, Taken

LEMMA InsertIsProper ==
    ASSUME NEW k, NEW s, Proper(k, s), NEW i \in Int, NEW v \in Values
    PROVE  InternalInsert(k, s, i, v) \in Answers(k)
  <1> DEFINE p == Position(k, i, Len(s))
             at == IF p < 0 THEN 1 ELSE p + 1
  <1>1. s \in Seq(Values) /\ p \in Int /\ Len(s) \in Nat
    BY PositionIsInt DEF Proper
  <1> HIDE DEF p
  <1>2. CASE Taken(k, s, v)
    BY <1>2, AnswerIsProper DEF InternalInsert
  <1>3. CASE ~Taken(k, s, v) /\ (p >= Len(s) \/ (p < 0 /\ k \in {"any", "proxy"}))
    <2>1. InternalInsert(k, s, i, v) = Done(Append(s, v))
      BY <1>3 DEF InternalInsert, p
    <2> QED BY <1>3, <2>1, AppendIsProper, AnswerIsProper
  <1>4. CASE ~Taken(k, s, v) /\ ~(p >= Len(s) \/ (p < 0 /\ k \in {"any", "proxy"}))
    <2>1. at \in 1..(Len(s) + 1)
      BY <1>1, <1>4
    <2>2. InternalInsert(k, s, i, v) = Done(InsertAt(s, at, v))
      BY <1>4 DEF InternalInsert, p
    <2> HIDE DEF at
    <2>3. Proper(k, InsertAt(s, at, v))
      <3>1. /\ InsertAt(s, at, v) \in Seq(Values)
            /\ Range(InsertAt(s, at, v)) = Range(s) \cup {v}
            /\ IsInjective(s) /\ v \notin Range(s) => IsInjective(InsertAt(s, at, v))
        BY <1>1, <2>1, InsertAtElements
      <3> QED BY <1>4, <3>1 DEF Proper, Taken
    <2> QED BY <2>2, <2>3, AnswerIsProper
  <1> QED BY <1>2, <1>3, <1>4

LEMMA DelIsProper ==
    ASSUME NEW k, NEW s, Proper(k, s), NEW i \in Int
    PROVE  InternalDel(k, s, i) \in Answers(k)
  <1> DEFINE p == Position(k, i, Len(s))
  <1>1. s \in Seq(Values) /\ p \in Int /\ Len(s) \in Nat
    BY PositionIsInt DEF Proper
  <1> HIDE DEF p
  <1>2. CASE s = <<>>
    BY <1>2, AnswerIsProper DEF InternalDel
  <1>3. CASE s # <<>> /\ InRange(p, s)
    <2>1. p + 1 \in 1..Len(s)
      BY <1>1, <1>3 DEF InRange
    <2>2. /\ RemoveAt(s, p + 1) \in Seq(Values)
          /\ Range(RemoveAt(s, p + 1)) \subseteq Range(s)
          /\ IsInjective(s) => IsInjective(RemoveAt(s, p + 1))
      BY <1>1, <2>1, RemoveAtElements
    <2>3. Proper(k, RemoveAt(s, p + 1))
      BY <2>2 DEF Proper
    <2>4. InternalDel(k, s, i) = Done(RemoveAt(s, p + 1))
      BY <1>3 DEF InternalDel, p
    <2> QED BY <2>3, <2>4, AnswerIsProper
  <1>4. CASE s # <<>> /\ ~InRange(p, s)
    <2>1. /\ Front(s) \in Seq(Values) /\ Range(Front(s)) \subseteq Range(s)
          /\ IsInjective(s) => IsInjective(Front(s))
      BY <1>1, <1>4, FrontElements
    <2>2. Proper(k, Front(s))
      BY <2>1 DEF Proper
    <2>3. InternalDel(k, s, i) = Done(Front(s))
      BY <1>4 DEF InternalDel, p
    <2> QED BY <2>2, <2>3, AnswerIsProper
  <1> QED BY <1>2, <1>3, <1>4

--------------------------------------------------------------------------------
(* The loops of the mixin.                                                     *)

\* Calls that keep to the answers of a set A, one after the other, do so too; f[j]
\* is the answer after call j.
Turns(f, s, calls, A) ==
    /\ f \in [0..Len(calls) -> A]
    /\ f[0] = Done(s) /\ InTurn(s, calls) = f[Len(calls)]
    /\ \A j \in 1..Len(calls) : f[j] = Then(f[j - 1], calls[j][f[j - 1].list])

LEMMA InTurnRuns ==
    ASSUME NEW s, NEW calls, Len(calls) \in Nat, NEW A, Done(s) \in A,
           \A x \in A, j \in 1..Len(calls) : x.ok => calls[j][x.list] \in A
    PROVE  \E f : Turns(f, s, calls, A)
  <1> DEFINE n == Len(calls)
             Turn(x, j) == Then(x, calls[j][x.list])
             Loop(f) == f = [j \in 0..n |-> IF j = 0 THEN Done(s) ELSE Turn(f[j - 1], j)]
             h == CHOOSE f : Loop(f)
             G == [j \in 1..n |-> [x \in A |-> Turn(x, j)]]
  <1>1. InTurn(s, calls) = h[n]
    BY DEF InTurn
  <1>2. ASSUME NEW x \in A, NEW j \in 1..n PROVE Turn(x, j) \in A
    BY DEF Then
  <1> HIDE DEF n, Turn
  <1>3. n \in Nat
    BY DEF n
  <1>4. \E f : Loop(f)
    <2>1. G \in [1..n -> [A -> A]]
      BY <1>2
    <2> HIDE DEF G
    <2>2. PICK f : IsLoop(f, n, A, Done(s), G)
      BY <1>3, <2>1, LoopRuns
    <2> USE DEF G
    <2>3. ASSUME NEW j \in 0..n PROVE f[j] = IF j = 0 THEN Done(s) ELSE Turn(f[j - 1], j)
      <3>1. j # 0 => j \in 1..n /\ j - 1 \in 0..n
        BY <1>3
      <3> QED BY <2>2, <3>1 DEF IsLoop
    <2>4. Loop(f)
      BY <2>2, <2>3 DEF IsLoop
    <2> QED BY <2>4
  <1> HIDE DEF Loop, G
  <1>5. Loop(h)
    BY <1>4, Zenon
  <1> HIDE DEF h
  <1>6. /\ h = [j \in 0..n |-> h[j]] /\ h[0] = Done(s)
        /\ \A j \in 1..n : j \in 0..n /\ j - 1 \in 0..n /\ h[j] = Turn(h[j - 1], j)
    BY <1>3, <1>5 DEF Loop
  <1>7. \A j \in 0..n : h[j] \in A
    <2> DEFINE S == {j \in 0..n : h[j] \in A}
    <2>1. 0 \in S
      BY <1>3, <1>6
    <2>2. \A j \in 1..n : j - 1 \in S => j \in S
      BY <1>2, <1>6
    <2> HIDE DEF S
    <2>3. \A j \in 0..n : j \in S
      BY <1>3, <2>1, <2>2, Rounds
    <2> QED BY <2>3 DEF S
  <1>8. h \in [0..n -> A]
    BY <1>6, <1>7
  <1>9. Turns(h, s, calls, A)
    BY <1>1, <1>6, <1>8 DEF Turns, n, Turn
  <1> QED BY <1>9, Zenon

LEMMA DeleteAllIsProper ==
    ASSUME NEW k, NEW s, Proper(k, s), NEW ixs \in Seq(Int)
    PROVE  DeleteAll(k, s, ixs) \in Answers(k)
  <1> DEFINE calls == [j \in 1..Len(ixs) |-> [l \in Lists |-> InternalDel(k, l, ixs[j])]]
             A == Answers(k)
  <1>1. Len(calls) = Len(ixs) /\ Len(ixs) \in Nat
    OBVIOUS
  <1>2. ASSUME NEW x \in A, NEW j \in 1..Len(ixs) PROVE calls[j][x.list] \in A
    <2>1. x.list \in Lists /\ Proper(k, x.list) /\ ixs[j] \in Int
      BY DEF Answers, Lists
    <2>2. calls[j][x.list] = InternalDel(k, x.list, ixs[j])
      BY <2>1
    <2> QED BY <2>1, <2>2, DelIsProper
  <1>3. DeleteAll(k, s, ixs) = InTurn(s, calls) /\ Done(s) \in A
    BY AnswerIsProper DEF DeleteAll
  <1> HIDE DEF calls, A
  <1>4. InTurn(s, calls) \in A
    BY <1>1, <1>2, <1>3, InTurnRuns DEF Turns
  <1> QED BY <1>1, <1>3, <1>4 DEF A

LEMMA InsertAllIsProper ==
    ASSUME NEW k, NEW s, Proper(k, s), NEW start \in Int, NEW items \in Seq(Values)
    PROVE  InsertAll(k, s, start, items) \in Answers(k)
  <1> DEFINE calls == [j \in 1..Len(items) |-> [l \in Lists |->
                          IF k = "any" THEN Refused(l)
                          ELSE InternalInsert(k, l, start + j - 1, items[j])]]
             A == Answers(k)
  <1>1. Len(calls) = Len(items) /\ Len(items) \in Nat
    OBVIOUS
  <1>2. ASSUME NEW x \in A, NEW j \in 1..Len(items) PROVE calls[j][x.list] \in A
    <2>1. x.list \in Lists /\ Proper(k, x.list) /\ items[j] \in Values /\ start + j - 1 \in Int
      BY DEF Answers, Lists
    <2>2. calls[j][x.list] = IF k = "any" THEN Refused(x.list)
                             ELSE InternalInsert(k, x.list, start + j - 1, items[j])
      BY <2>1
    <2> QED BY <2>1, <2>2, InsertIsProper, AnswerIsProper
  <1>3. InsertAll(k, s, start, items) = InTurn(s, calls) /\ Done(s) \in A
    BY AnswerIsProper DEF InsertAll
  <1> HIDE DEF calls, A
  <1>4. InTurn(s, calls) \in A
    BY <1>1, <1>2, <1>3, InTurnRuns DEF Turns
  <1> QED BY <1>1, <1>3, <1>4 DEF A

LEMMA SetAllIsProper ==
    ASSUME NEW k, NEW s, Proper(k, s), NEW ixs \in Seq(Int), NEW items \in Seq(Values),
           Len(items) = Len(ixs)
    PROVE  SetAll(k, s, ixs, items) \in Answers(k)
  <1> DEFINE calls == [j \in 1..Len(ixs) |-> [l \in Lists |->
                          InternalSet(k, l, ixs[j], items[j])]]
             A == Answers(k)
  <1>1. Len(calls) = Len(ixs) /\ Len(ixs) \in Nat
    OBVIOUS
  <1>2. ASSUME NEW x \in A, NEW j \in 1..Len(ixs) PROVE calls[j][x.list] \in A
    <2>1. x.list \in Lists /\ Proper(k, x.list) /\ items[j] \in Values /\ ixs[j] \in Int
      BY DEF Answers, Lists
    <2>2. calls[j][x.list] = InternalSet(k, x.list, ixs[j], items[j])
      BY <2>1
    <2> QED BY <2>1, <2>2, SetIsProper
  <1>3. SetAll(k, s, ixs, items) = InTurn(s, calls) /\ Done(s) \in A
    BY AnswerIsProper DEF SetAll
  <1> HIDE DEF calls, A
  <1>4. InTurn(s, calls) \in A
    BY <1>1, <1>2, <1>3, InTurnRuns DEF Turns
  <1> QED BY <1>1, <1>3, <1>4 DEF A

\* Deleting from a list that is not empty is granted and takes one value away.
LEMMA DelShortens ==
    ASSUME NEW k, NEW s, Proper(k, s), s # <<>>, NEW i \in Int
    PROVE  /\ InternalDel(k, s, i).ok = TRUE
           /\ Len(InternalDel(k, s, i).list) = Len(s) - 1
  <1> DEFINE p == Position(k, i, Len(s))
  <1>1. s \in Seq(Values) /\ p \in Int /\ Len(s) \in Nat /\ Len(s) # 0
    BY PositionIsInt DEF Proper
  <1> HIDE DEF p
  <1>2. CASE InRange(p, s)
    <2>1. p + 1 \in 1..Len(s)
      BY <1>1, <1>2 DEF InRange
    <2>2. Len(RemoveAt(s, p + 1)) = Len(s) - 1
      BY <1>1, <2>1, OneShorter
    <2>3. InternalDel(k, s, i) = Done(RemoveAt(s, p + 1))
      BY <1>2 DEF InternalDel, p
    <2> QED BY <2>2, <2>3 DEF Done
  <1>3. CASE ~InRange(p, s)
    <2>1. Len(Front(s)) = Len(s) - 1
      BY <1>1, OneShorter
    <2>2. InternalDel(k, s, i) = Done(Front(s))
      BY <1>3 DEF InternalDel, p
    <2> QED BY <2>1, <2>2 DEF Done
  <1> QED BY <1>2, <1>3

\* Popping as often as there are values leaves none.
LEMMA EmptiedIsEmpty ==
    ASSUME NEW k, NEW s, Proper(k, s)
    PROVE  Emptied(k, s) = <<>>
  <1> DEFINE n == Len(s)
             ixs == [j \in 1..n |-> -1]
             calls == [j \in 1..Len(ixs) |-> [l \in Lists |-> InternalDel(k, l, ixs[j])]]
             A == Answers(k)
  <1>1. s \in Seq(Values) /\ n \in Nat
    BY DEF Proper
  <1>2. Len(ixs) = n /\ Len(calls) = n
    BY <1>1
  <1>3. \A j \in 1..n : ixs[j] \in Int
    BY <1>1
  <1>4. Emptied(k, s) = InTurn(s, calls).list /\ Done(s) \in A
    BY AnswerIsProper DEF Emptied, DeleteAll
  <1> HIDE DEF ixs, n
  <1>5. ASSUME NEW x \in A, NEW j \in 1..n
        PROVE  /\ calls[j][x.list] \in A
               /\ x.list # <<>> => /\ calls[j][x.list].ok = TRUE
                                   /\ Len(calls[j][x.list].list) = Len(x.list) - 1
    <2>1. x.list \in Lists /\ Proper(k, x.list) /\ ixs[j] \in Int
      BY <1>3 DEF Answers, Lists
    <2>2. calls[j][x.list] = InternalDel(k, x.list, ixs[j])
      BY <1>2, <2>1
    <2>3. calls[j][x.list] \in A
      BY <2>1, <2>2, DelIsProper
    <2>4. ASSUME x.list # <<>>
          PROVE  /\ calls[j][x.list].ok = TRUE
                 /\ Len(calls[j][x.list].list) = Len(x.list) - 1
      <3> DEFINE l == x.list
      <3>1. InternalDel(k, l, ixs[j]).ok = TRUE /\ Len(InternalDel(k, l, ixs[j]).list) = Len(l) - 1
        <4>1. Proper(k, l) /\ l # <<>> /\ ixs[j] \in Int
          BY <2>1, <2>4
        <4> HIDE DEF l
        <4> QED BY <4>1, DelShortens
      <3> HIDE DEF calls
      <3> QED BY <2>2, <3>1
    <2> QED BY <2>3, <2>4
  <1> HIDE DEF calls
  <1>6. PICK f \in [0..n -> A] :
            /\ f[0] = Done(s) /\ InTurn(s, calls) = f[n]
            /\ \A j \in 1..n : f[j] = Then(f[j - 1], calls[j][f[j - 1].list])
    <2>1. Len(calls) \in Nat /\ \A x \in A, j \in 1..Len(calls) : calls[j][x.list] \in A
      BY <1>1, <1>2, <1>5
    <2> HIDE DEF A
    <2>2. PICK f : Turns(f, s, calls, A)
      BY <1>4, <2>1, InTurnRuns
    <2> QED BY <1>2, <2>2 DEF Turns
  <1> DEFINE S == {j \in 0..n : f[j].ok = TRUE /\ Len(f[j].list) = n - j}
  <1>7. 0 \in S
    <2>1. f[0].ok = TRUE /\ f[0].list = s
      BY <1>6 DEF Done
    <2>2. Len(f[0].list) = n - 0 /\ 0 \in 0..n
      BY <1>1, <2>1 DEF n
    <2> QED BY <2>1, <2>2
  <1>8. ASSUME NEW j \in 1..n, j - 1 \in S PROVE j \in S
    <2> DEFINE x == f[j - 1]
    <2>1. x \in A /\ x.ok = TRUE /\ Len(x.list) = n - (j - 1) /\ f[j] = Then(x, calls[j][x.list])
      BY <1>1, <1>6, <1>8
    <2> HIDE DEF x
    <2>2. x.list # <<>>
      BY <1>1, <2>1
    <2>3. f[j].ok = TRUE /\ Len(f[j].list) = (n - (j - 1)) - 1
      BY <1>5, <2>1, <2>2 DEF Then
    <2> QED BY <1>1, <2>3
  <1> HIDE DEF S
  <1>9. n \in S
    <2>1. \A j \in 0..n : j \in S
      BY <1>1, <1>7, <1>8, Rounds
    <2> QED BY <1>1, <2>1
  <1>10. InTurn(s, calls).list \in Seq(Values) /\ Len(InTurn(s, calls).list) = 0
    BY <1>1, <1>6, <1>9 DEF S, Answers
  <1> QED BY <1>4, <1>10

\* Extending an empty composition with children that may be in one gives them all.
LEMMA ExtendedIsWhole ==
    ASSUME NEW k, NEW before, Proper(k, before)
    PROVE  Extended(k, <<>>, before) = before
  <1> DEFINE n == Len(before)
             calls == [j \in 1..n |-> [l \in Lists |-> InternalInsert(k, l, Len(l), before[j])]]
             A == Answers(k)
             part(j) == SubSeq(before, 1, j)
  <1>1. before \in Seq(Values) /\ n \in Nat /\ Len(calls) = n
    BY DEF Proper
  <1>2. Extended(k, <<>>, before) = InTurn(<<>>, calls).list
    BY DEF Extended
  <1>3. Done(<<>>) \in A
    <2>1. Proper(k, <<>>)
      BY DEF Proper, IsInjective, Range
    <2> QED BY <2>1, AnswerIsProper
  <1>4. ASSUME NEW x \in A, NEW j \in 1..n
        PROVE  /\ calls[j][x.list] \in A
               /\ calls[j][x.list] = InternalInsert(k, x.list, Len(x.list), before[j])
    <2>1. x.list \in Lists /\ Proper(k, x.list) /\ before[j] \in Values /\ Len(x.list) \in Int
      BY <1>1 DEF Answers, Lists
    <2>2. calls[j][x.list] = InternalInsert(k, x.list, Len(x.list), before[j])
      BY <2>1
    <2> QED BY <2>1, <2>2, InsertIsProper
  <1>5. ASSUME NEW j \in 1..n
        PROVE  InternalInsert(k, part(j - 1), Len(part(j - 1)), before[j]) = Done(part(j))
    <2> DEFINE l == part(j - 1)
    <2>1. /\ l \in Seq(Values) /\ Len(l) = j - 1 /\ DOMAIN l = 1..(j - 1)
          /\ \A i \in 1..(j - 1) : l[i] = before[i]
      BY <1>1
    <2>2. part(j) = Append(l, before[j])
      BY <1>1
    <2>3. ~Taken(k, l, before[j])
      <3>1. ASSUME k = "composition" PROVE before[j] \notin Range(l) /\ before[j] \notin Elsewhere
        <4>1. j \in DOMAIN before /\ \A i \in 1..(j - 1) : i \in DOMAIN before /\ i # j
          BY <1>1
        <4>2. IsInjective(before) /\ before[j] \notin Elsewhere
          BY <3>1, <4>1 DEF Proper, Range
        <4> QED BY <2>1, <4>1, <4>2 DEF IsInjective, Range
      <3> QED BY <3>1 DEF Taken
    <2> HIDE DEF l, n, calls, A, part
    <2>4. Len(l) \in Nat
      BY <2>1
    <2>5. Position(k, Len(l), Len(l)) = Len(l)
      BY <2>4 DEF Position, Adjusted
    <2>6. InternalInsert(k, l, Len(l), before[j]) = Done(Append(l, before[j]))
      BY <2>3, <2>4, <2>5 DEF InternalInsert
    <2> QED BY <2>2, <2>6 DEF l
  <1> HIDE DEF calls
  <1>6. PICK f \in [0..n -> A] :
            /\ f[0] = Done(<<>>) /\ InTurn(<<>>, calls) = f[n]
            /\ \A j \in 1..n : f[j] = Then(f[j - 1], calls[j][f[j - 1].list])
    <2>1. Len(calls) \in Nat /\ \A x \in A, j \in 1..Len(calls) : calls[j][x.list] \in A
      BY <1>1, <1>4
    <2> HIDE DEF A
    <2>2. PICK f : Turns(f, <<>>, calls, A)
      BY <1>3, <2>1, InTurnRuns
    <2> QED BY <1>1, <2>2 DEF Turns
  <1>7. part(0) = <<>> /\ part(n) = before
    BY <1>1
  <1> HIDE DEF n, part
  <1> DEFINE S == {j \in 0..n : f[j] = Done(part(j))}
  <1>8. 0 \in S
    BY <1>1, <1>6, <1>7
  <1>9. ASSUME NEW j \in 1..n, j - 1 \in S PROVE j \in S
    <2> DEFINE x == f[j - 1]
    <2>1. x \in A /\ x = Done(part(j - 1)) /\ f[j] = Then(x, calls[j][x.list])
      BY <1>1, <1>6, <1>9
    <2> HIDE DEF x
    <2>2. x.ok = TRUE /\ x.list = part(j - 1)
      BY <2>1 DEF Done
    <2>3. f[j] = Done(part(j))
      BY <1>4, <1>5, <2>1, <2>2 DEF Then
    <2> QED BY <1>1, <2>3
  <1> HIDE DEF S
  <1>10. n \in S
    <2>1. \A j \in 0..n : j \in S
      BY <1>1, <1>8, <1>9, Rounds
    <2> QED BY <1>1, <2>1
  <1>11. InTurn(<<>>, calls) = Done(before)
    BY <1>6, <1>7, <1>10 DEF S
  <1> QED BY <1>2, <1>11 DEF Done

\* A composition refuses to be turned round at the first swap, for it would hold a
\* child twice; the other containers hold as many values as before.
LEMMA TurnedIsProper ==
    ASSUME NEW k, NEW s, Proper(k, s)
    PROVE  Turned(k, s) \in Answers(k) /\ (k = "composition" => Turned(k, s).list = s)
  <1> DEFINE n == Len(s)
             m == n \div 2
             calls == [j \in 1..m |-> [l \in Lists |-> Swapped(k, l, j)]]
             A == {x \in Answers(k) : Len(x.list) = n /\ (k = "composition" => x.list = s)}
  <1>1. s \in Seq(Values) /\ n \in Nat
    BY DEF Proper
  <1>2. m \in Nat /\ m + m <= n
    <2> HIDE DEF n
    <2> QED BY <1>1
  <1>3. Turned(k, s) = InTurn(s, calls) /\ Len(calls) = m
    BY <1>2 DEF Turned
  <1>4. Done(s) \in A
    BY AnswerIsProper
  <1>5. ASSUME NEW x \in A, NEW j \in 1..m PROVE calls[j][x.list] \in A
    <2> DEFINE l == x.list
               one == InternalSet(k, l, j - 1, l[n - j + 1])
               two == InternalSet(k, one.list, n - j, l[j])
    <2>1. /\ l \in Seq(Values) /\ l \in Lists /\ Proper(k, l) /\ Len(l) = n
          /\ k = "composition" => l = s
      BY DEF Answers, Lists
    <2>2. /\ j \in 1..n /\ n - j + 1 \in 1..n /\ j # n - j + 1
          /\ j - 1 \in Int /\ n - j \in Int /\ j - 1 >= 0 /\ j - 1 < n
      <3> HIDE DEF n, m
      <3> QED BY <1>1, <1>2
    <2>3. l[j] \in Values /\ l[n - j + 1] \in Values
      BY <2>1, <2>2
    <2>4. calls[j][l] = Then(one, two)
      BY <2>1 DEF Swapped
    <2> HIDE DEF l
    <2>5. one \in Answers(k) /\ Len(one.list) = n
      BY <2>1, <2>2, <2>3, SetIsProper, SetKeepsLength
    <2>6. CASE k = "composition"
      <3>1. Position(k, j - 1, n) = j - 1
        BY <2>2 DEF Position, Adjusted
      <3>2. InRange(j - 1, l) /\ l[(j - 1) + 1] = l[j]
        BY <2>1, <2>2 DEF InRange
      <3>3. l[n - j + 1] \in Range(l) /\ l[j] # l[n - j + 1]
        <4>1. j \in DOMAIN l /\ n - j + 1 \in DOMAIN l
          BY <2>1, <2>2
        <4>2. IsInjective(l)
          BY <2>1, <2>6 DEF Proper
        <4> QED BY <2>2, <4>1, <4>2 DEF IsInjective, Range
      <3>4. one = Refused(l)
        BY <2>1, <2>6, <3>1, <3>2, <3>3 DEF InternalSet, Taken
      <3>5. Then(one, two) = Refused(l)
        BY <3>4 DEF Then, Refused
      <3>6. Refused(l) \in A
        BY <2>1, AnswerIsProper
      <3> HIDE DEF calls, A, one, two
      <3> QED BY <2>4, <3>5, <3>6 DEF l
    <2>7. CASE k # "composition"
      <3>1. Proper(k, one.list)
        BY <2>5 DEF Answers
      <3>2. two \in Answers(k) /\ Len(two.list) = n
        <4> DEFINE o == one.list
        <4>1. Proper(k, o) /\ Len(o) = n
          BY <2>5, <3>1
        <4> HIDE DEF o
        <4>2. /\ InternalSet(k, o, n - j, l[j]) \in Answers(k)
              /\ Len(InternalSet(k, o, n - j, l[j]).list) = n
          BY <2>2, <2>3, <4>1, SetIsProper, SetKeepsLength
        <4> QED BY <4>2 DEF o
      <3> HIDE DEF one, two
      <3> QED BY <2>4, <2>5, <2>7, <3>2 DEF Then, l
    <2> QED BY <2>6, <2>7
  <1> HIDE DEF calls
  <1>6. InTurn(s, calls) \in A
    <2>1. Len(calls) \in Nat /\ \A x \in A, j \in 1..Len(calls) : calls[j][x.list] \in A
      BY <1>2, <1>3, <1>5
    <2> HIDE DEF A
    <2> QED BY <1>4, <2>1, InTurnRuns DEF Turns
  <1> QED BY <1>2, <1>3, <1>6

--------------------------------------------------------------------------------
(* Slices.                                                                     *)

LEMMA QuotientIsNat ==
    ASSUME NEW a \in Nat, NEW w \in Nat, w > 0
    PROVE  a \div w \in Nat
  OBVIOUS

LEMMA IndicesAreInts ==
    ASSUME NEW start \in Int \cup {NULL}, NEW stop \in Int \cup {NULL},
           NEW step \in Int, step # 0, NEW n \in Nat
    PROVE  /\ Indices(start, stop, step, n) \in Seq(Int)
           /\ Reverse(Indices(start, stop, step, n)) \in Seq(Int)
  <1> DEFINE low == IF step > 0 THEN 0 ELSE -1
             high == IF step > 0 THEN n ELSE n - 1
             clip(i) == IF i < 0 THEN (IF i + n < low THEN low ELSE i + n)
                        ELSE IF i > high THEN high ELSE i
             first == IF start # NULL THEN clip(start) ELSE IF step > 0 THEN low ELSE high
             last == IF stop # NULL THEN clip(stop) ELSE IF step > 0 THEN high ELSE low
             room == IF step > 0 THEN last - first ELSE first - last
             width == IF step > 0 THEN step ELSE -step
             m == IF room <= 0 THEN 0 ELSE (room + width - 1) \div width
  <1>1. low \in Int /\ high \in Int
    OBVIOUS
  <1> HIDE DEF low, high
  <1>2. \A i \in Int : clip(i) \in Int
    BY <1>1
  <1> HIDE DEF clip
  <1>3. first \in Int /\ last \in Int
    BY <1>1, <1>2
  <1> HIDE DEF first, last
  <1>4. room \in Int /\ width \in Nat /\ width > 0
    BY <1>3
  <1> HIDE DEF room, width
  <1>5. m \in Nat
    <2>1. CASE room > 0
      <3>1. room + width - 1 \in Nat
        BY <1>4, <2>1
      <3> QED BY <1>4, <2>1, <3>1, QuotientIsNat
    <2> QED BY <1>4, <2>1
  <1>6. Indices(start, stop, step, n) = [j \in 1..m |-> first + (j - 1) * step]
    BY DEF Indices, m, room, width, first, last, clip, low, high
  <1> HIDE DEF m
  <1> DEFINE r == [j \in 1..m |-> first + (j - 1) * step]
  <1>7. r \in Seq(Int)
    <2>1. \A j \in 1..m : first + (j - 1) * step \in Int
      BY <1>3, <1>5
    <2> QED BY <1>5, <2>1
  <1> HIDE DEF r
  <1>8. Reverse(r) \in Seq(Int)
    BY <1>7 DEF Reverse
  <1> QED BY <1>6, <1>7, <1>8 DEF r

LEMMA SliceIsInts ==
    ASSUME NEW k, NEW s, Proper(k, s), NEW start \in Edge, NEW stop \in Edge
    PROVE  \A step \in Steps \cup {1} :
               /\ Indices(start, stop, step, Len(s)) \in Seq(Int)
               /\ Reverse(Indices(start, stop, step, Len(s))) \in Seq(Int)
  <1>1. start \in Int \cup {NULL} /\ stop \in Int \cup {NULL} /\ Len(s) \in Nat
    BY SequenceAssumption DEF Edge, Proper
  <1>2. \A step \in Steps \cup {1} : step \in Int /\ step # 0
    BY SequenceAssumption
  <1> QED BY <1>1, <1>2, IndicesAreInts

\* An assignment that puts new values in the place of old ones leaves what a
\* container may hold; a composition is as before if it fails.
LEMMA ReplacedIsProper ==
    ASSUME NEW k, NEW s, Proper(k, s), NEW ixs, Reverse(ixs) \in Seq(Int),
           NEW start \in Int, NEW items \in Seq(Values)
    PROVE  /\ Replaced(k, s, ixs, start, items) \in Answers(k)
           /\ k = "composition" /\ ~Replaced(k, s, ixs, start, items).ok
                => Replaced(k, s, ixs, start, items).list = s
  <1> DEFINE cut == DeleteAll(k, s, Reverse(ixs)).list
             answer == InsertAll(k, cut, start, items)
  <1>1. Proper(k, cut)
    BY DeleteAllIsProper DEF Answers
  <1> HIDE DEF cut
  <1>2. answer \in Answers(k)
    BY <1>1, InsertAllIsProper
  <1>3. Replaced(k, s, ixs, start, items)
          = IF answer.ok \/ k # "composition" THEN answer ELSE Restored(k, answer.list, s)
    BY DEF Replaced, cut
  <1> HIDE DEF answer
  <1>4. Restored(k, answer.list, s) = Refused(s)
    <2>1. Proper(k, answer.list)
      BY <1>2 DEF Answers
    <2>2. Emptied(k, answer.list) = <<>>
      BY <2>1, EmptiedIsEmpty
    <2> QED BY <2>2, ExtendedIsWhole DEF Restored
  <1> DEFINE r == Replaced(k, s, ixs, start, items)
  <1>5. CASE answer.ok \/ k # "composition"
    <2>1. r = answer
      BY <1>3, <1>5
    <2> HIDE DEF r
    <2>2. r \in Answers(k) /\ (k = "composition" /\ ~r.ok => r.list = s)
      BY <1>2, <1>5, <2>1
    <2> QED BY <2>2 DEF r
  <1>6. CASE ~(answer.ok \/ k # "composition")
    <2>1. r = Refused(s)
      BY <1>3, <1>4, <1>6
    <2> HIDE DEF r
    <2>2. r \in Answers(k) /\ (k = "composition" /\ ~r.ok => r.list = s)
      BY <2>1, AnswerIsProper
    <2> QED BY <2>2 DEF r
  <1> QED BY <1>5, <1>6

LEMMA ItemsAreValues == \A items \in Items : items \in Seq(Values)
  <1>1. <<>> \in Seq(Values) /\ \A v \in Values : <<v>> \in Seq(Values)
    OBVIOUS
  <1>2. \A v, w \in Values : <<v, w>> \in Seq(Values)
    OBVIOUS
  <1>3. ASSUME NEW items \in Items PROVE items \in Seq(Values)
    <2>1. CASE items \in {<<v, w>> : v, w \in Values}
      <3>1. PICK v \in Values, w \in Values : items = <<v, w>>
        BY <2>1
      <3> QED BY <1>2, <3>1
    <2>2. CASE items = <<>> \/ items \in {<<v>> : v \in Values}
      BY <1>1, <2>2
    <2> QED BY <2>1, <2>2 DEF Items
  <1> QED BY <1>3

LEMMA SetSliceIsProper ==
    ASSUME NEW k, NEW s, Proper(k, s), NEW start \in Edge, NEW stop \in Edge,
           NEW items \in Items, NEW mutable \in BOOLEAN
    PROVE  /\ SetSlice(k, s, start, stop, items, mutable) \in Answers(k)
           /\ k = "composition" /\ ~SetSlice(k, s, start, stop, items, mutable).ok
                => SetSlice(k, s, start, stop, items, mutable).list = s
  <1> DEFINE ixs == Indices(start, stop, 1, Len(s))
             at == IF start = NULL THEN 0 ELSE start
  <1>1. ixs \in Seq(Int) /\ Reverse(ixs) \in Seq(Int)
    BY SliceIsInts
  <1>2. at \in Int /\ items \in Seq(Values)
    <2>1. at \in Int
      BY SequenceAssumption DEF Edge
    <2> QED BY <2>1, ItemsAreValues
  <1>3. SetSlice(k, s, start, stop, items, mutable)
          = IF k # "composition" /\ mutable /\ Len(items) = Len(ixs)
            THEN SetAll(k, s, ixs, items) ELSE Replaced(k, s, ixs, at, items)
    BY DEF SetSlice
  <1> HIDE DEF ixs, at
  <1>4. CASE k # "composition" /\ mutable /\ Len(items) = Len(ixs)
    BY <1>1, <1>2, <1>3, <1>4, SetAllIsProper
  <1>5. CASE ~(k # "composition" /\ mutable /\ Len(items) = Len(ixs))
    BY <1>1, <1>2, <1>3, <1>5, ReplacedIsProper
  <1> QED BY <1>4, <1>5

LEMMA SetExtendedIsProper ==
    ASSUME NEW k, NEW s, Proper(k, s), NEW start \in Edge, NEW stop \in Edge,
           NEW step \in Steps, NEW items \in Items
    PROVE  SetExtended(k, s, start, stop, step, items) \in Answers(k)
  <1> DEFINE ixs == Indices(start, stop, step, Len(s))
  <1>1. ixs \in Seq(Int)
    BY SliceIsInts
  <1>2. items \in Seq(Values)
    BY ItemsAreValues
  <1>3. SetExtended(k, s, start, stop, step, items)
          = IF Len(items) # Len(ixs) THEN Refused(s)
            ELSE IF k = "composition" THEN (IF ixs = <<>> THEN Done(s) ELSE Refused(s))
            ELSE SetAll(k, s, ixs, items)
    BY DEF SetExtended
  <1> HIDE DEF ixs
  <1>4. CASE Len(items) # Len(ixs)
    BY <1>3, <1>4, AnswerIsProper
  <1>5. CASE Len(items) = Len(ixs) /\ k = "composition"
    BY <1>3, <1>5, AnswerIsProper
  <1>6. CASE Len(items) = Len(ixs) /\ k # "composition"
    BY <1>1, <1>2, <1>3, <1>6, SetAllIsProper
  <1> QED BY <1>4, <1>5, <1>6

LEMMA DeleteSliceIsProper ==
    ASSUME NEW k, NEW s, Proper(k, s), NEW start \in Edge, NEW stop \in Edge,
           NEW step \in Steps
    PROVE  DeleteSlice(k, s, start, stop, step) \in Answers(k)
  <1> DEFINE ixs == Reverse(Indices(start, stop, step, Len(s)))
  <1>1. ixs \in Seq(Int)
    BY SliceIsInts
  <1>2. DeleteSlice(k, s, start, stop, step) = DeleteAll(k, s, ixs)
    BY DEF DeleteSlice
  <1> HIDE DEF ixs
  <1> QED BY <1>1, <1>2, DeleteAllIsProper

LEMMA PopIsProper ==
    ASSUME NEW k, NEW s, Proper(k, s), NEW i \in Int
    PROVE  Pop(k, s, i) \in Answers(k)
  BY AnswerIsProper, DelIsProper DEF Pop

\* remove() deletes the first place of the value.
LEMMA RemoveValueIsProper ==
    ASSUME NEW k, NEW s, Proper(k, s), NEW v
    PROVE  RemoveValue(k, s, v) \in Answers(k)
  <1> DEFINE I == {i \in 1..Len(s) : s[i] = v}
             at == SelectInSeq(s, LAMBDA x : x = v)
  <1>1. CASE v \notin Range(s)
    BY <1>1, AnswerIsProper DEF RemoveValue
  <1>2. CASE v \in Range(s)
    <2>1. at \in Int
      <3>1. at = IF I # {} THEN Min(I) ELSE 0
        BY DEF SelectInSeq
      <3>2. I # {} => Min(I) \in I
        <4>1. ASSUME I # {} PROVE \E m \in I : \A i \in I : m <= i
          <5>1. I \in SUBSET Nat
            OBVIOUS
          <5> HIDE DEF I
          <5> QED BY <4>1, <5>1, SmallestNat
        <4> QED BY <4>1 DEF Min
      <3> QED BY <3>1, <3>2
    <2> HIDE DEF at
    <2>2. InternalDel(k, s, at - 1) \in Answers(k)
      BY <2>1, DelIsProper
    <2> QED BY <1>2, <2>2 DEF RemoveValue, at
  <1> QED BY <1>1, <1>2

--------------------------------------------------------------------------------
(* What holds throughout.                                                      *)

Held == kind \in Kinds /\ Proper(kind, list) /\ Len(list) <= Capacity

LEMMA TakeKeeps ==
    ASSUME Held, NEW answer, answer \in Answers(kind), Take(answer)
    PROVE  Held'
  BY DEF Held, Take, Answers, Proper

\* A container of any kind holds values and nothing else, and a composition no child
\* twice and none of another parent, whatever calls are made, granted or refused.
THEOREM ListsStayProper == Spec => []Held
  <1>1. Init => Held
    BY SequenceAssumption DEF Init, Held, Proper, IsInjective, Range
  <1>2. ASSUME Held, [Next]_vars PROVE Held'
    <2>1. Proper(kind, list)
      BY <1>2 DEF Held
    <2>2. Ends \subseteq Int
      BY SequenceAssumption
    <2>3. ASSUME NEW i \in Ends, NEW v \in Values, SetItem(i, v) PROVE Held'
      BY <1>2, <2>1, <2>2, <2>3, SetIsProper, TakeKeeps DEF SetItem
    <2>4. ASSUME NEW i \in Ends, NEW v \in Values, Insert(i, v) PROVE Held'
      BY <1>2, <2>1, <2>2, <2>4, InsertIsProper, TakeKeeps DEF Insert
    <2>5. ASSUME NEW i \in Ends, DelItem(i) PROVE Held'
      BY <1>2, <2>1, <2>2, <2>5, DelIsProper, TakeKeeps DEF DelItem
    <2>6. ASSUME NEW i \in Ends, PopItem(i) PROVE Held'
      BY <1>2, <2>1, <2>2, <2>6, PopIsProper, TakeKeeps DEF PopItem
    <2>7. ASSUME NEW v \in Values, RemoveItem(v) PROVE Held'
      BY <1>2, <2>1, <2>7, RemoveValueIsProper, TakeKeeps DEF RemoveItem
    <2>8. CASE TurnRound
      BY <1>2, <2>1, <2>8, TurnedIsProper, TakeKeeps DEF TurnRound
    <2>9. ASSUME NEW start \in Edge, NEW stop \in Edge, NEW items \in Items,
                 NEW mutable \in BOOLEAN, AssignSlice(start, stop, items, mutable)
          PROVE  Held'
      BY <1>2, <2>1, <2>9, SetSliceIsProper, TakeKeeps DEF AssignSlice
    <2>10. ASSUME NEW start \in Edge, NEW stop \in Edge, NEW step \in Steps,
                  NEW items \in Items, AssignExtended(start, stop, step, items)
           PROVE  Held'
      BY <1>2, <2>1, <2>10, SetExtendedIsProper, TakeKeeps DEF AssignExtended
    <2>11. ASSUME NEW start \in Edge, NEW stop \in Edge, NEW step \in Steps,
                  DelSlice(start, stop, step)
           PROVE  Held'
      BY <1>2, <2>1, <2>11, DeleteSliceIsProper, TakeKeeps DEF DelSlice
    <2>12. CASE UNCHANGED vars
      BY <1>2, <2>12 DEF vars, Held, Proper
    <2> QED BY <1>2, <2>3, <2>4, <2>5, <2>6, <2>7, <2>8, <2>9, <2>10, <2>11, <2>12 DEF Next
  <1> QED BY <1>1, <1>2, PTL DEF Spec

\* No call loses or doubles a child of a composition; an assignment to a slice and a
\* reverse that fail leave it as it was (test_transactional), whatever the slice and
\* whichever value is refused.
THEOREM ChildrenAreKept == Spec => []ChildrenKept
  <1>1. Held => ChildrenKept
    <2> SUFFICES ASSUME Held PROVE ChildrenKept
      OBVIOUS
    <2>1. Proper(kind, list)
      BY DEF Held
    <2>2. TypeOK /\ NoInstancing
      BY DEF Held, Proper, TypeOK, NoInstancing
    <2>3. RefusedIsRestored
      <3>1. ASSUME NEW start \in Edge, NEW stop \in Edge, NEW items \in Items,
                   kind = "composition", ~SetSlice(kind, list, start, stop, items, TRUE).ok
            PROVE  SetSlice(kind, list, start, stop, items, TRUE).list = list
        BY <2>1, <3>1, SetSliceIsProper
      <3>2. kind = "composition" => Turned(kind, list).list = list
        BY <2>1, TurnedIsProper
      <3> QED BY <3>1, <3>2 DEF RefusedIsRestored
    <2> QED BY <2>2, <2>3 DEF ChildrenKept
  <1> QED BY <1>1, ListsStayProper, PTL

\* With an index that a list has, set, delete, pop and insert do what they do to a
\* list, though the bindings of two containers adjust a negative index twice.
THEOREM IndicesAreALists == Spec => []IndexedLikeAList
  <1>1. Held => IndexedLikeAList
    <2> SUFFICES ASSUME Held, NEW i \in Ends, ListIndex(i)
        PROVE  /\ InternalDel(kind, list, i) = Done(RemoveAt(list, ListPlace(i)))
               /\ Pop(kind, list, i) = Done(RemoveAt(list, ListPlace(i)))
               /\ \A v \in Values : ~Taken(kind, list, v) =>
                    /\ InternalSet(kind, list, i, v) = Done(ReplaceAt(list, ListPlace(i), v))
                    /\ InternalInsert(kind, list, i, v) = Done(InsertAt(list, ListPlace(i), v))
      BY DEF IndexedLikeAList
    <2> DEFINE n == Len(list)
               p == Position(kind, i, n)
    <2>1. list \in Seq(Values) /\ n \in Nat /\ i \in Int
      BY SequenceAssumption DEF Held, Proper
    <2>2. /\ p \in Int /\ 0 <= p /\ p < n /\ p = Adjusted(i, n)
          /\ ListPlace(i) = p + 1
      BY <2>1 DEF Position, Adjusted, ListIndex, ListPlace
    <2>3. InRange(p, list) /\ InRange(Adjusted(i, n), list) /\ list # <<>>
      BY <2>1, <2>2 DEF InRange
    <2>4. InternalDel(kind, list, i) = Done(RemoveAt(list, ListPlace(i)))
      BY <2>2, <2>3 DEF InternalDel
    <2>5. InternalGet(list, i) # NULL
      <3>1. InternalGet(list, i) = list[p + 1]
        BY <2>2, <2>3 DEF InternalGet
      <3>2. list[p + 1] \in Values
        BY <2>1, <2>2
      <3> QED BY <3>1, <3>2, SequenceAssumption
    <2>6. ASSUME NEW v \in Values, ~Taken(kind, list, v)
          PROVE  /\ InternalSet(kind, list, i, v) = Done(ReplaceAt(list, ListPlace(i), v))
                 /\ InternalInsert(kind, list, i, v) = Done(InsertAt(list, ListPlace(i), v))
      <3> HIDE DEF p
      <3>1. InternalSet(kind, list, i, v) = Done(ReplaceAt(list, ListPlace(i), v))
        BY <2>2, <2>3, <2>6 DEF InternalSet, p
      <3>2. ~(p >= Len(list)) /\ ~(p < 0)
        BY <2>1, <2>2
      <3>3. InternalInsert(kind, list, i, v) = Done(InsertAt(list, ListPlace(i), v))
        BY <2>2, <2>6, <3>2 DEF InternalInsert, p
      <3> QED BY <3>1, <3>3
    <2> QED BY <2>4, <2>5, <2>6 DEF Pop
  <1> QED BY <1>1, ListsStayProper, PTL

--------------------------------------------------------------------------------
(* Calls that are all granted.                                                 *)

\* If every call is granted and takes what held after j - 1 calls to what holds after
\* j, all calls are granted and what holds after the last holds in the end.
LEMMA CallsReach ==
    ASSUME NEW s, NEW calls, Len(calls) \in Nat, NEW A, A \subseteq [ok : BOOLEAN, list : Seq(Values)],
           Done(s) \in A, \A x \in A, j \in 1..Len(calls) : calls[j][x.list] \in A,
           NEW inv, s \in inv[0],
           \A x \in A, j \in 1..Len(calls) :
               x.list \in inv[j - 1] => calls[j][x.list].ok = TRUE /\ calls[j][x.list].list \in inv[j]
    PROVE  \E l \in inv[Len(calls)] : l \in Seq(Values) /\ InTurn(s, calls) = Done(l)
  <1> DEFINE n == Len(calls)
  <1>1. Done(s) \in A /\ Done(s).ok = TRUE /\ Done(s).list = s
    BY DEF Done
  <1>2. PICK f : Turns(f, s, calls, A)
    BY <1>1, InTurnRuns
  <1>3. /\ f \in [0..n -> A] /\ f[0] = Done(s) /\ InTurn(s, calls) = f[n]
        /\ \A j \in 1..n : f[j] = Then(f[j - 1], calls[j][f[j - 1].list])
    BY <1>2 DEF Turns
  <1> DEFINE S == {j \in 0..n : f[j].ok = TRUE /\ f[j].list \in inv[j]}
  <1>4. 0 \in S
    BY <1>1, <1>3
  <1>5. ASSUME NEW j \in 1..n, j - 1 \in S PROVE j \in S
    <2> DEFINE x == f[j - 1]
    <2>1. x \in A /\ x.ok = TRUE /\ x.list \in inv[j - 1] /\ f[j] = Then(x, calls[j][x.list])
      BY <1>3, <1>5
    <2> HIDE DEF x
    <2>2. f[j] = calls[j][x.list] /\ f[j].ok = TRUE /\ f[j].list \in inv[j]
      BY <2>1 DEF Then
    <2> QED BY <2>2
  <1> HIDE DEF S
  <1>6. n \in S
    <2>1. n \in Nat
      OBVIOUS
    <2> HIDE DEF n
    <2>2. \A j \in 0..n : j \in S
      BY <1>4, <1>5, <2>1, Rounds
    <2> QED BY <2>1, <2>2
  <1>7. f[n] \in A /\ f[n].ok = TRUE /\ f[n].list \in inv[n]
    BY <1>3, <1>6 DEF S
  <1> DEFINE l == f[n].list
  <1>8. l \in Seq(Values) /\ f[n] = Done(l)
    BY <1>7 DEF Done
  <1> QED BY <1>3, <1>7, <1>8

--------------------------------------------------------------------------------
(* Single calls, place by place.                                               *)

LEMMA PlacedAt ==
    ASSUME NEW k, NEW n \in Nat, NEW i \in Nat
    PROVE  Position(k, i, n) = i
  BY DEF Position, Adjusted

IsSet(l, s, i, v) ==
    /\ l \in Seq(Values) /\ Len(l) = Len(s) /\ l[i + 1] = v
    /\ \A h \in 1..Len(s) : h # i + 1 => l[h] = s[h]

LEMMA SetIsPlain ==
    ASSUME NEW k, k # "composition", NEW s \in Seq(Values), NEW i \in 0..(Len(s) - 1), NEW v \in Values
    PROVE  InternalSet(k, s, i, v).ok = TRUE /\ IsSet(InternalSet(k, s, i, v).list, s, i, v)
  <1> DEFINE l == ReplaceAt(s, i + 1, v)
  <1>1. i \in Nat /\ i + 1 \in 1..Len(s) /\ Len(s) \in Nat
    OBVIOUS
  <1>2. InternalSet(k, s, i, v) = Done(l)
    <2>1. InRange(i, s) /\ Position(k, i, Len(s)) = i /\ ~Taken(k, s, v)
      BY <1>1, PlacedAt DEF InRange, Taken
    <2> QED BY <2>1 DEF InternalSet
  <1>3. IsSet(l, s, i, v)
    <2>1. l \in Seq(Values)
      BY <1>1, ReplaceAtElements
    <2> QED BY <1>1, <2>1 DEF ReplaceAt, IsSet
  <1> QED BY <1>2, <1>3 DEF Done

IsWithout(l, s, i) ==
    /\ l \in Seq(Values) /\ Len(l) = Len(s) - 1
    /\ \A h \in 1..i : l[h] = s[h]
    /\ \A h \in (i + 1)..(Len(s) - 1) : l[h] = s[h + 1]

LEMMA DelIsPlain ==
    ASSUME NEW k, NEW s \in Seq(Values), NEW i \in 0..(Len(s) - 1)
    PROVE  InternalDel(k, s, i).ok = TRUE /\ IsWithout(InternalDel(k, s, i).list, s, i)
  <1> DEFINE l == RemoveAt(s, i + 1)
             a == SubSeq(s, 1, i)
             b == SubSeq(s, i + 2, Len(s))
  <1>1. i \in Nat /\ i + 1 \in 1..Len(s) /\ Len(s) \in Nat /\ s # <<>>
    OBVIOUS
  <1>2. InternalDel(k, s, i) = Done(l)
    <2>1. InRange(i, s) /\ Position(k, i, Len(s)) = i
      BY <1>1, PlacedAt DEF InRange
    <2> QED BY <1>1, <2>1 DEF InternalDel
  <1>3. IsWithout(l, s, i)
    <2>1. l = a \o b
      <3>1. (i + 1) - 1 = i /\ (i + 1) + 1 = i + 2
        BY <1>1
      <3> QED BY <3>1, Zenon DEF RemoveAt
    <2>2. a \in Seq(Values) /\ Len(a) = i /\ \A h \in 1..i : a[h] = s[h]
      BY <1>1
    <2>3. b \in Seq(Values) /\ Len(b) = Len(s) - 1 - i /\ \A h \in 1..(Len(s) - 1 - i) : b[h] = s[h + i + 1]
      BY <1>1
    <2> HIDE DEF a, b, l
    <2>4. /\ l \in Seq(Values) /\ Len(l) = Len(s) - 1
          /\ \A h \in 1..i : l[h] = a[h]
          /\ \A h \in (i + 1)..(Len(s) - 1) : l[h] = b[h - i]
      BY <1>1, <2>1, <2>2, <2>3
    <2>5. \A h \in (i + 1)..(Len(s) - 1) : h - i \in 1..(Len(s) - 1 - i) /\ (h - i) + i + 1 = h + 1
      BY <1>1
    <2> QED BY <2>2, <2>3, <2>4, <2>5 DEF IsWithout
  <1> QED BY <1>2, <1>3 DEF Done

\* v stands behind the first a values.
IsWith(l, s, a, v) ==
    /\ l \in Seq(Values) /\ Len(l) = Len(s) + 1 /\ l[a + 1] = v
    /\ \A h \in 1..a : l[h] = s[h]
    /\ \A h \in (a + 2)..(Len(s) + 1) : l[h] = s[h - 1]

LEMMA InsertIsPlain ==
    ASSUME NEW k, NEW s \in Seq(Values), NEW i \in Nat, NEW v \in Values, ~Taken(k, s, v),
           NEW a, a = IF i < Len(s) THEN i ELSE Len(s)
    PROVE  InternalInsert(k, s, i, v).ok = TRUE /\ IsWith(InternalInsert(k, s, i, v).list, s, a, v)
  <1>1. Position(k, i, Len(s)) = i /\ ~(i < 0) /\ Len(s) \in Nat
    BY PlacedAt
  <1>2. CASE i >= Len(s)
    <2>1. InternalInsert(k, s, i, v) = Done(Append(s, v))
      BY <1>1, <1>2 DEF InternalInsert
    <2>2. a = Len(s)
      BY <1>1, <1>2
    <2>3. IsWith(Append(s, v), s, a, v)
      BY <1>1, <2>2 DEF IsWith
    <2> QED BY <2>1, <2>3 DEF Done
  <1>3. CASE i < Len(s)
    <2>1. InternalInsert(k, s, i, v) = Done(InsertAt(s, i + 1, v))
      BY <1>1, <1>3 DEF InternalInsert
    <2> DEFINE l == InsertAt(s, i + 1, v)
               p == SubSeq(s, 1, i)
               q == SubSeq(s, i + 1, Len(s))
               pv == p \o <<v>>
    <2>2. l = pv \o q
      <3>1. (i + 1) - 1 = i
        BY <1>1
      <3> QED BY <3>1, Zenon DEF InsertAt
    <2>3. p \in Seq(Values) /\ Len(p) = i /\ \A h \in 1..i : p[h] = s[h]
      BY <1>1, <1>3
    <2>4. q \in Seq(Values) /\ Len(q) = Len(s) - i /\ \A h \in 1..(Len(s) - i) : q[h] = s[h + i]
      BY <1>1, <1>3
    <2> HIDE DEF p, q, l
    <2>5. pv \in Seq(Values) /\ Len(pv) = i + 1 /\ pv[i + 1] = v /\ \A h \in 1..i : pv[h] = s[h]
      BY <2>3
    <2> HIDE DEF pv
    <2>6. /\ l \in Seq(Values) /\ Len(l) = Len(s) + 1
          /\ \A h \in 1..(i + 1) : l[h] = pv[h]
          /\ \A h \in (i + 2)..(Len(s) + 1) : l[h] = q[h - (i + 1)]
      BY <1>1, <1>3, <2>2, <2>4, <2>5
    <2>7. \A h \in (i + 2)..(Len(s) + 1) : h - (i + 1) \in 1..(Len(s) - i) /\ (h - (i + 1)) + i = h - 1
      BY <1>1, <1>3
    <2>8. i + 1 \in 1..(i + 1) /\ \A h \in 1..i : h \in 1..(i + 1)
      OBVIOUS
    <2>9. IsWith(l, s, i, v)
      BY <2>4, <2>5, <2>6, <2>7, <2>8 DEF IsWith
    <2>10. a = i
      BY <1>3
    <2> QED BY <2>1, <2>9, <2>10 DEF Done, l
  <1>4. i >= Len(s) \/ i < Len(s)
    BY <1>1
  <1> QED BY <1>2, <1>3, <1>4

--------------------------------------------------------------------------------
(* The loops, place by place.                                                  *)

\* The first j of the indices have their new values.
SetUpTo(l, s, ixs, items, j) ==
    /\ l \in Seq(Values) /\ Len(l) = Len(s)
    /\ \A h \in 1..j : l[ixs[h] + 1] = items[h]
    /\ \A i \in 1..Len(s) : (\A h \in 1..j : ixs[h] + 1 # i) => l[i] = s[i]

LEMMA SetAllIs ==
    ASSUME NEW k, k # "composition", NEW s \in Seq(Values), NEW ixs \in Seq(Int),
           NEW items \in Seq(Values), Len(items) = Len(ixs),
           \A j \in 1..Len(ixs) : ixs[j] \in 0..(Len(s) - 1),
           \A j, h \in 1..Len(ixs) : j # h => ixs[j] # ixs[h]
    PROVE  \E l \in Seq(Values) : /\ SetAll(k, s, ixs, items) = Done(l)
                                  /\ SetUpTo(l, s, ixs, items, Len(ixs))
  <1> DEFINE n == Len(ixs)
             calls == [j \in 1..n |-> [l \in Lists |-> InternalSet(k, l, ixs[j], items[j])]]
             inv == [j \in 0..n |-> {l \in Seq(Values) : SetUpTo(l, s, ixs, items, j)}]
  <1>1. n \in Nat /\ Len(calls) = n /\ SetAll(k, s, ixs, items) = InTurn(s, calls)
    BY DEF SetAll
  <1>2. Proper(k, s)
    BY DEF Proper
  <1>3. ASSUME NEW x \in Answers(k), NEW j \in 1..n
        PROVE  /\ calls[j][x.list] = InternalSet(k, x.list, ixs[j], items[j])
               /\ calls[j][x.list] \in Answers(k)
    <2>1. x.list \in Lists /\ Proper(k, x.list) /\ items[j] \in Values /\ ixs[j] \in Int
      BY DEF Answers, Lists
    <2>2. calls[j][x.list] = InternalSet(k, x.list, ixs[j], items[j])
      BY <2>1
    <2> QED BY <2>1, <2>2, SetIsProper
  <1> HIDE DEF calls
  <1>4. s \in inv[0]
    BY <1>1 DEF SetUpTo
  <1>5. ASSUME NEW x \in Answers(k), NEW j \in 1..n, x.list \in inv[j - 1]
        PROVE  calls[j][x.list].ok = TRUE /\ calls[j][x.list].list \in inv[j]
    <2> DEFINE l == x.list
               m == calls[j][x.list].list
               i == ixs[j]
               v == items[j]
    <2>1. l \in Seq(Values) /\ SetUpTo(l, s, ixs, items, j - 1) /\ j \in 0..n
      BY <1>1, <1>5
    <2>2. i \in 0..(Len(l) - 1) /\ v \in Values /\ i \in Int
      BY <2>1 DEF SetUpTo
    <2>3. calls[j][x.list] = InternalSet(k, l, i, v)
      BY <1>3
    <2> HIDE DEF l, i, v
    <2>4. calls[j][x.list].ok = TRUE /\ IsSet(m, l, i, v)
      BY <2>1, <2>2, <2>3, SetIsPlain
    <2> HIDE DEF m
    <2>5. m \in Seq(Values) /\ Len(m) = Len(s)
      BY <2>1, <2>4 DEF IsSet, SetUpTo
    <2>6. ASSUME NEW h \in 1..j PROVE m[ixs[h] + 1] = items[h]
      <3>1. CASE h = j
        BY <2>4, <3>1 DEF IsSet, i, v
      <3>2. CASE h # j
        <4>1. h \in 1..(j - 1) /\ h \in 1..n
          BY <1>1, <3>2
        <4>2. ixs[h] # i /\ ixs[h] \in 0..(Len(s) - 1)
          BY <3>2, <4>1 DEF i
        <4>3. ixs[h] + 1 # i + 1 /\ ixs[h] + 1 \in 1..Len(s)
          <5> DEFINE a == ixs[h]
          <5>1. a \in 0..(Len(s) - 1) /\ a # i /\ i \in Int /\ Len(s) \in Nat
            BY <2>2, <4>2
          <5> HIDE DEF a
          <5>2. a + 1 # i + 1 /\ a + 1 \in 1..Len(s)
            BY ONLY <5>1
          <5> QED BY <5>2 DEF a
        <4>4. m[ixs[h] + 1] = l[ixs[h] + 1]
          BY <2>1, <2>4, <4>3 DEF IsSet, SetUpTo
        <4> QED BY <2>1, <4>1, <4>4 DEF SetUpTo
      <3> QED BY <3>1, <3>2
    <2>7. ASSUME NEW e \in 1..Len(s), \A h \in 1..j : ixs[h] + 1 # e PROVE m[e] = s[e]
      <3>1. e # i + 1 /\ \A h \in 1..(j - 1) : ixs[h] + 1 # e
        BY <1>1, <2>7 DEF i
      <3> QED BY <2>1, <2>4, <3>1 DEF IsSet, SetUpTo
    <2>8. SetUpTo(m, s, ixs, items, j)
      BY <2>5, <2>6, <2>7 DEF SetUpTo
    <2> QED BY <2>1, <2>4, <2>5, <2>8 DEF m
  <1>6. \A x \in Answers(k), j \in 1..n : calls[j][x.list] \in Answers(k)
    BY <1>3
  <1>7. inv[n] = {l \in Seq(Values) : SetUpTo(l, s, ixs, items, n)}
    BY <1>1
  <1> HIDE DEF inv
  <1>8. \E l \in inv[Len(calls)] : l \in Seq(Values) /\ InTurn(s, calls) = Done(l)
    <2> DEFINE A == Answers(k)
    <2>1. A \subseteq [ok : BOOLEAN, list : Seq(Values)] /\ Done(s) \in A
      BY <1>2, AnswerIsProper DEF Answers
    <2>2. /\ Len(calls) \in Nat /\ \A x \in A, j \in 1..Len(calls) : calls[j][x.list] \in A
          /\ \A x \in A, j \in 1..Len(calls) :
                 x.list \in inv[j - 1] => calls[j][x.list].ok = TRUE /\ calls[j][x.list].list \in inv[j]
      BY <1>1, <1>5, <1>6
    <2> HIDE DEF A
    <2> QED BY ONLY <1>4, <2>1, <2>2, CallsReach
  <1> QED BY <1>1, <1>7, <1>8

\* The first and the last j values have changed places.
TurnedUpTo(l, s, j) ==
    /\ l \in Seq(Values) /\ Len(l) = Len(s)
    /\ \A i \in 1..Len(s) : l[i] = IF i <= j \/ i > Len(s) - j THEN s[Len(s) - i + 1] ELSE s[i]

LEMMA SwapIsPlain ==
    ASSUME NEW k, k # "composition", NEW s \in Seq(Values), NEW l, NEW j \in Nat, j > 0, j + j <= Len(s),
           TurnedUpTo(l, s, j - 1)
    PROVE  Swapped(k, l, j).ok = TRUE /\ TurnedUpTo(Swapped(k, l, j).list, s, j)
  <1> DEFINE n == Len(s)
             v == l[n - j + 1]
             one == InternalSet(k, l, j - 1, v)
             m == one.list
             u == l[j]
             two == InternalSet(k, m, n - j, u)
             w == two.list
  <1>1. l \in Seq(Values) /\ Len(l) = n /\ n \in Nat
    BY DEF TurnedUpTo
  <1>2. /\ j \in 1..n /\ n - j + 1 \in 1..n /\ j # n - j + 1 /\ j - 1 \in 0..(n - 1) /\ n - j \in 0..(n - 1)
        /\ (j - 1) + 1 = j /\ n - (n - j + 1) + 1 = j
        /\ ~(j <= j - 1) /\ ~(j > n - (j - 1)) /\ ~(n - j + 1 <= j - 1) /\ ~(n - j + 1 > n - (j - 1))
    <2> HIDE DEF n
    <2>1. n \in Nat /\ j \in Nat /\ j > 0 /\ j + j <= n
      BY <1>1 DEF n
    <2> QED BY ONLY <2>1
  <1>3. /\ \A i \in 1..n : l[i] = IF i <= j - 1 \/ i > n - (j - 1) THEN s[n - i + 1] ELSE s[i]
        /\ s[j] \in Values /\ s[n - j + 1] \in Values
    BY <1>2 DEF TurnedUpTo
  <1>4. u = s[j] /\ v = s[n - j + 1]
    BY <1>2, <1>3
  <1>5. Swapped(k, l, j) = Then(one, two)
    BY <1>1 DEF Swapped
  <1> HIDE DEF n, u, v
  <1>6. one.ok = TRUE /\ IsSet(m, l, j - 1, v)
    BY <1>1, <1>2, <1>3, <1>4, SetIsPlain
  <1> HIDE DEF one, m
  <1>7. m \in Seq(Values) /\ Len(m) = n /\ m[j] = v /\ \A i \in 1..n : i # j => m[i] = l[i]
    BY <1>1, <1>2, <1>6 DEF IsSet
  <1>8. two.ok = TRUE /\ IsSet(w, m, n - j, u)
    BY <1>2, <1>3, <1>4, <1>7, SetIsPlain
  <1> HIDE DEF two, w
  <1>9. w \in Seq(Values) /\ Len(w) = n /\ w[n - j + 1] = u /\ \A i \in 1..n : i # n - j + 1 => w[i] = m[i]
    BY <1>7, <1>8 DEF IsSet
  <1>10. ASSUME NEW i \in 1..n
         PROVE  w[i] = IF i <= j \/ i > n - j THEN s[n - i + 1] ELSE s[i]
    <2>1. CASE i = j
      <3>1. w[j] = v
        BY <1>2, <1>7, <1>9
      <3> QED BY <1>4, <2>1, <3>1
    <2>2. CASE i = n - j + 1
      <3>1. i > n - j
        BY <1>1, <2>2
      <3> QED BY <1>2, <1>4, <1>9, <2>2, <3>1
    <2>3. CASE i # j /\ i # n - j + 1
      <3>1. w[i] = l[i]
        BY <1>7, <1>9, <2>3
      <3>2. (i <= j \/ i > n - j) <=> (i <= j - 1 \/ i > n - (j - 1))
        BY ONLY <1>1, <2>3, i \in 1..n, j \in Nat
      <3> QED BY <1>3, <3>1, <3>2
    <2> QED BY <2>1, <2>2, <2>3
  <1>11. TurnedUpTo(w, s, j)
    BY <1>9, <1>10 DEF TurnedUpTo, n
  <1>12. Swapped(k, l, j) = two
    BY <1>5, <1>6 DEF Then
  <1> QED BY <1>8, <1>11, <1>12 DEF w

LEMMA SwappedIsProper ==
    ASSUME NEW k, k # "composition", NEW l \in Seq(Values), NEW j \in Nat, j > 0, j + j <= Len(l)
    PROVE  Swapped(k, l, j) \in Answers(k) /\ Len(Swapped(k, l, j).list) = Len(l)
  <1> DEFINE n == Len(l)
             v == l[n - j + 1]
             u == l[j]
             one == InternalSet(k, l, j - 1, v)
             m == one.list
             two == InternalSet(k, m, n - j, u)
  <1>1. n \in Nat /\ v \in Values /\ u \in Values /\ j - 1 \in Int /\ n - j \in Int /\ Proper(k, l)
    BY DEF Proper
  <1>2. Swapped(k, l, j) = Then(one, two)
    BY DEF Swapped
  <1> HIDE DEF n, u, v
  <1>3. one \in Answers(k) /\ Len(m) = n
    BY <1>1, SetIsProper, SetKeepsLength DEF n
  <1>4. Proper(k, m)
    BY <1>3 DEF Answers
  <1> HIDE DEF one, m
  <1>5. two \in Answers(k) /\ Len(two.list) = n
    BY <1>1, <1>3, <1>4, SetIsProper, SetKeepsLength
  <1> HIDE DEF two
  <1> QED BY <1>2, <1>3, <1>5 DEF Then, n, m

LEMMA TurnedIsReverse ==
    ASSUME NEW k, k # "composition", NEW s \in Seq(Values)
    PROVE  Turned(k, s) = Done(Reverse(s))
  <1> DEFINE n == Len(s)
             m == n \div 2
             calls == [j \in 1..m |-> [l \in Lists |-> Swapped(k, l, j)]]
             A == {x \in Answers(k) : Len(x.list) = n}
             inv == [j \in 0..m |-> {l \in Seq(Values) : TurnedUpTo(l, s, j)}]
  <1>1. n \in Nat /\ m \in Nat /\ m + m <= n /\ n <= m + m + 1
    <2>1. n \in Nat
      OBVIOUS
    <2> HIDE DEF n
    <2> QED BY <2>1
  <1>2. Turned(k, s) = InTurn(s, calls) /\ Len(calls) = m
    BY <1>1 DEF Turned
  <1>3. A \subseteq [ok : BOOLEAN, list : Seq(Values)] /\ Done(s) \in A
    <2>1. Proper(k, s)
      BY DEF Proper
    <2> QED BY <2>1, AnswerIsProper DEF Answers
  <1>4. ASSUME NEW x \in A, NEW j \in 1..m
        PROVE  calls[j][x.list] = Swapped(k, x.list, j) /\ calls[j][x.list] \in A
    <2> DEFINE l == x.list
    <2>1. l \in Lists /\ l \in Seq(Values) /\ Len(l) = n
      BY DEF Answers, Lists
    <2>2. calls[j][l] = Swapped(k, l, j)
      BY <2>1
    <2>3. j \in Nat /\ j > 0 /\ j + j <= n
      <3> HIDE DEF n, m
      <3> QED BY <1>1
    <2> HIDE DEF l, n
    <2>4. Swapped(k, l, j) \in Answers(k) /\ Len(Swapped(k, l, j).list) = n
      BY <2>1, <2>3, SwappedIsProper
    <2> HIDE DEF calls
    <2> QED BY <2>2, <2>4 DEF l
  <1> HIDE DEF calls
  <1>5. s \in inv[0]
    <2>1. ASSUME NEW i \in 1..n PROVE ~(i <= 0) /\ ~(i > n - 0)
      BY <1>1
    <2> QED BY <1>1, <2>1 DEF TurnedUpTo
  <1>6. ASSUME NEW x \in A, NEW j \in 1..m, x.list \in inv[j - 1]
        PROVE  calls[j][x.list].ok = TRUE /\ calls[j][x.list].list \in inv[j]
    <2> DEFINE l == x.list
               w == Swapped(k, l, j).list
    <2>1. l \in Seq(Values) /\ TurnedUpTo(l, s, j - 1) /\ j \in 0..m /\ j - 1 \in 0..m
      BY <1>1, <1>6
    <2>2. j \in Nat /\ j > 0 /\ j + j <= Len(s)
      <3>1. j + j <= n
        <4> HIDE DEF n, m
        <4> QED BY <1>1
      <3> QED BY <3>1
    <2> HIDE DEF l, A, inv
    <2>3. Swapped(k, l, j).ok = TRUE /\ TurnedUpTo(w, s, j)
      BY <2>1, <2>2, SwapIsPlain
    <2>4. w \in Seq(Values)
      BY <2>3 DEF TurnedUpTo
    <2> HIDE DEF w
    <2>5. w \in inv[j]
      BY <2>1, <2>3, <2>4 DEF inv
    <2> QED BY <1>4, <2>3, <2>5 DEF w, l
  <1>7. \E l \in inv[m] : l \in Seq(Values) /\ InTurn(s, calls) = Done(l)
    <2>1. /\ Len(calls) \in Nat /\ \A x \in A, j \in 1..Len(calls) : calls[j][x.list] \in A
          /\ \A x \in A, j \in 1..Len(calls) :
                 x.list \in inv[j - 1] => calls[j][x.list].ok = TRUE /\ calls[j][x.list].list \in inv[j]
      BY <1>1, <1>2, <1>4, <1>6
    <2> HIDE DEF A, inv
    <2>2. \E l \in inv[Len(calls)] : l \in Seq(Values) /\ InTurn(s, calls) = Done(l)
      BY ONLY <1>3, <1>5, <2>1, CallsReach
    <2> QED BY <1>2, <2>2
  <1>8. PICK l \in Seq(Values) : TurnedUpTo(l, s, m) /\ InTurn(s, calls) = Done(l)
    BY <1>1, <1>7
  <1>9. l = Reverse(s)
    <2>1. ASSUME NEW i \in 1..n PROVE l[i] = s[n - i + 1]
      <3>1. l[i] = IF i <= m \/ i > n - m THEN s[n - i + 1] ELSE s[i]
        BY <1>8 DEF TurnedUpTo
      <3>2. i <= m \/ i > n - m \/ (i = n - i + 1)
        <4> HIDE DEF n, m
        <4> QED BY <1>1
      <3> QED BY <3>1, <3>2
    <2>2. Len(l) = n
      BY <1>8 DEF TurnedUpTo
    <2>3. Reverse(s) = [i \in 1..n |-> s[n - i + 1]]
      BY DEF Reverse
    <2> QED BY <2>1, <2>2, <2>3
  <1> QED BY <1>2, <1>8, <1>9

--------------------------------------------------------------------------------
(* The indices of a slice.                                                     *)

LEMMA QuotientFits ==
    ASSUME NEW a \in Nat, NEW w \in Nat, w > 0
    PROVE  (a \div w) \in Nat /\ (a \div w) * w <= a /\ a < (a \div w) * w + w
  OBVIOUS

LEMMA ProductGrows ==
    ASSUME NEW a \in Nat, NEW b \in Nat, a <= b, NEW w \in Nat
    PROVE  a * w <= b * w
  <1>1. (b - a) * w >= 0
    OBVIOUS
  <1>2. (b - a) * w = b * w - a * w
    OBVIOUS
  <1>3. a * w \in Int /\ b * w \in Int
    OBVIOUS
  <1> QED BY <1>1, <1>2, <1>3

\* Indices inside a list of n, going up or down.
InOrder(ixs, step, n) ==
    /\ ixs \in Seq(Int) /\ \A j \in 1..Len(ixs) : ixs[j] \in 0..(n - 1)
    /\ \A j, h \in 1..Len(ixs) : j < h => IF step > 0 THEN ixs[j] < ixs[h] ELSE ixs[j] > ixs[h]

\* The j-th of the steps of width w through a room that is not empty is inside it.
LEMMA StepIsInside ==
    ASSUME NEW room \in Nat, room > 0, NEW w \in Nat, w > 0, NEW m, m = (room + w - 1) \div w,
           NEW j \in 1..m
    PROVE  m \in Nat /\ (j - 1) * w \in Nat /\ (j - 1) * w < room
  <1> DEFINE a == room + w - 1
  <1>1. a \in Nat /\ a - w < room
    OBVIOUS
  <1> HIDE DEF a
  <1>2. m \in Nat /\ m * w <= a
    BY <1>1, QuotientFits DEF a
  <1>3. j \in Nat /\ j <= m /\ j - 1 \in Nat
    BY <1>2
  <1>4. j * w <= m * w
    BY <1>2, <1>3, ProductGrows
  <1>5. (j - 1) * w = j * w - w /\ j * w \in Int /\ m * w \in Int
    BY <1>2, <1>3
  <1>6. (j - 1) * w \in Nat
    BY <1>3
  <1>7. (j - 1) * w < room
    BY <1>1, <1>2, <1>4, <1>5
  <1> QED BY <1>2, <1>6, <1>7

Low(step) == IF step > 0 THEN 0 ELSE -1
High(step, n) == IF step > 0 THEN n ELSE n - 1
Clip(i, step, n) ==
    IF i < 0 THEN (IF i + n < Low(step) THEN Low(step) ELSE i + n)
    ELSE IF i > High(step, n) THEN High(step, n) ELSE i
First(start, step, n) ==
    IF start # NULL THEN Clip(start, step, n) ELSE IF step > 0 THEN Low(step) ELSE High(step, n)
Stop(stop, step, n) ==
    IF stop # NULL THEN Clip(stop, step, n) ELSE IF step > 0 THEN High(step, n) ELSE Low(step)
Room(first, last, step) == IF step > 0 THEN last - first ELSE first - last
Width(step) == IF step > 0 THEN step ELSE -step
Count(room, w) == IF room <= 0 THEN 0 ELSE (room + w - 1) \div w

LEMMA IndicesUnfold ==
    ASSUME NEW start, NEW stop, NEW step, NEW n
    PROVE  Indices(start, stop, step, n)
             = [j \in 1..Count(Room(First(start, step, n), Stop(stop, step, n), step), Width(step))
                    |-> First(start, step, n) + (j - 1) * step]
  BY DEF Indices, Count, Room, First, Stop, Width, Clip, Low, High

LEMMA EndsAreInside ==
    ASSUME NEW e \in Int \cup {NULL}, NEW step \in Int, NEW n \in Nat
    PROVE  /\ First(e, step, n) \in Low(step)..High(step, n)
           /\ Stop(e, step, n) \in Low(step)..High(step, n)
  <1>1. Low(step) \in Int /\ High(step, n) \in Int /\ Low(step) <= High(step, n)
        /\ Low(step) <= 0 /\ Low(step) >= -1 /\ High(step, n) >= n - 1 /\ High(step, n) <= n
        /\ n + Low(step) = High(step, n)
    BY DEF Low, High
  <1>2. ASSUME NEW i \in Int PROVE Clip(i, step, n) \in Low(step)..High(step, n)
    <2>1. CASE i < 0
      BY <1>1, <2>1 DEF Clip
    <2>2. CASE i >= 0
      BY <1>1, <2>2 DEF Clip
    <2> QED BY <2>1, <2>2
  <1>3. Low(step) \in Low(step)..High(step, n) /\ High(step, n) \in Low(step)..High(step, n)
    BY <1>1
  <1> QED BY <1>2, <1>3 DEF First, Stop

LEMMA IndicesAre ==
    ASSUME NEW start \in Int \cup {NULL}, NEW stop \in Int \cup {NULL},
           NEW step \in Int, step # 0, NEW n \in Nat
    PROVE  InOrder(Indices(start, stop, step, n), step, n)
  <1> DEFINE first == First(start, step, n)
             last == Stop(stop, step, n)
             room == Room(first, last, step)
             w == Width(step)
             m == Count(room, w)
             ixs == [j \in 1..m |-> first + (j - 1) * step]
  <1>1. first \in Low(step)..High(step, n) /\ last \in Low(step)..High(step, n)
    BY EndsAreInside
  <1>2. Indices(start, stop, step, n) = ixs
    BY IndicesUnfold
  <1>3. first \in Int /\ last \in Int
        /\ IF step > 0 THEN first >= 0 /\ last <= n ELSE last >= -1 /\ first <= n - 1
    BY <1>1 DEF Low, High
  <1> HIDE DEF first, last
  <1>4. room \in Int /\ w \in Nat /\ w > 0
    BY <1>3 DEF Room, Width
  <1>5. m \in Nat /\ \A j \in 1..m : (j - 1) * w \in Nat /\ (j - 1) * w < room
    <2> HIDE DEF room, w
    <2>1. CASE room <= 0
      BY <1>4, <2>1 DEF Count
    <2>2. CASE room > 0
      <3>1. m = (room + w - 1) \div w /\ room \in Nat
        BY <1>4, <2>2 DEF Count
      <3>2. m \in Nat
        BY <1>4, <2>2, <3>1, QuotientFits
      <3> HIDE DEF m
      <3> QED BY <1>4, <2>2, <3>1, <3>2, StepIsInside
    <2> QED BY <1>4, <2>1, <2>2
  <1> HIDE DEF m
  <1>6. ASSUME NEW j \in 1..m
        PROVE  /\ first + (j - 1) * step \in 0..(n - 1)
               /\ first + (j - 1) * step = IF step > 0 THEN first + (j - 1) * w ELSE first - (j - 1) * w
    <2> DEFINE d == (j - 1) * w
    <2>1. d \in Nat /\ d < room
      BY <1>5
    <2>2. (j - 1) * step = IF step > 0 THEN d ELSE 0 - d
      <3>1. j - 1 \in Int
        BY <1>5
      <3> QED BY <3>1 DEF Width
    <2> DEFINE e == (j - 1) * step
    <2> HIDE DEF d, e
    <2>3. room = IF step > 0 THEN last - first ELSE first - last
      BY DEF Room
    <2> HIDE DEF room
    <2>4. e = IF step > 0 THEN d ELSE 0 - d
      BY <2>2 DEF e
    <2>5. n \in Nat /\ step \in Int
      OBVIOUS
    <2>6. first + e \in 0..(n - 1) /\ first + e = IF step > 0 THEN first + d ELSE first - d
      BY ONLY <1>3, <2>1, <2>3, <2>4, <2>5
    <2> QED BY <2>6 DEF d, e
  <1>7. ASSUME NEW j \in 1..m, NEW h \in 1..m, j < h
        PROVE  (j - 1) * w < (h - 1) * w
    <2>1. j \in Nat /\ h - 1 \in Nat /\ j <= h - 1 /\ j - 1 \in Nat
      BY <1>5, <1>7
    <2>2. j * w <= (h - 1) * w
      BY <1>4, <2>1, ProductGrows
    <2>3. (j - 1) * w = j * w - w /\ j * w \in Int /\ (h - 1) * w \in Int
      BY <1>4, <2>1
    <2> QED BY <1>4, <2>2, <2>3
  <1>8. ixs \in Seq(Int) /\ Len(ixs) = m /\ \A j \in 1..m : ixs[j] = first + (j - 1) * step
    <2>1. \A j \in 1..m : first + (j - 1) * step \in Int
      BY <1>6
    <2>2. m \in Nat
      BY <1>5
    <2> QED BY ONLY <2>1, <2>2
  <1> HIDE DEF ixs, w, room
  <1>9. ASSUME NEW j \in 1..m, NEW h \in 1..m, j < h
        PROVE  IF step > 0 THEN ixs[j] < ixs[h] ELSE ixs[j] > ixs[h]
    <2> DEFINE a == (j - 1) * w
               b == (h - 1) * w
    <2>1. a < b /\ a \in Nat /\ b \in Nat
      BY <1>5, <1>7, <1>9
    <2>2. ixs[j] = (IF step > 0 THEN first + a ELSE first - a)
          /\ ixs[h] = (IF step > 0 THEN first + b ELSE first - b)
      BY <1>6, <1>8
    <2> HIDE DEF a, b
    <2> QED BY <1>3, <2>1, <2>2
  <1> QED BY <1>2, <1>6, <1>8, <1>9 DEF InOrder

--------------------------------------------------------------------------------
(* A list without some places.                                                 *)

\* e names the members of K, from the smallest to the greatest.
Enumerates(e, K) ==
    /\ e \in Seq(Nat) /\ \A p \in 1..Len(e) : e[p] \in K
    /\ \A p, q \in 1..Len(e) : p < q => e[p] < e[q]
    /\ \A i \in K : \E p \in 1..Len(e) : e[p] = i

LEMMA BelowAre ==
    ASSUME NEW K, NEW e, Enumerates(e, K), NEW p \in 1..(Len(e) + 1), NEW B,
           B = {i \in K : \E q \in 1..(p - 1) : e[q] = i}
    PROVE  Cardinality(B) = p - 1
  <1> DEFINE n == p - 1
             f == [q \in 1..n |-> e[q]]
  <1>1. n \in Nat /\ \A q \in 1..n : q \in 1..Len(e) /\ q \in Nat
    BY DEF Enumerates
  <1>2. f \in [1..n -> B]
    BY <1>1 DEF Enumerates
  <1>3. \A a, b \in 1..n : f[a] = f[b] => a = b
    <2> SUFFICES ASSUME NEW a \in 1..n, NEW b \in 1..n, a # b PROVE f[a] # f[b]
      OBVIOUS
    <2>1. e[a] \in Nat /\ e[b] \in Nat /\ a \in Nat /\ b \in Nat
      BY <1>1 DEF Enumerates
    <2>2. a < b \/ b < a
      BY <2>1
    <2>3. e[a] < e[b] \/ e[b] < e[a]
      BY <1>1, <2>2 DEF Enumerates
    <2> QED BY <2>1, <2>3
  <1>4. \A i \in B : \E q \in 1..n : f[q] = i
    OBVIOUS
  <1> HIDE DEF f, n
  <1>5. f \in Bijection(1..n, B)
    BY <1>2, <1>3, <1>4 DEF Bijection, Injection, Surjection, IsInjective
  <1>6. ExistsBijection(1..n, B)
    BY <1>5 DEF ExistsBijection
  <1>7. Cardinality(B) = n
    BY <1>1, <1>6, FS_CountingElements
  <1> QED BY <1>7 DEF n

LEMMA EnumeratedAre ==
    ASSUME NEW K, NEW e, Enumerates(e, K)
    PROVE  /\ Cardinality(K) = Len(e)
           /\ \A p \in 1..Len(e) :
                  (CHOOSE i \in K : Cardinality({h \in K : h < i}) = p - 1) = e[p]
  <1> DEFINE n == Len(e)
             Below(i) == {h \in K : h < i}
             At(p) == CHOOSE i \in K : Cardinality(Below(i)) = p - 1
  <1>1. n \in Nat
    BY DEF Enumerates
  <1>2. Cardinality(K) = n
    <2> DEFINE B == {i \in K : \E q \in 1..n : e[q] = i}
               m == n + 1
    <2>1. m \in 1..(n + 1) /\ m - 1 = n
      BY <1>1
    <2>2. B = K
      BY DEF Enumerates
    <2>3. B = {i \in K : \E q \in 1..(m - 1) : e[q] = i}
      BY <2>1
    <2> HIDE DEF B, m
    <2>4. Cardinality(B) = m - 1
      BY <2>1, <2>3, BelowAre
    <2> QED BY <2>1, <2>2, <2>4
  <1>3. ASSUME NEW p \in 1..n PROVE Cardinality(Below(e[p])) = p - 1
    <2> DEFINE B == Below(e[p])
    <2>1. p \in Nat /\ e[p] \in Nat /\ p \in 1..(n + 1)
      BY <1>1 DEF Enumerates
    <2>2. \A q \in 1..n : e[q] \in Nat /\ q \in Nat /\ (q < p => e[q] < e[p]) /\ (p < q => e[p] < e[q])
      BY <1>1 DEF Enumerates
    <2>3. \A q \in 1..n : e[q] < e[p] <=> q \in 1..(p - 1)
      BY <2>1, <2>2
    <2>4. \A q \in 1..(p - 1) : q \in 1..n
      BY <1>1
    <2>5. B = {i \in K : \E q \in 1..(p - 1) : e[q] = i}
      BY <2>3, <2>4 DEF Enumerates
    <2> HIDE DEF B
    <2> QED BY <2>1, <2>5, BelowAre DEF B
  <1>4. ASSUME NEW p \in 1..n PROVE At(p) = e[p]
    <2>1. e[p] \in K /\ Cardinality(Below(e[p])) = p - 1
      BY <1>3 DEF Enumerates
    <2>2. ASSUME NEW i \in K, Cardinality(Below(i)) = p - 1 PROVE i = e[p]
      <3>1. PICK q \in 1..n : e[q] = i
        BY DEF Enumerates
      <3>2. q - 1 = p - 1
        BY <1>3, <2>2, <3>1
      <3>3. q = p
        BY <1>1, <3>2
      <3> QED BY <3>1, <3>3
    <2> HIDE DEF Below
    <2> QED BY <2>1, <2>2
  <1> QED BY <1>2, <1>4

Picked(s, K) ==
    [j \in 1..Cardinality(K) |-> s[CHOOSE i \in K : Cardinality({h \in K : h < i}) = j - 1]]

\* A list of the values at the places of K, in their order.
Picks(l, s, e, K) ==
    /\ Enumerates(e, K) /\ l \in Seq(Values) /\ Len(l) = Len(e)
    /\ \A p \in 1..Len(e) : l[p] = s[e[p]]

LEMMA PickedIs ==
    ASSUME NEW s, NEW K, NEW e, NEW l, Picks(l, s, e, K)
    PROVE  l = Picked(s, K)
  <1> DEFINE At(p) == CHOOSE i \in K : Cardinality({h \in K : h < i}) = p - 1
             n == Len(e)
  <1>1. Cardinality(K) = n /\ \A p \in 1..n : At(p) = e[p]
    BY EnumeratedAre DEF Picks
  <1>2. l = [p \in 1..n |-> l[p]] /\ \A p \in 1..n : l[p] = s[e[p]]
    BY DEF Picks
  <1>3. Picked(s, K) = [p \in 1..n |-> s[At(p)]]
    BY <1>1 DEF Picked
  <1> HIDE DEF At, n
  <1> QED BY <1>1, <1>2, <1>3

Skip(e, i) == [p \in 1..(Len(e) - 1) |-> IF p <= i THEN e[p] ELSE e[p + 1]]

\* d is shorter than e by one, and begins as e does.
Shorter(d, e, i) == Len(d) = Len(e) - 1 /\ \A p \in 1..i : d[p] = e[p]

LEMMA PicksOneLess ==
    ASSUME NEW s, NEW K, NEW e, NEW l, Picks(l, s, e, K), NEW i \in 0..(Len(e) - 1),
           NEW m, IsWithout(m, l, i)
    PROVE  Picks(m, s, Skip(e, i), K \ {e[i + 1]}) /\ Shorter(Skip(e, i), e, i)
  <1> DEFINE n == Len(e)
             d == Skip(e, i)
             L == K \ {e[i + 1]}
  <1>1. n \in Nat /\ i \in Nat /\ i + 1 \in 1..n /\ n - 1 \in Nat
    BY DEF Picks, Enumerates
  <1>2. /\ e \in Seq(Nat) /\ \A p \in 1..n : e[p] \in K /\ e[p] \in Nat
        /\ \A p, q \in 1..n : p < q => e[p] < e[q]
        /\ \A h \in K : \E p \in 1..n : e[p] = h
        /\ Len(l) = n /\ \A p \in 1..n : l[p] = s[e[p]]
    <2>1. Enumerates(e, K) /\ Len(l) = n /\ \A p \in 1..n : l[p] = s[e[p]]
      BY DEF Picks
    <2>2. e \in Seq(Nat) /\ \A p \in 1..n : e[p] \in K
      BY <2>1 DEF Enumerates
    <2>3. \A p \in 1..n : e[p] \in Nat
      BY <2>2
    <2>4. /\ \A p, q \in 1..n : p < q => e[p] < e[q]
          /\ \A h \in K : \E p \in 1..n : e[p] = h
      BY <2>1, Zenon DEF Enumerates
    <2> QED BY <2>1, <2>2, <2>3, <2>4, Zenon
  <1>3. /\ m \in Seq(Values) /\ Len(m) = n - 1
        /\ \A h \in 1..i : m[h] = l[h]
        /\ \A h \in (i + 1)..(n - 1) : m[h] = l[h + 1]
    BY <1>2 DEF IsWithout
  <1>4. /\ d = [p \in 1..(n - 1) |-> IF p <= i THEN e[p] ELSE e[p + 1]]
        /\ \A p \in 1..(n - 1) : p \in 1..n /\ p + 1 \in 1..n
    BY <1>1 DEF Skip
  <1> HIDE DEF n, d
  <1>5. d \in Seq(Nat) /\ Len(d) = n - 1 /\ \A p \in 1..(n - 1) : d[p] = IF p <= i THEN e[p] ELSE e[p + 1]
    <2>1. \A p \in 1..(n - 1) : (IF p <= i THEN e[p] ELSE e[p + 1]) \in Nat
      BY <1>2, <1>4
    <2> QED BY <1>1, <1>4, <2>1
  <1>6. ASSUME NEW p \in 1..n, NEW q \in 1..n PROVE e[p] = e[q] => p = q
    <2>1. p < q \/ q < p \/ p = q
      BY <1>1
    <2> QED BY <1>2, <2>1
  <1>7. ASSUME NEW p \in 1..(n - 1) PROVE d[p] \in L
    <2>1. CASE p <= i
      <3>1. p # i + 1
        BY <1>1, <2>1
      <3> QED BY <1>1, <1>2, <1>4, <1>5, <1>6, <2>1, <3>1
    <2>2. CASE ~(p <= i)
      <3>1. p + 1 # i + 1
        BY <1>1, <2>2
      <3> QED BY <1>1, <1>2, <1>4, <1>5, <1>6, <2>2, <3>1
    <2> QED BY <2>1, <2>2
  <1>8. ASSUME NEW p \in 1..(n - 1), NEW q \in 1..(n - 1), p < q PROVE d[p] < d[q]
    <2> DEFINE a == IF p <= i THEN p ELSE p + 1
               b == IF q <= i THEN q ELSE q + 1
    <2>1. a \in 1..n /\ b \in 1..n /\ a < b
      BY <1>1, <1>8
    <2>2. d[p] = e[a] /\ d[q] = e[b]
      BY <1>5
    <2> QED BY <1>2, <2>1, <2>2
  <1>9. ASSUME NEW h \in L PROVE \E p \in 1..(n - 1) : d[p] = h
    <2>1. PICK q \in 1..n : e[q] = h
      BY <1>2
    <2>2. q # i + 1
      BY <2>1
    <2> DEFINE p == IF q <= i THEN q ELSE q - 1
    <2>3. p \in 1..(n - 1) /\ (IF p <= i THEN q = p ELSE q = p + 1)
      BY <1>1, <2>2
    <2>4. d[p] = h
      BY <1>5, <2>1, <2>3
    <2> QED BY <2>3, <2>4
  <1>10. Enumerates(d, L)
    BY <1>5, <1>7, <1>8, <1>9 DEF Enumerates
  <1>11. ASSUME NEW p \in 1..(n - 1) PROVE m[p] = s[d[p]]
    <2>1. CASE p <= i
      <3>1. p \in 1..i
        BY <1>1, <2>1
      <3> QED BY <1>2, <1>3, <1>4, <1>5, <2>1, <3>1
    <2>2. CASE ~(p <= i)
      <3>1. p \in (i + 1)..(n - 1)
        BY <1>1, <2>2
      <3> QED BY <1>2, <1>3, <1>4, <1>5, <2>2, <3>1
    <2> QED BY <2>1, <2>2
  <1>12. Picks(m, s, d, L)
    BY <1>3, <1>5, <1>10, <1>11 DEF Picks
  <1>13. \A p \in 1..i : p \in 1..(n - 1) /\ p <= i
    BY <1>1
  <1>14. Shorter(d, e, i)
    BY <1>5, <1>13 DEF n, Shorter
  <1> QED BY <1>12, <1>14 DEF d

\* What is left when the last j of the indices are deleted; in front of them every
\* value is at its place.
Left(n, ixs, j) == {i \in 1..n : \A h \in (Len(ixs) - j + 1)..Len(ixs) : ixs[h] + 1 # i}

DeletedUpTo(l, s, ixs, j) ==
    \E e : /\ Picks(l, s, e, Left(Len(s), ixs, j))
           /\ \A p \in 1..Len(s) : (\A h \in (Len(ixs) - j + 1)..Len(ixs) : p <= ixs[h])
                                       => p \in 1..Len(e) /\ e[p] = p

LEMMA DelOneMore ==
    ASSUME NEW k, NEW s \in Seq(Values), NEW ixs, NEW step \in Int, step > 0, InOrder(ixs, step, Len(s)),
           NEW j \in 1..Len(ixs), NEW l, DeletedUpTo(l, s, ixs, j - 1),
           NEW i, i = ixs[Len(ixs) - j + 1]
    PROVE  /\ InternalDel(k, l, i).ok = TRUE
           /\ DeletedUpTo(InternalDel(k, l, i).list, s, ixs, j)
  <1> DEFINE n == Len(s)
             m == Len(ixs)
             g == m - j + 1
             w == InternalDel(k, l, i).list
             K == Left(n, ixs, j - 1)
  <1>1. /\ n \in Nat /\ m \in Nat /\ g \in 1..m /\ m - (j - 1) + 1 = g + 1 /\ i \in 0..(n - 1)
        /\ \A h \in 1..m : ixs[h] \in 0..(n - 1)
        /\ \A a, b \in 1..m : a < b => ixs[a] < ixs[b]
    BY DEF InOrder
  <1>2. PICK e : /\ Picks(l, s, e, K)
                 /\ \A p \in 1..n : (\A h \in (g + 1)..m : p <= ixs[h]) => p \in 1..Len(e) /\ e[p] = p
    BY <1>1 DEF DeletedUpTo
  <1>3. K = {p \in 1..n : \A h \in (g + 1)..m : ixs[h] + 1 # p}
    BY <1>1 DEF Left
  <1>4. Left(n, ixs, j) = {p \in 1..n : \A h \in g..m : ixs[h] + 1 # p}
    BY DEF Left
  <1> HIDE DEF n, K, w
  <1>5. m \in Nat /\ g \in 1..m /\ ixs[g] = i
    BY <1>1
  <1> HIDE DEF m, g
  <1>6. \A h \in (g + 1)..m : h \in 1..m /\ i + 1 <= ixs[h]
    <2> SUFFICES ASSUME NEW h \in (g + 1)..m PROVE h \in 1..m /\ i + 1 <= ixs[h]
      OBVIOUS
    <2>1. h \in 1..m /\ g < h
      BY <1>5
    <2>2. ixs[g] < ixs[h] /\ ixs[h] \in Int
      BY <1>1, <1>5, <2>1
    <2> QED BY <1>1, <1>5, <2>1, <2>2
  <1>7. i + 1 \in 1..Len(e) /\ e[i + 1] = i + 1
    <2>1. i + 1 \in 1..n
      BY <1>1
    <2> QED BY <1>2, <1>6, <2>1
  <1>8. l \in Seq(Values) /\ Len(l) = Len(e) /\ Len(e) \in Nat
    BY <1>2 DEF Picks, Enumerates
  <1>9. i \in 0..(Len(l) - 1) /\ i \in 0..(Len(e) - 1)
    BY <1>1, <1>7, <1>8
  <1>10. InternalDel(k, l, i).ok = TRUE /\ IsWithout(w, l, i)
    BY <1>8, <1>9, DelIsPlain DEF w
  <1> DEFINE d == Skip(e, i)
  <1> HIDE DEF d
  <1>11. /\ Picks(w, s, d, K \ {e[i + 1]}) /\ Len(d) = Len(e) - 1
         /\ \A p \in 1..i : d[p] = e[p]
    <2>1. Picks(w, s, d, K \ {e[i + 1]}) /\ Shorter(d, e, i)
      BY ONLY <1>2, <1>9, <1>10, PicksOneLess DEF d
    <2> QED BY <2>1, Zenon DEF Shorter
  <1>12. K \ {e[i + 1]} = Left(n, ixs, j)
    <2>1. \A h \in g..m : h = g \/ h \in (g + 1)..m
      BY <1>5
    <2>2. g \in g..m /\ \A h \in (g + 1)..m : h \in g..m
      BY <1>5
    <2> QED BY <1>3, <1>4, <1>5, <1>7, <2>1, <2>2
  <1>13. ASSUME NEW p \in 1..n, \A h \in g..m : p <= ixs[h] PROVE p \in 1..Len(d) /\ d[p] = p
    <2>1. p <= i /\ \A h \in (g + 1)..m : p <= ixs[h]
      BY <1>5, <1>13
    <2>2. p \in 1..i /\ e[p] = p
      BY <1>1, <1>2, <2>1
    <2>3. p \in 1..Len(d)
      BY <1>1, <1>7, <1>8, <1>11, <2>2
    <2> QED BY <1>11, <2>2, <2>3
  <1>14. DeletedUpTo(w, s, ixs, j)
    BY <1>11, <1>12, <1>13 DEF DeletedUpTo, n, m, g
  <1> QED BY <1>10, <1>14 DEF w

LEMMA DeletedIs ==
    ASSUME NEW k, NEW s, Proper(k, s), NEW ixs, NEW step \in Int, step > 0, InOrder(ixs, step, Len(s))
    PROVE  LET kept == {i \in 1..Len(s) : i - 1 \notin Range(ixs)}
           IN  /\ DeleteAll(k, s, Reverse(ixs)) = Done(Picked(s, kept))
               /\ Proper(k, Picked(s, kept))
  <1> DEFINE m == Len(ixs)
             n == Len(s)
             back == Reverse(ixs)
             calls == [j \in 1..Len(back) |-> [l \in Lists |-> InternalDel(k, l, back[j])]]
             inv == [j \in 0..m |-> {l \in Seq(Values) : DeletedUpTo(l, s, ixs, j)}]
             A == Answers(k)
             kept == {i \in 1..n : i - 1 \notin Range(ixs)}
  <1>1. s \in Seq(Values) /\ n \in Nat /\ m \in Nat /\ ixs \in Seq(Int)
    BY DEF Proper, InOrder
  <1>2. Len(back) = m /\ back \in Seq(Int) /\ \A j \in 1..m : back[j] = ixs[m - j + 1]
    BY <1>1 DEF Reverse
  <1> HIDE DEF back
  <1>3. DeleteAll(k, s, back) = InTurn(s, calls) /\ Len(calls) = m
    BY <1>1, <1>2 DEF DeleteAll
  <1>4. A \subseteq [ok : BOOLEAN, list : Seq(Values)] /\ Done(s) \in A
    BY AnswerIsProper DEF Answers
  <1>5. ASSUME NEW x \in A, NEW j \in 1..m
        PROVE  calls[j][x.list] = InternalDel(k, x.list, ixs[m - j + 1]) /\ calls[j][x.list] \in A
    <2>1. x.list \in Lists /\ Proper(k, x.list) /\ back[j] \in Int
      BY <1>2 DEF Answers, Lists
    <2>2. calls[j][x.list] = InternalDel(k, x.list, back[j])
      BY <1>2, <2>1
    <2>3. InternalDel(k, x.list, back[j]) \in A
      BY <2>1, DelIsProper
    <2> QED BY <1>2, <2>2, <2>3
  <1> HIDE DEF calls, A
  <1>6. s \in inv[0]
    <2> DEFINE e == [p \in 1..n |-> p]
    <2>1. Left(n, ixs, 0) = 1..n
      BY <1>1 DEF Left
    <2>2. e \in Seq(Nat) /\ Len(e) = n /\ \A p \in 1..n : e[p] = p
      BY <1>1
    <2> HIDE DEF e
    <2>3. Enumerates(e, 1..n)
      BY <2>2 DEF Enumerates
    <2>4. Picks(s, s, e, Left(n, ixs, 0))
      BY <1>1, <2>1, <2>2, <2>3 DEF Picks
    <2>5. DeletedUpTo(s, s, ixs, 0)
      BY <2>2, <2>4 DEF DeletedUpTo
    <2> QED BY <1>1, <2>5
  <1>7. ASSUME NEW x \in A, NEW j \in 1..m, x.list \in inv[j - 1]
        PROVE  calls[j][x.list].ok = TRUE /\ calls[j][x.list].list \in inv[j]
    <2> DEFINE l == x.list
               i == ixs[m - j + 1]
               w == InternalDel(k, l, i).list
    <2>1. DeletedUpTo(l, s, ixs, j - 1) /\ j \in 0..m
      BY <1>1, <1>7
    <2> HIDE DEF l, i
    <2>2. InternalDel(k, l, i).ok = TRUE /\ DeletedUpTo(w, s, ixs, j)
      BY <1>1, <2>1, DelOneMore DEF i
    <2> HIDE DEF w
    <2>3. w \in Seq(Values)
      BY <2>2 DEF DeletedUpTo, Picks
    <2>4. w \in inv[j]
      BY <2>1, <2>2, <2>3
    <2> HIDE DEF inv
    <2> QED BY <1>5, <2>2, <2>4 DEF w, l, i
  <1>8. inv[m] = {l \in Seq(Values) : DeletedUpTo(l, s, ixs, m)}
    BY <1>1
  <1> HIDE DEF inv
  <1>9. PICK l \in Seq(Values) : DeletedUpTo(l, s, ixs, m) /\ InTurn(s, calls) = Done(l)
    <2>1. /\ Len(calls) \in Nat /\ \A x \in A, j \in 1..Len(calls) : calls[j][x.list] \in A
          /\ \A x \in A, j \in 1..Len(calls) :
                 x.list \in inv[j - 1] => calls[j][x.list].ok = TRUE /\ calls[j][x.list].list \in inv[j]
      BY <1>1, <1>3, <1>5, <1>7
    <2>2. \E l \in inv[Len(calls)] : l \in Seq(Values) /\ InTurn(s, calls) = Done(l)
      BY ONLY <1>4, <1>6, <2>1, CallsReach
    <2> QED BY <1>3, <1>8, <2>2
  <1>10. l = Picked(s, kept)
    <2>1. Left(n, ixs, m) = kept
      <3>1. Left(n, ixs, m) = {i \in 1..n : \A h \in 1..m : ixs[h] + 1 # i}
        BY <1>1 DEF Left
      <3>2. \A i \in 1..n : (i - 1 \notin Range(ixs)) <=> \A h \in 1..m : ixs[h] # i - 1
        BY <1>1 DEF Range
      <3>3. \A i \in 1..n, h \in 1..m : ixs[h] # i - 1 <=> ixs[h] + 1 # i
        BY <1>1
      <3> QED BY <3>1, <3>2, <3>3
    <2>2. PICK e : Picks(l, s, e, kept)
      BY <1>9, <2>1 DEF DeletedUpTo
    <2> HIDE DEF kept
    <2> QED BY <2>2, PickedIs
  <1>11. DeleteAll(k, s, back) \in A
    BY <1>2, DeleteAllIsProper DEF A
  <1>12. Proper(k, l)
    BY <1>3, <1>9, <1>11 DEF A, Answers, Done
  <1> QED BY <1>3, <1>9, <1>10, <1>12 DEF back

LEMMA EdgesAreInts == \A e \in Edge : e \in Int \cup {NULL}
  BY SequenceAssumption DEF Edge

LEMMA DeletionsAre ==
    ASSUME Held
    PROVE  DeletionsLikeAList
  <1> SUFFICES ASSUME NEW start \in Edge, NEW stop \in Edge, NEW step \in Steps, step > 0
      PROVE  DeleteSlice(kind, list, start, stop, step) = Done(ListWithout(start, stop, step))
    BY DEF DeletionsLikeAList
  <1> DEFINE n == Len(list)
             ixs == Indices(start, stop, step, n)
             kept == {i \in 1..n : i - 1 \notin Range(ixs)}
  <1>1. Proper(kind, list) /\ list \in Seq(Values) /\ n \in Nat /\ DOMAIN list = 1..n
    BY DEF Held, Proper
  <1>2. step \in Int /\ step # 0 /\ start \in Int \cup {NULL} /\ stop \in Int \cup {NULL}
    BY SequenceAssumption, EdgesAreInts
  <1>3. InOrder(ixs, step, n)
    BY <1>1, <1>2, IndicesAre
  <1>4. ListWithout(start, stop, step) = Picked(list, kept)
    BY <1>1 DEF ListWithout, Picked
  <1>5. DeleteSlice(kind, list, start, stop, step) = DeleteAll(kind, list, Reverse(ixs))
    BY DEF DeleteSlice
  <1> HIDE DEF ixs
  <1>6. DeleteAll(kind, list, Reverse(ixs)) = Done(Picked(list, kept))
    BY <1>1, <1>2, <1>3, DeletedIs
  <1> QED BY <1>4, <1>5, <1>6

LEMMA ExtendedIs ==
    ASSUME Held
    PROVE  ExtendedLikeAList
  <1> SUFFICES ASSUME kind # "composition" PROVE ExtendedLikeAList
    BY DEF ExtendedLikeAList
  <1> DEFINE n == Len(list)
  <1>1. list \in Seq(Values) /\ n \in Nat /\ DOMAIN list = 1..n
    BY DEF Held, Proper
  <1>2. Turned(kind, list) = Done(Reverse(list))
    BY <1>1, TurnedIsReverse
  <1>3. ASSUME NEW start \in Edge, NEW stop \in Edge, NEW step \in Steps \ {1}, NEW items \in Items,
               NEW ixs, ixs = Indices(start, stop, step, n),
               NEW answer, answer = SetExtended(kind, list, start, stop, step, items)
        PROVE  IF Len(items) # Len(ixs) THEN answer = Refused(list)
               ELSE /\ answer.ok /\ Len(answer.list) = n
                    /\ \A j \in DOMAIN ixs : answer.list[ixs[j] + 1] = items[j]
                    /\ \A i \in DOMAIN list : i - 1 \notin Range(ixs) => answer.list[i] = list[i]
    <2>1. CASE Len(items) # Len(ixs)
      BY <1>3, <2>1 DEF SetExtended
    <2>2. CASE Len(items) = Len(ixs)
      <3>1. step \in Int /\ step # 0 /\ start \in Int \cup {NULL} /\ stop \in Int \cup {NULL}
        BY SequenceAssumption, EdgesAreInts
      <3>2. InOrder(ixs, step, n)
        BY <1>1, <1>3, <3>1, IndicesAre
      <3>3. /\ ixs \in Seq(Int) /\ DOMAIN ixs = 1..Len(ixs)
            /\ \A j \in 1..Len(ixs) : ixs[j] \in 0..(n - 1)
            /\ \A j, h \in 1..Len(ixs) : j < h => IF step > 0 THEN ixs[j] < ixs[h] ELSE ixs[j] > ixs[h]
        BY <3>2 DEF InOrder
      <3>4. ASSUME NEW j \in 1..Len(ixs), NEW h \in 1..Len(ixs), j # h PROVE ixs[j] # ixs[h]
        <4>1. ixs[j] \in Int /\ ixs[h] \in Int
          BY <3>3
        <4>2. j < h \/ h < j
          BY <3>3, <3>4
        <4>3. CASE j < h
          BY <3>1, <3>3, <4>1, <4>3
        <4>4. CASE h < j
          BY <3>1, <3>3, <4>1, <4>4
        <4> QED BY <4>2, <4>3, <4>4
      <3>5. items \in Seq(Values)
        BY ItemsAreValues
      <3>6. answer = SetAll(kind, list, ixs, items)
        BY <1>3, <2>2 DEF SetExtended
      <3> HIDE DEF n
      <3>7. PICK l \in Seq(Values) : answer = Done(l) /\ SetUpTo(l, list, ixs, items, Len(ixs))
        BY <1>1, <2>2, <3>3, <3>4, <3>5, <3>6, SetAllIs DEF n
      <3>8. answer.ok = TRUE /\ answer.list = l
        BY <3>7 DEF Done
      <3>9. /\ Len(l) = n /\ \A j \in 1..Len(ixs) : l[ixs[j] + 1] = items[j]
            /\ \A i \in 1..n : (\A h \in 1..Len(ixs) : ixs[h] + 1 # i) => l[i] = list[i]
        BY <3>7 DEF SetUpTo, n
      <3>10. ASSUME NEW i \in 1..n, i - 1 \notin Range(ixs) PROVE l[i] = list[i]
        <4>1. \A h \in 1..Len(ixs) : ixs[h] # i - 1 /\ ixs[h] \in Int
          BY <3>3, <3>10 DEF Range
        <4>2. \A h \in 1..Len(ixs) : ixs[h] + 1 # i
          BY <4>1
        <4> QED BY <3>9, <4>2
      <3> QED BY <1>1, <2>2, <3>3, <3>8, <3>9, <3>10
    <2> QED BY <2>1, <2>2
  <1> QED BY <1>2, <1>3 DEF ExtendedLikeAList

--------------------------------------------------------------------------------
(* A slice without a step.                                                     *)

Spliced(s, a, b, items) == SubSeq(s, 1, a) \o items \o SubSeq(s, b + 1, Len(s))

\* Where the slice begins and ends, and the indices that are in it.
IsSliceOf(a, b, ixs, start, n) ==
    /\ a \in 0..n /\ b \in a..n
    /\ ixs = [j \in 1..(b - a) |-> a + (j - 1)]
    /\ start \in Nat /\ a = IF start < n THEN start ELSE n

LEMMA SliceUnfolds ==
    ASSUME NEW start \in Int \cup {NULL}, NEW stop \in Int \cup {NULL}, NEW items,
           start = NULL \/ start >= 0, list \in Seq(Values)
    PROVE  \E a, b : /\ IsSliceOf(a, b, Indices(start, stop, 1, Len(list)),
                                  IF start = NULL THEN 0 ELSE start, Len(list))
                     /\ ListSlice(start, stop, items) = Spliced(list, a, b, items)
  <1> DEFINE n == Len(list)
             i == IF start = NULL THEN 0 ELSE start
             first == First(start, 1, n)
             last == Stop(stop, 1, n)
             b == IF last < first THEN first ELSE last
             m == Count(Room(first, last, 1), Width(1))
  <1>1. n \in Nat /\ i \in Nat
    OBVIOUS
  <1>2. first \in 0..n /\ last \in 0..n /\ first = IF i < n THEN i ELSE n
    <2>1. first \in 0..n /\ last \in 0..n
      <3>1. Low(1) = 0 /\ High(1, n) = n
        BY DEF Low, High
      <3> DEFINE one == 1
      <3>2. one \in Int
        OBVIOUS
      <3> HIDE DEF one, n
      <3>3. First(start, one, n) \in Low(one)..High(one, n) /\ Stop(stop, one, n) \in Low(one)..High(one, n)
        BY ONLY <1>1, <3>2, EndsAreInside, start \in Int \cup {NULL}, stop \in Int \cup {NULL}
      <3> QED BY <3>1, <3>3 DEF one
    <2>2. first = IF i < n THEN i ELSE n
      BY <1>1 DEF First, Clip, Low, High
    <2> QED BY <2>1, <2>2
  <1>3. Indices(start, stop, 1, n) = [j \in 1..m |-> first + (j - 1) * 1]
    BY IndicesUnfold
  <1>4. ListSlice(start, stop, items) = Spliced(list, first, b, items)
    <2> DEFINE clip(e) == IF e < -n THEN 0 ELSE IF e < 0 THEN n + e ELSE IF e > n THEN n ELSE e
               f == IF start = NULL THEN 0 ELSE clip(start)
               g == IF stop = NULL THEN n ELSE clip(stop)
    <2>1. \A e \in Int : clip(e) = Clip(e, 1, n)
      BY <1>1 DEF Clip, Low, High
    <2>2. f = first /\ g = last
      BY <2>1 DEF First, Stop, Low, High
    <2>3. ListSlice(start, stop, items)
            = SubSeq(list, 1, f) \o items \o SubSeq(list, (IF g < f THEN f ELSE g) + 1, n)
      BY DEF ListSlice
    <2> HIDE DEF first, last, f, g
    <2> QED BY <2>2, <2>3, Zenon DEF Spliced
  <1> HIDE DEF first, last
  <1>5. b \in first..n /\ m = b - first
    <2>1. Room(first, last, 1) = last - first /\ Width(1) = 1
      BY DEF Room, Width
    <2>2. m = IF last - first <= 0 THEN 0 ELSE (last - first + 1 - 1) \div 1
      BY <2>1 DEF Count
    <2> HIDE DEF m, n, i
    <2>3. \A x \in Int : x + 1 - 1 = x /\ x \div 1 = x
      OBVIOUS
    <2>4. first \in Int /\ last \in Int /\ first >= 0 /\ last <= n /\ first <= n
      BY <1>1, <1>2
    <2>5. m = IF last - first <= 0 THEN 0 ELSE last - first
      BY ONLY <2>2, <2>3, <2>4
    <2>6. m = b - first
      BY ONLY <2>4, <2>5 DEF b
    <2>7. b \in first..n
      BY ONLY <1>1, <2>4 DEF b
    <2> QED BY <2>6, <2>7
  <1> HIDE DEF m, b
  <1>6. Indices(start, stop, 1, n) = [j \in 1..(b - first) |-> first + (j - 1)]
    <2>1. ASSUME NEW j \in 1..m PROVE first + (j - 1) * 1 = first + (j - 1)
      <3>1. j - 1 \in Int
        BY <1>2, <1>5
      <3>2. \A x \in Int : x * 1 = x
        OBVIOUS
      <3> QED BY <3>1, <3>2
    <2> QED BY <1>3, <1>5, <2>1
  <1>7. IsSliceOf(first, b, Indices(start, stop, 1, n), i, n)
    BY <1>1, <1>2, <1>5, <1>6 DEF IsSliceOf
  <1> QED BY <1>4, <1>7

IsSpliced(l, s, a, b, items) ==
    /\ l \in Seq(Values) /\ Len(l) = a + Len(items) + (Len(s) - b)
    /\ \A h \in 1..a : l[h] = s[h]
    /\ \A h \in 1..Len(items) : l[a + h] = items[h]
    /\ \A h \in (b + 1)..Len(s) : l[h - b + a + Len(items)] = s[h]

LEMMA SplicedIs ==
    ASSUME NEW s \in Seq(Values), NEW items \in Seq(Values), NEW a \in 0..Len(s), NEW b \in a..Len(s)
    PROVE  IsSpliced(Spliced(s, a, b, items), s, a, b, items)
  <1> DEFINE n == Len(s)
             m == Len(items)
             p == SubSeq(s, 1, a)
             q == SubSeq(s, b + 1, n)
             l == p \o items \o q
  <1>1. n \in Nat /\ m \in Nat /\ a \in Nat /\ b \in Nat /\ a <= b /\ b <= n
    OBVIOUS
  <1>2. p \in Seq(Values) /\ Len(p) = a /\ \A h \in 1..a : p[h] = s[h]
    BY <1>1
  <1>3. q \in Seq(Values) /\ Len(q) = n - b /\ \A h \in 1..(n - b) : q[h] = s[h + b]
    BY <1>1
  <1> HIDE DEF p, q
  <1>4. InARow(l, p, items, q, Values)
    BY <1>2, <1>3, ThreeParts
  <1> HIDE DEF l, n, m
  <1>5. /\ l \in Seq(Values) /\ Len(l) = a + m + (n - b)
        /\ \A h \in 1..a : l[h] = p[h]
        /\ \A h \in 1..m : l[a + h] = items[h]
        /\ \A h \in 1..(n - b) : l[a + m + h] = q[h]
    BY <1>2, <1>3, <1>4, Zenon DEF InARow, m
  <1>6. \A h \in (b + 1)..n : h - b \in 1..(n - b) /\ h - b + a + m = a + m + (h - b) /\ (h - b) + b = h
    BY <1>1
  <1>7. \A h \in (b + 1)..n : l[h - b + a + m] = s[h]
    BY <1>3, <1>5, <1>6
  <1>8. IsSpliced(l, s, a, b, items)
    BY <1>2, <1>5, <1>7 DEF IsSpliced, n, m
  <1> QED BY <1>8, Zenon DEF Spliced, l, p, q, n

LEMMA SplicedIsOne ==
    ASSUME NEW s \in Seq(Values), NEW items \in Seq(Values), NEW a \in 0..Len(s), NEW b \in a..Len(s),
           NEW l, NEW r, IsSpliced(l, s, a, b, items), IsSpliced(r, s, a, b, items)
    PROVE  l = r
  <1> DEFINE n == Len(s)
             m == Len(items)
             z == a + m + (n - b)
  <1>1. n \in Nat /\ m \in Nat /\ a \in Nat /\ b \in Nat /\ a <= b /\ b <= n
    OBVIOUS
  <1>2. l \in Seq(Values) /\ r \in Seq(Values) /\ Len(l) = z /\ Len(r) = z
    BY DEF IsSpliced
  <1>3. ASSUME NEW i \in 1..z PROVE l[i] = r[i]
    <2>1. CASE i \in 1..a
      BY <2>1 DEF IsSpliced
    <2>2. CASE i \in (a + 1)..(a + m)
      <3>1. i - a \in 1..m /\ a + (i - a) = i
        BY <1>1, <2>2
      <3>2. l[a + (i - a)] = items[i - a] /\ r[a + (i - a)] = items[i - a]
        BY <3>1 DEF IsSpliced
      <3> QED BY <3>1, <3>2
    <2>3. CASE i \in (a + m + 1)..z
      <3> DEFINE h == i - a - m + b
      <3>1. h \in (b + 1)..n /\ h - b + a + m = i
        <4> HIDE DEF n, m
        <4> QED BY <1>1, <2>3
      <3>2. l[h - b + a + m] = s[h] /\ r[h - b + a + m] = s[h]
        BY <3>1 DEF IsSpliced
      <3> QED BY <3>1, <3>2
    <2> QED
      <3> HIDE DEF n, m
      <3>1. i \in 1..a \/ i \in (a + 1)..(a + m) \/ i \in (a + m + 1)..z
        BY <1>1
      <3> QED BY <2>1, <2>2, <2>3, <3>1
  <1> HIDE DEF z
  <1> QED BY <1>2, <1>3

\* As many values as the slice has places, put there one by one.
LEMMA SetAllSplices ==
    ASSUME NEW k, k # "composition", NEW s \in Seq(Values), NEW items \in Seq(Values),
           NEW a, NEW b, NEW ixs, NEW start, IsSliceOf(a, b, ixs, start, Len(s)), Len(items) = Len(ixs)
    PROVE  SetAll(k, s, ixs, items) = Done(Spliced(s, a, b, items))
  <1> DEFINE n == Len(s)
             m == b - a
  <1>1. n \in Nat /\ a \in Nat /\ b \in Nat /\ a <= b /\ b <= n /\ m \in Nat
    BY DEF IsSliceOf
  <1>2. Len(ixs) = m /\ ixs \in Seq(Int) /\ \A j \in 1..m : ixs[j] = a + (j - 1)
    BY <1>1 DEF IsSliceOf
  <1>3. \A j \in 1..m : ixs[j] \in 0..(n - 1) /\ ixs[j] + 1 = a + j
    BY <1>1, <1>2
  <1>4. \A j, h \in 1..m : j # h => ixs[j] # ixs[h]
    BY <1>1, <1>2
  <1> HIDE DEF n, m
  <1>5. PICK l \in Seq(Values) : /\ SetAll(k, s, ixs, items) = Done(l)
                                 /\ SetUpTo(l, s, ixs, items, Len(ixs))
    BY <1>2, <1>3, <1>4, SetAllIs DEF n
  <1>6. /\ Len(l) = n /\ \A h \in 1..m : l[a + h] = items[h]
        /\ \A i \in 1..n : (\A h \in 1..m : a + h # i) => l[i] = s[i]
    BY <1>2, <1>3, <1>5 DEF SetUpTo, n
  <1>7. \A i \in 1..a : i \in 1..n /\ \A h \in 1..m : a + h # i
    BY <1>1
  <1>8. \A i \in (b + 1)..n : i \in 1..n /\ i - b + a + m = i /\ \A h \in 1..m : a + h # i
    BY <1>1 DEF m
  <1>9. Len(items) = m /\ a + m + (n - b) = n
    BY <1>1, <1>2 DEF m
  <1>10. IsSpliced(l, s, a, b, items)
    <2>1. Len(l) = a + Len(items) + (n - b)
      BY <1>6, <1>9
    <2>2. \A i \in (b + 1)..n : l[i - b + a + Len(items)] = s[i]
      BY <1>6, <1>8, <1>9
    <2> QED BY <1>5, <1>6, <1>7, <1>9, <2>1, <2>2 DEF IsSpliced, n
  <1>11. IsSpliced(Spliced(s, a, b, items), s, a, b, items)
    BY SplicedIs DEF IsSliceOf
  <1>12. l = Spliced(s, a, b, items)
    BY <1>10, <1>11, SplicedIsOne DEF IsSliceOf
  <1> QED BY <1>5, <1>12

\* What the slice leaves.
LEMMA CutIs ==
    ASSUME NEW k, NEW s, Proper(k, s), NEW a, NEW b, NEW ixs, NEW start,
           IsSliceOf(a, b, ixs, start, Len(s))
    PROVE  \E c : /\ DeleteAll(k, s, Reverse(ixs)) = Done(c) /\ Proper(k, c)
                  /\ IsSpliced(c, s, a, b, <<>>)
  <1> DEFINE n == Len(s)
             m == b - a
             z == n - m
             kept == {i \in 1..n : i - 1 \notin Range(ixs)}
             e == [p \in 1..z |-> IF p <= a THEN p ELSE p + m]
             c == [p \in 1..z |-> s[e[p]]]
  <1>1. n \in Nat /\ a \in Nat /\ b \in Nat /\ a <= b /\ b <= n /\ m \in Nat /\ z \in Nat /\ a <= z
        /\ s \in Seq(Values) /\ z = a + (n - b)
    BY DEF IsSliceOf, Proper
  <1>2. Len(ixs) = m /\ ixs \in Seq(Int) /\ \A j \in 1..m : ixs[j] = a + (j - 1)
    BY <1>1 DEF IsSliceOf
  <1> DEFINE one == 1
  <1>3. InOrder(ixs, one, n)
    <2>1. \A j \in 1..m : ixs[j] \in 0..(n - 1)
      BY <1>1, <1>2
    <2>2. \A j, h \in 1..m : j < h => ixs[j] < ixs[h]
      BY <1>1, <1>2
    <2> QED BY <1>2, <2>1, <2>2 DEF InOrder
  <1>4. one \in Int /\ one > 0
    OBVIOUS
  <1> HIDE DEF one
  <1>5. DeleteAll(k, s, Reverse(ixs)) = Done(Picked(s, kept)) /\ Proper(k, Picked(s, kept))
    BY <1>3, <1>4, DeletedIs
  <1>6. kept = {i \in 1..n : i <= a \/ i > b}
    <2>3. DOMAIN ixs = 1..m
      BY <1>2
    <2>1. \A i \in 1..n : i - 1 \in Range(ixs) <=> \E j \in 1..m : a + (j - 1) = i - 1
      BY ONLY <1>2, <2>3, Zenon DEF Range
    <2>2. ASSUME NEW i \in 1..n PROVE (\E j \in 1..m : a + (j - 1) = i - 1) <=> ~(i <= a \/ i > b)
      <3>1. ASSUME i > a, i <= b PROVE i - a \in 1..m /\ a + ((i - a) - 1) = i - 1
        BY <1>1, <3>1
      <3>2. ASSUME NEW j \in 1..m, a + (j - 1) = i - 1 PROVE i > a /\ i <= b
        BY <1>1, <3>2
      <3> QED BY <1>1, <3>1, <3>2
    <2> QED BY <2>1, <2>2
  <1>12. \A i \in 1..n : s[i] \in Values
    BY <1>1
  <1> HIDE DEF kept, n, m, z
  <1>7. /\ e \in Seq(Nat) /\ Len(e) = z
        /\ \A p \in 1..z : e[p] = (IF p <= a THEN p ELSE p + m) /\ e[p] \in 1..n
    <2>1. \A p \in 1..z : (IF p <= a THEN p ELSE p + m) \in 1..n
      BY <1>1 DEF z
    <2> QED BY <1>1, <2>1
  <1>8. c \in Seq(Values) /\ Len(c) = z /\ \A p \in 1..z : c[p] = s[e[p]]
    <2>1. \A p \in 1..z : s[e[p]] \in Values
      BY <1>7, <1>12, Zenon
    <2> QED BY <1>1, <2>1
  <1> HIDE DEF e, c
  <1>9. Enumerates(e, kept)
    <2>1. ASSUME NEW p \in 1..z PROVE e[p] \in kept
      BY <1>1, <1>6, <1>7 DEF m
    <2>2. ASSUME NEW p \in 1..z, NEW q \in 1..z, p < q PROVE e[p] < e[q]
      <3>1. (IF p <= a THEN p ELSE p + m) < (IF q <= a THEN q ELSE q + m)
        BY <1>1, <2>2
      <3> QED BY <1>7, <3>1, Zenon
    <2>3. ASSUME NEW i \in kept PROVE \E p \in 1..z : e[p] = i
      <3> DEFINE p == IF i <= a THEN i ELSE i - m
      <3>1. i \in 1..n /\ (i <= a \/ i > b)
        BY <1>6
      <3>2. p \in 1..z /\ (IF p <= a THEN p ELSE p + m) = i
        BY <1>1, <3>1 DEF m, z
      <3> QED BY <1>7, <3>2
    <2> QED BY <1>7, <2>1, <2>2, <2>3 DEF Enumerates
  <1>10. c = Picked(s, kept)
    <2>1. Picks(c, s, e, kept)
      BY <1>7, <1>8, <1>9 DEF Picks
    <2> QED BY <2>1, PickedIs
  <1>11. IsSpliced(c, s, a, b, <<>>)
    <2>1. \A h \in 1..a : h \in 1..z /\ h <= a
      BY <1>1
    <2>2. \A h \in (b + 1)..n : h - b + a + 0 \in 1..z /\ ~(h - b + a + 0 <= a) /\ (h - b + a + 0) + m = h
      BY <1>1 DEF m
    <2>3. a + 0 + (n - b) = z
      BY <1>1
    <2>4. \A h \in 1..a : c[h] = s[h]
      BY <1>7, <1>8, <2>1
    <2>5. \A h \in (b + 1)..n : c[h - b + a + 0] = s[h]
      BY <1>7, <1>8, <2>2
    <2>6. Len(<<>>) = 0 /\ \A h \in 1..0 : FALSE
      OBVIOUS
    <2> QED BY <1>8, <2>3, <2>4, <2>5, <2>6 DEF IsSpliced, n
  <1> QED BY <1>5, <1>10, <1>11

\* The first j values stand behind the first a of c.
InsertedUpTo(l, c, a, items, j) ==
    /\ l \in Seq(Values) /\ Len(l) = Len(c) + j
    /\ \A h \in 1..a : l[h] = c[h]
    /\ \A h \in 1..j : l[a + h] = items[h]
    /\ \A h \in (a + 1)..Len(c) : l[h + j] = c[h]

\* Where a slice is inserted that starts there, in what is left of a list.
StartsAt(a, start, n) == a \in 0..n /\ start \in Nat /\ (start = a \/ (a = n /\ start >= n))

LEMMA InsertOneMore ==
    ASSUME NEW k, NEW c, Len(c) \in Nat, NEW items \in Seq(Values), NEW a, NEW start,
           StartsAt(a, start, Len(c)), NEW j \in 1..Len(items),
           NEW l, InsertedUpTo(l, c, a, items, j - 1), ~Taken(k, l, items[j])
    PROVE  /\ InternalInsert(k, l, start + j - 1, items[j]).ok = TRUE
           /\ InsertedUpTo(InternalInsert(k, l, start + j - 1, items[j]).list, c, a, items, j)
  <1> DEFINE n == Len(c)
             i == start + j - 1
             v == items[j]
             p == a + j - 1
             w == InternalInsert(k, l, i, v).list
  <1>1. n \in Nat /\ a \in 0..n /\ start \in Nat /\ j \in Nat /\ j >= 1 /\ i \in Nat /\ v \in Values
        /\ (start = a \/ (a = n /\ start >= n))
    BY DEF StartsAt
  <1>2. /\ l \in Seq(Values) /\ Len(l) = n + (j - 1)
        /\ \A h \in 1..a : l[h] = c[h]
        /\ \A h \in 1..(j - 1) : l[a + h] = items[h]
        /\ \A h \in (a + 1)..n : l[h + (j - 1)] = c[h]
    BY DEF InsertedUpTo
  <1>3. p = IF i < Len(l) THEN i ELSE Len(l)
    <2> HIDE DEF n
    <2> QED BY <1>1, <1>2
  <1> HIDE DEF n, i, v, p, w
  <1>4. InternalInsert(k, l, i, v).ok = TRUE /\ IsWith(w, l, p, v)
    <2>1. ~Taken(k, l, v)
      BY DEF v
    <2>2. l \in Seq(Values)
      BY <1>2
    <2> QED BY ONLY <1>1, <1>3, <2>1, <2>2, InsertIsPlain DEF w
  <1>5. /\ w \in Seq(Values) /\ Len(w) = Len(l) + 1 /\ w[p + 1] = v
        /\ \A h \in 1..p : w[h] = l[h]
        /\ \A h \in (p + 2)..(Len(l) + 1) : w[h] = l[h - 1]
    BY <1>4 DEF IsWith
  <1>6. p + 1 = a + j /\ Len(w) = n + j
    BY <1>1, <1>2, <1>5 DEF p
  <1>7. ASSUME NEW h \in 1..a PROVE w[h] = c[h]
    <2>1. h \in 1..p
      BY <1>1 DEF p
    <2> QED BY <1>2, <1>5, <2>1
  <1>8. ASSUME NEW h \in 1..j PROVE w[a + h] = items[h]
    <2>1. CASE h = j
      BY <1>5, <1>6, <2>1 DEF v
    <2>2. CASE h # j
      <3>1. h \in 1..(j - 1) /\ a + h \in 1..p
        BY <1>1, <2>2 DEF p
      <3>2. w[a + h] = l[a + h]
        BY ONLY <1>5, <3>1, Zenon
      <3>3. l[a + h] = items[h]
        BY ONLY <1>2, <3>1, Zenon
      <3> QED BY <3>2, <3>3, Zenon
    <2> QED BY <2>1, <2>2
  <1>9. ASSUME NEW h \in (a + 1)..n PROVE w[h + j] = c[h]
    <2>1. h \in Int /\ h >= a + 1 /\ h <= n /\ a \in Int /\ j \in Int /\ n \in Int
      BY <1>1
    <2>2. (p + 2) = a + j + 1 /\ Len(l) + 1 = n + j
      BY <1>1, <1>2 DEF p
    <2>3. h + j \in (a + j + 1)..(n + j) /\ (h + j) - 1 = h + (j - 1)
      BY ONLY <2>1
    <2>4. w[h + j] = l[(h + j) - 1]
      BY ONLY <1>5, <2>2, <2>3, Zenon
    <2>5. l[h + (j - 1)] = c[h]
      BY <1>2, Zenon
    <2> QED BY <2>3, <2>4, <2>5, Zenon
  <1>10. InsertedUpTo(w, c, a, items, j)
    BY <1>5, <1>6, <1>7, <1>8, <1>9 DEF InsertedUpTo, n
  <1> QED BY <1>4, <1>10 DEF w, i, v

\* A composition may take all of the values.
Free(k, c, items) ==
    k = "composition" => \A j \in 1..Len(items) :
        /\ items[j] \notin Elsewhere
        /\ \A h \in 1..Len(c) : c[h] # items[j]
        /\ \A h \in 1..Len(items) : items[h] = items[j] => h = j

LEMMA FreeIsNotTaken ==
    ASSUME NEW k, NEW c \in Seq(Values), NEW items \in Seq(Values), Free(k, c, items), NEW a \in 0..Len(c),
           NEW j \in 1..Len(items), NEW l, InsertedUpTo(l, c, a, items, j - 1)
    PROVE  ~Taken(k, l, items[j])
  <1> SUFFICES ASSUME k = "composition" PROVE items[j] \notin Range(l) /\ items[j] \notin Elsewhere
    BY DEF Taken
  <1> DEFINE n == Len(c)
             v == items[j]
  <1>1. n \in Nat /\ j \in Nat /\ j >= 1
    OBVIOUS
  <1>2. /\ v \notin Elsewhere /\ \A h \in 1..n : c[h] # v
        /\ \A h \in 1..(j - 1) : items[h] # v
    BY DEF Free
  <1>3. /\ l \in Seq(Values) /\ Len(l) = n + (j - 1)
        /\ \A h \in 1..a : l[h] = c[h]
        /\ \A h \in 1..(j - 1) : l[a + h] = items[h]
        /\ \A h \in (a + 1)..n : l[h + (j - 1)] = c[h]
    BY DEF InsertedUpTo
  <1> HIDE DEF n, v
  <1>4. a \in 0..n
    BY DEF n
  <1>5. ASSUME NEW g \in 1..Len(l) PROVE l[g] # v
    <2>1. CASE g <= a
      <3>1. g \in 1..a /\ g \in 1..n
        BY <1>1, <1>4, <2>1
      <3> QED BY <1>2, <1>3, <3>1
    <2>2. CASE g > a /\ g <= a + (j - 1)
      <3>1. g - a \in 1..(j - 1) /\ a + (g - a) = g
        BY <1>1, <1>4, <2>2
      <3> QED BY <1>2, <1>3, <3>1
    <2>3. CASE g > a + (j - 1)
      <3>1. g - (j - 1) \in (a + 1)..n /\ (g - (j - 1)) + (j - 1) = g /\ g - (j - 1) \in 1..n
        BY <1>1, <1>3, <1>4, <2>3
      <3> QED BY <1>2, <1>3, <3>1
    <2> QED BY <1>1, <1>4, <2>1, <2>2, <2>3
  <1>6. DOMAIN l = 1..Len(l)
    BY <1>3
  <1> QED BY <1>2, <1>5, <1>6 DEF Range, v

LEMMA InsertAllIs ==
    ASSUME NEW k, NEW c, Proper(k, c), NEW items \in Seq(Values), k = "any" => Len(items) = 0,
           Free(k, c, items), NEW a, NEW start, StartsAt(a, start, Len(c))
    PROVE  \E l \in Seq(Values) : /\ InsertAll(k, c, start, items) = Done(l)
                                  /\ InsertedUpTo(l, c, a, items, Len(items))
  <1> DEFINE m == Len(items)
             calls == [j \in 1..m |-> [l \in Lists |->
                          IF k = "any" THEN Refused(l)
                          ELSE InternalInsert(k, l, start + j - 1, items[j])]]
             inv == [j \in 0..m |-> {l \in Seq(Values) : InsertedUpTo(l, c, a, items, j)}]
             A == Answers(k)
  <1>1. c \in Seq(Values) /\ Len(c) \in Nat /\ m \in Nat /\ a \in 0..Len(c) /\ start \in Nat
    BY DEF Proper, StartsAt
  <1>2. InsertAll(k, c, start, items) = InTurn(c, calls) /\ Len(calls) = m
    BY DEF InsertAll
  <1>3. A \subseteq [ok : BOOLEAN, list : Seq(Values)] /\ Done(c) \in A
    BY AnswerIsProper DEF Answers
  <1>4. ASSUME NEW x \in A, NEW j \in 1..m
        PROVE  /\ calls[j][x.list] = InternalInsert(k, x.list, start + j - 1, items[j])
               /\ calls[j][x.list] \in A
    <2>1. x.list \in Lists /\ Proper(k, x.list) /\ items[j] \in Values /\ start + j - 1 \in Int /\ k # "any"
      BY <1>1 DEF Answers, Lists
    <2>2. calls[j][x.list] = InternalInsert(k, x.list, start + j - 1, items[j])
      BY <2>1
    <2> QED BY <2>1, <2>2, InsertIsProper
  <1> HIDE DEF calls, A
  <1>5. c \in inv[0]
    <2>1. \A h \in (a + 1)..Len(c) : h + 0 = h
      BY <1>1
    <2>2. Len(c) + 0 = Len(c) /\ \A h \in 1..0 : FALSE
      BY <1>1
    <2>3. InsertedUpTo(c, c, a, items, 0)
      BY <1>1, <2>1, <2>2 DEF InsertedUpTo
    <2> QED BY <1>1, <2>3
  <1>6. ASSUME NEW x \in A, NEW j \in 1..m, x.list \in inv[j - 1]
        PROVE  calls[j][x.list].ok = TRUE /\ calls[j][x.list].list \in inv[j]
    <2> DEFINE l == x.list
               w == InternalInsert(k, l, start + j - 1, items[j]).list
    <2>1. InsertedUpTo(l, c, a, items, j - 1) /\ j \in 0..m
      BY <1>1, <1>6
    <2> HIDE DEF l
    <2>2. ~Taken(k, l, items[j])
      BY <1>1, <2>1, FreeIsNotTaken
    <2>3. InternalInsert(k, l, start + j - 1, items[j]).ok = TRUE /\ InsertedUpTo(w, c, a, items, j)
      BY <1>1, <2>1, <2>2, InsertOneMore
    <2> HIDE DEF w
    <2>4. w \in Seq(Values)
      BY <2>3 DEF InsertedUpTo
    <2>5. w \in inv[j]
      BY <2>1, <2>3, <2>4
    <2> HIDE DEF inv
    <2> QED BY <1>4, <2>3, <2>5 DEF w, l
  <1>7. inv[m] = {l \in Seq(Values) : InsertedUpTo(l, c, a, items, m)}
    BY <1>1
  <1> HIDE DEF inv
  <1>8. \E l \in inv[Len(calls)] : l \in Seq(Values) /\ InTurn(c, calls) = Done(l)
    <2>1. /\ Len(calls) \in Nat /\ \A x \in A, j \in 1..Len(calls) : calls[j][x.list] \in A
          /\ \A x \in A, j \in 1..Len(calls) :
                 x.list \in inv[j - 1] => calls[j][x.list].ok = TRUE /\ calls[j][x.list].list \in inv[j]
      BY <1>1, <1>2, <1>4, <1>6
    <2> QED BY ONLY <1>3, <1>5, <2>1, CallsReach
  <1> QED BY <1>2, <1>7, <1>8

\* What is inserted where the slice was.
LEMMA CutAndInserted ==
    ASSUME NEW s \in Seq(Values), NEW items \in Seq(Values), NEW a \in 0..Len(s), NEW b \in a..Len(s),
           NEW c, IsSpliced(c, s, a, b, <<>>), NEW l, InsertedUpTo(l, c, a, items, Len(items))
    PROVE  l = Spliced(s, a, b, items)
  <1> DEFINE n == Len(s)
             m == Len(items)
             z == Len(c)
  <1>1. n \in Nat /\ a \in Nat /\ b \in Nat /\ a <= b /\ b <= n /\ m \in Nat
    OBVIOUS
  <1>2. /\ z = a + (n - b)
        /\ \A h \in 1..a : c[h] = s[h]
        /\ \A h \in (b + 1)..n : c[h - b + a + 0] = s[h]
    <2>1. Len(<<>>) = 0
      OBVIOUS
    <2>2. Len(c) = a + 0 + (n - b)
      BY <2>1 DEF IsSpliced
    <2> QED BY <1>1, <2>1, <2>2 DEF IsSpliced
  <1>3. /\ l \in Seq(Values) /\ Len(l) = z + m
        /\ \A h \in 1..a : l[h] = c[h]
        /\ \A h \in 1..m : l[a + h] = items[h]
        /\ \A h \in (a + 1)..z : l[h + m] = c[h]
    BY DEF InsertedUpTo
  <1> HIDE DEF n, m, z
  <1>4. ASSUME NEW h \in (b + 1)..n PROVE l[h - b + a + m] = s[h]
    <2>1. h - b + a + 0 \in (a + 1)..z /\ (h - b + a + 0) + m = h - b + a + m
      BY <1>1, <1>2
    <2>2. l[(h - b + a + 0) + m] = c[h - b + a + 0]
      BY ONLY <1>3, <2>1, Zenon
    <2>3. c[h - b + a + 0] = s[h]
      BY <1>2, Zenon
    <2> QED BY <2>1, <2>2, <2>3, Zenon
  <1>5. Len(l) = a + m + (n - b)
    BY <1>1, <1>2, <1>3
  <1>6. IsSpliced(l, s, a, b, items)
    BY <1>2, <1>3, <1>4, <1>5 DEF IsSpliced, n, m
  <1> QED BY <1>6, SplicedIs, SplicedIsOne

\* A composition may take the values, if none is in the outcome twice.
LEMMA InjectiveIsFree ==
    ASSUME NEW k, NEW s \in Seq(Values), NEW items \in Seq(Values), NEW a \in 0..Len(s), NEW b \in a..Len(s),
           NEW c, IsSpliced(c, s, a, b, <<>>),
           k = "composition" => /\ IsInjective(Spliced(s, a, b, items))
                                /\ Range(items) \cap Elsewhere = {}
    PROVE  Free(k, c, items)
  <1> SUFFICES ASSUME k = "composition", NEW j \in 1..Len(items)
      PROVE  /\ items[j] \notin Elsewhere
             /\ \A h \in 1..Len(c) : c[h] # items[j]
             /\ \A h \in 1..Len(items) : items[h] = items[j] => h = j
    BY DEF Free
  <1> DEFINE n == Len(s)
             m == Len(items)
             z == Len(c)
             r == Spliced(s, a, b, items)
  <1>1. n \in Nat /\ a \in Nat /\ b \in Nat /\ a <= b /\ b <= n /\ m \in Nat /\ j \in 1..m
    OBVIOUS
  <1>2. /\ z = a + (n - b)
        /\ \A h \in 1..a : c[h] = s[h]
        /\ \A h \in (b + 1)..n : c[h - b + a + 0] = s[h]
    <2>1. Len(<<>>) = 0
      OBVIOUS
    <2>2. Len(c) = a + 0 + (n - b)
      BY <2>1 DEF IsSpliced
    <2> QED BY <1>1, <2>1, <2>2 DEF IsSpliced
  <1>3. IsSpliced(r, s, a, b, items)
    BY SplicedIs
  <1>4. items[j] \notin Elsewhere
    BY DEF Range
  <1>5. IsInjective(r)
    OBVIOUS
  <1> HIDE DEF n, m, z, r
  <1>6. /\ r \in Seq(Values) /\ Len(r) = a + m + (n - b)
        /\ \A h \in 1..a : r[h] = s[h]
        /\ \A h \in 1..m : r[a + h] = items[h]
        /\ \A h \in (b + 1)..n : r[h - b + a + m] = s[h]
    BY <1>3 DEF IsSpliced, n, m
  <1>7. \A g, h \in 1..(a + m + (n - b)) : r[g] = r[h] => g = h
    <2>1. DOMAIN r = 1..(a + m + (n - b))
      BY <1>6
    <2> QED BY ONLY <1>5, <2>1, Zenon DEF IsInjective
  <1>8. a + j \in 1..(a + m + (n - b)) /\ r[a + j] = items[j]
    BY <1>1, <1>6
  <1>9. ASSUME NEW h \in 1..z PROVE c[h] # items[j]
    <2>1. CASE h <= a
      <3>1. h \in 1..a /\ h \in 1..(a + m + (n - b)) /\ h # a + j
        BY <1>1, <1>2, <2>1
      <3>2. c[h] = r[h]
        BY <1>2, <1>6, <3>1
      <3> QED BY <1>7, <1>8, <3>1, <3>2, Zenon
    <2>2. CASE h > a
      <3> DEFINE g == h - a + b
                 q == g - b + a + m
      <3>1. g \in (b + 1)..n /\ g - b + a + 0 = h
        BY <1>1, <1>2, <2>2
      <3>2. q \in 1..(a + m + (n - b)) /\ q # a + j
        BY <1>1, <1>2, <2>2
      <3>3. c[g - b + a + 0] = s[g] /\ r[q] = s[g]
        BY <1>2, <1>6, <3>1, Zenon
      <3> HIDE DEF q, g
      <3> QED BY <1>7, <1>8, <3>1, <3>2, <3>3, Zenon
    <2>3. h <= a \/ h > a
      BY <1>1, <1>2
    <2> QED BY <2>1, <2>2, <2>3
  <1>10. ASSUME NEW h \in 1..m, items[h] = items[j] PROVE h = j
    <2>1. a + h \in 1..(a + m + (n - b)) /\ r[a + h] = items[h]
      BY <1>1, <1>6
    <2>2. a + h = a + j
      BY <1>7, <1>8, <1>10, <2>1, Zenon
    <2> QED BY <1>1, <2>2
  <1> QED BY <1>4, <1>9, <1>10 DEF z, m

LEMMA SlicesAre ==
    ASSUME Held
    PROVE  SlicesLikeAList
  <1> SUFFICES ASSUME NEW start \in Edge, NEW stop \in Edge, NEW items \in Items, NEW mutable \in BOOLEAN,
                      start = NULL \/ start >= 0, Acceptable(start, stop, items)
      PROVE  SetSlice(kind, list, start, stop, items, mutable) = Done(ListSlice(start, stop, items))
    BY DEF SlicesLikeAList
  <1> DEFINE n == Len(list)
             i == IF start = NULL THEN 0 ELSE start
             ixs == Indices(start, stop, 1, n)
  <1>1. Proper(kind, list) /\ list \in Seq(Values) /\ n \in Nat
    BY DEF Held, Proper
  <1>2. start \in Int \cup {NULL} /\ stop \in Int \cup {NULL} /\ items \in Seq(Values)
    BY EdgesAreInts, ItemsAreValues
  <1>3. PICK a, b : IsSliceOf(a, b, ixs, i, n) /\ ListSlice(start, stop, items) = Spliced(list, a, b, items)
    BY <1>1, <1>2, SliceUnfolds
  <1>4. SetSlice(kind, list, start, stop, items, mutable)
          = IF kind # "composition" /\ mutable /\ Len(items) = Len(ixs)
            THEN SetAll(kind, list, ixs, items) ELSE Replaced(kind, list, ixs, i, items)
    BY DEF SetSlice
  <1>5. a \in 0..n /\ b \in a..n /\ i \in Nat /\ a = IF i < n THEN i ELSE n
    BY <1>3 DEF IsSliceOf
  <1> HIDE DEF i, ixs, n
  <1>6. ASSUME kind # "composition", Len(items) = Len(ixs)
        PROVE  SetAll(kind, list, ixs, items) = Done(Spliced(list, a, b, items))
    BY <1>1, <1>2, <1>3, <1>6, SetAllSplices DEF n
  <1>7. Replaced(kind, list, ixs, i, items) = Done(Spliced(list, a, b, items))
    <2>1. PICK c : /\ DeleteAll(kind, list, Reverse(ixs)) = Done(c) /\ Proper(kind, c)
                   /\ IsSpliced(c, list, a, b, <<>>)
      BY <1>1, <1>3, CutIs DEF n
    <2>2. StartsAt(a, i, Len(c))
      <3>1. Len(<<>>) = 0
        OBVIOUS
      <3>2. Len(c) = a + 0 + (n - b)
        BY <2>1, <3>1 DEF IsSpliced, n
      <3>3. a \in 0..Len(c) /\ (i = a \/ (a = Len(c) /\ i >= Len(c)))
        BY <1>1, <1>5, <3>2
      <3> QED BY <1>5, <3>3 DEF StartsAt
    <2>3. Free(kind, c, items)
      <3>1. kind = "composition" => IsInjective(Spliced(list, a, b, items)) /\ Range(items) \cap Elsewhere = {}
        BY <1>3 DEF Acceptable
      <3> QED BY <1>1, <1>2, <1>5, <2>1, <3>1, InjectiveIsFree DEF n
    <2>4. kind = "any" => Len(items) = 0
      BY DEF Acceptable
    <2>5. PICK l \in Seq(Values) : /\ InsertAll(kind, c, i, items) = Done(l)
                                   /\ InsertedUpTo(l, c, a, items, Len(items))
      BY <1>2, <2>1, <2>2, <2>3, <2>4, InsertAllIs
    <2>6. l = Spliced(list, a, b, items)
      BY <1>1, <1>2, <1>5, <2>1, <2>5, CutAndInserted DEF n
    <2>7. DeleteAll(kind, list, Reverse(ixs)).list = c /\ Done(l).ok = TRUE
      BY <2>1 DEF Done
    <2> QED BY <2>5, <2>6, <2>7 DEF Replaced
  <1> QED BY <1>3, <1>4, <1>6, <1>7

\* Assigned or deleted, with a step or without, a slice leaves what it leaves of a
\* list, though the mixin takes it apart into single calls and deletes from the back.
THEOREM SlicesAreALists == Spec => []SlicedLikeAList
  <1>1. Held => SlicedLikeAList
    BY SlicesAre, ExtendedIs, DeletionsAre DEF SlicedLikeAList
  <1> QED BY <1>1, ListsStayProper, PTL

================================================================================
