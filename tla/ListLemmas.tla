------------------------------- MODULE ListLemmas ------------------------------
(* What the list operators of the specification do to the elements of a list   *)
(* and to its having each of them once: the facts about std::vector::insert,   *)
(* erase and operator[]= that the proofs cite.                                 *)
EXTENDS Bisection, SequenceTheorems, WellFoundedInduction, TLAPS

\* The values of a list are its own.
IsList(s) == s \in Seq(Range(s))

LEMMA ListOfItsOwn == ASSUME NEW T, NEW s \in Seq(T) PROVE IsList(s) /\ DOMAIN s = 1..Len(s)
  <1>1. Len(s) \in Nat /\ DOMAIN s = 1..Len(s) /\ s = [k \in 1..Len(s) |-> s[k]]
    OBVIOUS
  <1>2. \A k \in 1..Len(s) : s[k] \in Range(s)
    BY <1>1 DEF Range
  <1>3. s \in Seq(Range(s))
    BY <1>1, <1>2
  <1> QED BY <1>1, <1>3 DEF IsList

\* Inserting keeps every element, adds the new one, and repeats none.
LEMMA InsertAtElements ==
    ASSUME NEW T, NEW s \in Seq(T), NEW e \in T, NEW i \in 1..(Len(s) + 1)
    PROVE  /\ InsertAt(s, i, e) \in Seq(T)
           /\ Range(InsertAt(s, i, e)) = Range(s) \cup {e}
           /\ IsInjective(s) /\ e \notin Range(s) => IsInjective(InsertAt(s, i, e))
  <1> DEFINE t == InsertAt(s, i, e)
             a == SubSeq(s, 1, i - 1)
             b == SubSeq(s, i, Len(s))
             ae == a \o <<e>>
  <1>1. /\ t \in Seq(T) /\ Len(t) = Len(s) + 1
        /\ \A k \in 1..(i - 1) : t[k] = s[k]
        /\ t[i] = e
        /\ \A k \in i..Len(s) : t[k + 1] = s[k]
    <2>1. a \in Seq(T) /\ Len(a) = i - 1 /\ \A k \in 1..(i - 1) : a[k] = s[k]
      OBVIOUS
    <2>2. b \in Seq(T) /\ Len(b) = Len(s) - i + 1
          /\ \A k \in 1..(Len(s) - i + 1) : b[k] = s[k + i - 1]
      OBVIOUS
    <2> HIDE DEF a, b
    <2>3. ae \in Seq(T) /\ Len(ae) = i /\ ae[i] = e /\ \A k \in 1..(i - 1) : ae[k] = s[k]
      BY <2>1
    <2>4. t = ae \o b
      BY DEF InsertAt, a, b
    <2> HIDE DEF t, ae
    <2>5. /\ t \in Seq(T) /\ Len(t) = i + (Len(s) - i + 1)
          /\ \A k \in 1..(i + (Len(s) - i + 1)) : t[k] = IF k <= i THEN ae[k] ELSE b[k - i]
      <3>1. /\ ae \o b \in Seq(T) /\ Len(ae \o b) = Len(ae) + Len(b)
            /\ \A k \in 1..(Len(ae) + Len(b)) :
                 (ae \o b)[k] = IF k <= Len(ae) THEN ae[k] ELSE b[k - Len(ae)]
        BY <2>2, <2>3, ConcatProperties, Zenon
      <3>2. Len(ae) = i /\ Len(b) = Len(s) - i + 1
        BY <2>2, <2>3
      <3> QED BY <3>1, <3>2, <2>4, Zenon
    <2>6. ASSUME NEW k \in i..Len(s) PROVE t[k + 1] = s[k]
      <3>1. k + 1 - i \in 1..(Len(s) - i + 1) /\ (k + 1 - i) + i - 1 = k
        OBVIOUS
      <3>2. b[k + 1 - i] = s[k]
        BY <3>1, <2>2
      <3>3. k + 1 \in 1..(i + (Len(s) - i + 1)) /\ ~(k + 1 <= i)
        OBVIOUS
      <3> QED BY <3>2, <3>3, <2>5
    <2> QED
      BY <2>3, <2>5, <2>6
  <1> HIDE DEF t
  <1>2. ASSUME NEW k \in 1..(Len(s) + 1)
        PROVE  \/ k < i /\ k \in 1..Len(s) /\ t[k] = s[k]
               \/ k = i /\ t[k] = e
               \/ k > i /\ k - 1 \in 1..Len(s) /\ t[k] = s[k - 1]
    <2>1. CASE k < i
      BY <2>1, <1>1
    <2>2. CASE k = i
      BY <2>2, <1>1
    <2>3. CASE k > i
      <3>1. k - 1 \in i..Len(s) /\ (k - 1) + 1 = k
        BY <2>3
      <3> QED BY <3>1, <1>1, <2>3
    <2> QED BY <2>1, <2>2, <2>3
  <1>3. Range(t) \subseteq Range(s) \cup {e}
    BY <1>1, <1>2 DEF Range
  <1>4. e \in Range(t)
    BY <1>1 DEF Range
  <1>5. ASSUME NEW k \in 1..Len(s) PROVE s[k] \in Range(t)
    <2>1. CASE k < i
      BY <2>1, <1>1 DEF Range
    <2>2. CASE k >= i
      <3>1. k + 1 \in DOMAIN t /\ t[k + 1] = s[k]
        BY <2>2, <1>1
      <3> QED BY <3>1 DEF Range
    <2> QED BY <2>1, <2>2
  <1>6. Range(s) \subseteq Range(t)
    BY <1>5 DEF Range
  <1>7. ASSUME IsInjective(s), e \notin Range(s) PROVE IsInjective(t)
    <2>1. \A m \in 1..Len(s) : s[m] # e
      BY <1>7 DEF Range
    <2>2. \A m, n \in 1..Len(s) : s[m] = s[n] => m = n
      BY <1>7 DEF IsInjective
    <2>3. ASSUME NEW j \in 1..(Len(s) + 1), NEW k \in 1..(Len(s) + 1), t[j] = t[k]
          PROVE  j = k
      BY <1>2, <2>1, <2>2, <2>3
    <2> QED BY <1>1, <2>3 DEF IsInjective
  <1>8. t \in Seq(T) /\ Range(t) = Range(s) \cup {e}
    BY <1>1, <1>3, <1>4, <1>6
  <1> QED BY <1>7, <1>8 DEF t

\* Removing a slot of a list without repeats takes away that element only.
LEMMA RemoveAtElements ==
    ASSUME NEW T, NEW s \in Seq(T), NEW i \in 1..Len(s)
    PROVE  /\ RemoveAt(s, i) \in Seq(T)
           /\ Range(RemoveAt(s, i)) \subseteq Range(s)
           /\ Range(s) \ {s[i]} \subseteq Range(RemoveAt(s, i))
           /\ IsInjective(s) => /\ Range(RemoveAt(s, i)) = Range(s) \ {s[i]}
                                /\ IsInjective(RemoveAt(s, i))
  <1> DEFINE t == RemoveAt(s, i)
             a == SubSeq(s, 1, i - 1)
             b == SubSeq(s, i + 1, Len(s))
  <1>1. /\ t \in Seq(T) /\ Len(t) = Len(s) - 1
        /\ \A k \in 1..(i - 1) : t[k] = s[k]
        /\ \A k \in (i + 1)..Len(s) : t[k - 1] = s[k]
    <2>1. a \in Seq(T) /\ Len(a) = i - 1 /\ \A k \in 1..(i - 1) : a[k] = s[k]
      OBVIOUS
    <2>2. b \in Seq(T) /\ Len(b) = Len(s) - i /\ \A k \in 1..(Len(s) - i) : b[k] = s[k + i]
      OBVIOUS
    <2> HIDE DEF a, b
    <2>3. t = a \o b
      BY DEF RemoveAt, a, b
    <2> HIDE DEF t
    <2>4. /\ t \in Seq(T) /\ Len(t) = (i - 1) + (Len(s) - i)
          /\ \A k \in 1..((i - 1) + (Len(s) - i)) :
               t[k] = IF k <= i - 1 THEN a[k] ELSE b[k - (i - 1)]
      <3>1. /\ a \o b \in Seq(T) /\ Len(a \o b) = Len(a) + Len(b)
            /\ \A k \in 1..(Len(a) + Len(b)) :
                 (a \o b)[k] = IF k <= Len(a) THEN a[k] ELSE b[k - Len(a)]
        BY <2>1, <2>2, ConcatProperties, Zenon
      <3>2. Len(a) = i - 1 /\ Len(b) = Len(s) - i
        BY <2>1, <2>2
      <3> QED BY <3>1, <3>2, <2>3, Zenon
    <2>5. ASSUME NEW k \in (i + 1)..Len(s) PROVE t[k - 1] = s[k]
      <3>1. k - i \in 1..(Len(s) - i) /\ (k - i) + i = k /\ (k - 1) - (i - 1) = k - i
        OBVIOUS
      <3>2. b[k - i] = s[k]
        BY <3>1, <2>2
      <3>3. k - 1 \in 1..((i - 1) + (Len(s) - i)) /\ ~(k - 1 <= i - 1)
        OBVIOUS
      <3> QED BY <3>1, <3>2, <3>3, <2>4
    <2> QED
      BY <2>1, <2>4, <2>5
  <1> HIDE DEF t
  <1>2. ASSUME NEW k \in 1..(Len(s) - 1)
        PROVE  \/ k < i /\ k \in 1..Len(s) /\ t[k] = s[k]
               \/ k >= i /\ k + 1 \in 1..Len(s) /\ t[k] = s[k + 1]
    <2>1. CASE k < i
      BY <2>1, <1>1
    <2>2. CASE k >= i
      <3>1. k + 1 \in (i + 1)..Len(s) /\ (k + 1) - 1 = k
        BY <2>2
      <3> QED BY <3>1, <1>1, <2>2
    <2> QED BY <2>1, <2>2
  <1>3. Range(t) \subseteq Range(s)
    <2> HIDE DEF a, b
    <2>1. DOMAIN t = 1..(Len(s) - 1) /\ DOMAIN s = 1..Len(s)
      BY <1>1
    <2> QED BY <2>1, <1>2 DEF Range
  <1>4. ASSUME NEW k \in 1..Len(s), k # i PROVE s[k] \in Range(t)
    <2>1. CASE k < i
      BY <2>1, <1>1 DEF Range
    <2>2. CASE k > i
      <3>1. k - 1 \in DOMAIN t /\ t[k - 1] = s[k]
        BY <2>2, <1>1
      <3> QED BY <3>1 DEF Range
    <2> QED BY <1>4, <2>1, <2>2
  <1>5. Range(s) \ {s[i]} \subseteq Range(t)
    BY <1>4 DEF Range
  <1>6. ASSUME IsInjective(s)
        PROVE  s[i] \notin Range(t) /\ IsInjective(t)
    <2>1. \A m, n \in 1..Len(s) : s[m] = s[n] => m = n
      BY <1>6 DEF IsInjective
    <2>2. \A k \in 1..(Len(s) - 1) : t[k] # s[i]
      BY <2>1, <1>2
    <2>3. ASSUME NEW j \in 1..(Len(s) - 1), NEW k \in 1..(Len(s) - 1), t[j] = t[k]
          PROVE  j = k
      BY <2>1, <1>2, <2>3
    <2>4. DOMAIN t = 1..(Len(s) - 1)
      BY <1>1
    <2> QED BY <2>2, <2>3, <2>4, Zenon DEF Range, IsInjective
  <1>7. IsInjective(s) => Range(t) = Range(s) \ {s[i]} /\ IsInjective(t)
    BY <1>3, <1>5, <1>6
  <1> QED BY <1>1, <1>3, <1>5, <1>7 DEF t

\* The list without its last element is the list with the last slot removed.
LEMMA FrontElements ==
    ASSUME NEW T, NEW s \in Seq(T), s # <<>>
    PROVE  /\ Len(s) \in 1..Len(s) /\ Last(s) = s[Len(s)] /\ Last(s) \in T
           /\ Front(s) \in Seq(T)
           /\ Range(Front(s)) \subseteq Range(s)
           /\ Range(s) \ {Last(s)} \subseteq Range(Front(s))
           /\ IsInjective(s) => /\ Range(Front(s)) = Range(s) \ {Last(s)}
                                /\ IsInjective(Front(s))
  <1>1. Len(s) \in 1..Len(s) /\ Last(s) = s[Len(s)] /\ Last(s) \in T
    BY DEF Last
  <1>2. Front(s) = RemoveAt(s, Len(s))
    <2>1. SubSeq(s, Len(s) + 1, Len(s)) = <<>>
      OBVIOUS
    <2>2. SubSeq(s, 1, Len(s) - 1) \in Seq(T)
      BY <1>1
    <2>3. SubSeq(s, 1, Len(s) - 1) \o <<>> = SubSeq(s, 1, Len(s) - 1)
      BY <2>2
    <2> QED BY <2>1, <2>3 DEF Front, RemoveAt
  <1> QED BY <1>1, <1>2, RemoveAtElements

\* Removing makes a list one shorter.
LEMMA OneShorter ==
    ASSUME NEW T, NEW s \in Seq(T), s # <<>>
    PROVE  /\ Len(Front(s)) = Len(s) - 1
           /\ \A i \in 1..Len(s) : Len(RemoveAt(s, i)) = Len(s) - 1
  <1>1. Len(s) - 1 \in Nat /\ Len(s) \in Nat
    OBVIOUS
  <1>2. Len(Front(s)) = Len(s) - 1
    <2> DEFINE m == Len(s) - 1
    <2>1. m \in Nat /\ m <= Len(s)
      BY <1>1
    <2>2. Front(s) = SubSeq(s, 1, m)
      BY DEF Front
    <2> HIDE DEF m
    <2>3. Len(SubSeq(s, 1, m)) = m
      BY <2>1
    <2> QED BY <2>2, <2>3 DEF m
  <1>3. ASSUME NEW i \in 1..Len(s) PROVE Len(RemoveAt(s, i)) = Len(s) - 1
    <2> DEFINE a == SubSeq(s, 1, i - 1)
               b == SubSeq(s, i + 1, Len(s))
    <2>1. a \in Seq(T) /\ Len(a) = i - 1
      BY <1>1
    <2>2. b \in Seq(T) /\ Len(b) = Len(s) - i
      BY <1>1
    <2>3. RemoveAt(s, i) = a \o b
      BY DEF RemoveAt
    <2> HIDE DEF a, b
    <2>4. Len(a \o b) = Len(a) + Len(b)
      BY <2>1, <2>2
    <2>5. (i - 1) + (Len(s) - i) = Len(s) - 1
      BY <1>1
    <2> QED BY <2>1, <2>2, <2>3, <2>4, <2>5
  <1> QED BY <1>2, <1>3

\* Overwriting a slot exchanges one element for another.
LEMMA ReplaceAtElements ==
    ASSUME NEW T, NEW s \in Seq(T), NEW e \in T, NEW i \in 1..Len(s)
    PROVE  /\ ReplaceAt(s, i, e) \in Seq(T)
           /\ Range(ReplaceAt(s, i, e)) \subseteq Range(s) \cup {e}
           /\ IsInjective(s) /\ e \notin Range(s) =>
                /\ Range(ReplaceAt(s, i, e)) = (Range(s) \ {s[i]}) \cup {e}
                /\ IsInjective(ReplaceAt(s, i, e))
  <1> DEFINE t == ReplaceAt(s, i, e)
  <1>1. /\ t \in Seq(T)
        /\ Len(t) = Len(s)
        /\ \A k \in 1..Len(s) : t[k] = IF k = i THEN e ELSE s[k]
    BY DEF ReplaceAt
  <1> HIDE DEF t
  <1>2. Range(t) \subseteq Range(s) \cup {e}
    BY <1>1 DEF Range
  <1>3. ASSUME IsInjective(s), e \notin Range(s)
        PROVE  Range(t) = (Range(s) \ {s[i]}) \cup {e} /\ IsInjective(t)
    <2>1. \A m, n \in 1..Len(s) : s[m] = s[n] => m = n
      BY <1>3 DEF IsInjective
    <2>2. \A m \in 1..Len(s) : s[m] # e
      BY <1>3 DEF Range
    <2>3. \A j, k \in 1..Len(s) : t[j] = t[k] => j = k
      BY <1>1, <2>1, <2>2
    <2>4. Range(t) = (Range(s) \ {s[i]}) \cup {e}
      BY <1>1, <2>1, <2>2 DEF Range
    <2> QED BY <1>1, <2>3, <2>4 DEF IsInjective
  <1> QED BY <1>1, <1>2, <1>3 DEF t
--------------------------------------------------------------------------------
(* Loops that count from 1 to n.                                               *)

SmallerNat == {p \in Nat \X Nat : p[1] < p[2]}

LEMMA SmallerNatIsWellFounded == IsWellFoundedOn(SmallerNat, Nat)
  <1>1. OpToRel(<, Nat) = SmallerNat
    BY Zenon DEF OpToRel, SmallerNat
  <1> QED BY <1>1, NatLessThanWellFounded, Zenon

LEMMA SmallestNat ==
    ASSUME NEW S \in SUBSET Nat, S # {}
    PROVE  \E m \in S : \A i \in S : m <= i
  <1>1. PICK m \in S : \A i \in S : <<i, m>> \notin SmallerNat
    BY SmallerNatIsWellFounded, WFMin, Zenon
  <1>2. ASSUME NEW i \in S PROVE m <= i
    <2>1. m \in Nat /\ i \in Nat
      OBVIOUS
    <2>2. i < m => <<i, m>> \in SmallerNat
      BY <2>1 DEF SmallerNat
    <2> QED BY <1>1, <2>1, <2>2
  <1> QED BY <1>2

\* What holds before a loop, and after each turn if it held before the turn, holds
\* throughout.
LEMMA Rounds ==
    ASSUME NEW n \in Nat, NEW S, 0 \in S, \A j \in 1..n : j - 1 \in S => j \in S
    PROVE  \A j \in 0..n : j \in S
  <1> DEFINE B == {j \in 0..n : j \notin S}
  <1>1. SUFFICES ASSUME B # {} PROVE FALSE
    OBVIOUS
  <1>2. PICK m \in B : \A j \in B : <<j, m>> \notin SmallerNat
    <2>1. B \subseteq Nat
      OBVIOUS
    <2> QED BY <1>1, <2>1, SmallerNatIsWellFounded, WFMin, Zenon
  <1>3. m \in 1..n
    BY <1>2
  <1>4. m - 1 \in S
    <2>1. <<m - 1, m>> \in SmallerNat
      BY <1>3 DEF SmallerNat
    <2> QED BY <1>2, <1>3, <2>1
  <1> QED BY <1>2, <1>3, <1>4

\* f holds what there is before the first turn and after each of n turns; G[j] is
\* what turn j does.
IsLoop(f, n, A, a, G) ==
    f \in [0..n -> A] /\ f[0] = a /\ \A j \in 1..n : f[j] = G[j][f[j - 1]]

\* A loop whose turns are a function of the turn and of what was there before it
\* runs to its end.
LEMMA LoopRuns ==
    ASSUME NEW n \in Nat, NEW A, NEW a \in A, NEW G \in [1..n -> [A -> A]]
    PROVE  \E f : IsLoop(f, n, A, a, G)
  <1> DEFINE S == {m \in 0..n : \E f : IsLoop(f, m, A, a, G)}
  <1>1. 0 \in S
    <2>1. IsLoop([j \in 0..0 |-> a], 0, A, a, G)
      BY DEF IsLoop
    <2>2. \E f : IsLoop(f, 0, A, a, G)
      BY <2>1, Zenon
    <2> QED BY <2>2
  <1>2. ASSUME NEW m \in 1..n, m - 1 \in S PROVE m \in S
    <2>1. PICK f : IsLoop(f, m - 1, A, a, G)
      BY <1>2
    <2> DEFINE g == [j \in 0..m |-> IF j = m THEN G[m][f[m - 1]] ELSE f[j]]
    <2>2. g \in [0..m -> A] /\ g[0] = a
      BY <2>1 DEF IsLoop
    <2>3. ASSUME NEW j \in 1..m PROVE g[j] = G[j][g[j - 1]]
      <3>1. j - 1 \in 0..(m - 1) /\ g[j - 1] = f[j - 1]
        OBVIOUS
      <3>2. CASE j = m
        BY <3>1, <3>2
      <3>3. CASE j # m
        BY <2>1, <3>1, <3>3 DEF IsLoop
      <3> QED BY <3>2, <3>3
    <2>4. IsLoop(g, m, A, a, G)
      BY <2>2, <2>3 DEF IsLoop
    <2> HIDE DEF g
    <2>5. \E f2 : IsLoop(f2, m, A, a, G)
      BY <2>4, Zenon
    <2> QED BY <2>5
  <1> HIDE DEF S
  <1>3. n \in S
    <2>1. \A j \in 0..n : j \in S
      BY <1>1, <1>2, Rounds, Zenon
    <2> QED BY <2>1
  <1> QED BY <1>3 DEF S

\* f is what a recursive definition asks for, if G[x][g] is what it makes of x where
\* the recursive calls are answered by g.
IsRecursion(f, D, A, G) == f \in [D -> A] /\ \A x \in D : f[x] = G[x][f]

\* What G makes of x depends on the answers for arguments of a lower rank only.
Lowers(G, D, A, rank, m) ==
    /\ rank \in [D -> 0..m] /\ G \in [D -> [[D -> A] -> A]]
    /\ \A x \in D : \A f, g \in [D -> A] :
           (\A y \in D : rank[y] < rank[x] => f[y] = g[y]) => G[x][f] = G[x][g]

\* A recursion whose calls are for arguments of a lower rank has an answer for every
\* argument.
LEMMA RecursionRuns ==
    ASSUME NEW D, NEW m \in Nat, NEW rank, NEW A, NEW a \in A, NEW G, Lowers(G, D, A, rank, m)
    PROVE  \E f : IsRecursion(f, D, A, G)
  <1> DEFINE F == [D -> A]
             none == [x \in D |-> a]
             H == [j \in 1..(m + 1) |-> [f \in F |-> [x \in D |-> G[x][f]]]]
  <1>0. /\ rank \in [D -> 0..m] /\ G \in [D -> [F -> A]]
        /\ \A x \in D : \A f, g \in F :
               (\A y \in D : rank[y] < rank[x] => f[y] = g[y]) => G[x][f] = G[x][g]
    BY DEF Lowers
  <1>1. none \in F /\ H \in [1..(m + 1) -> [F -> F]] /\ m + 1 \in Nat
    BY <1>0
  <1>2. PICK h : IsLoop(h, m + 1, F, none, H)
    <2> HIDE DEF F, none, H
    <2>1. \E h : IsLoop(h, m + 1, F, none, H)
      BY <1>1, LoopRuns
    <2> QED BY <2>1
  <1>3. /\ \A j \in 0..(m + 1) : h[j] \in F
        /\ \A j \in 1..(m + 1) : \A x \in D : h[j][x] = G[x][h[j - 1]]
    <2>1. h \in [0..(m + 1) -> F] /\ \A j \in 1..(m + 1) : h[j] = H[j][h[j - 1]]
      BY <1>2 DEF IsLoop
    <2>2. ASSUME NEW j \in 1..(m + 1) PROVE \A x \in D : h[j][x] = G[x][h[j - 1]]
      <3>1. j - 1 \in 0..(m + 1) /\ h[j] = H[j][h[j - 1]]
        <4>1. j - 1 \in 0..(m + 1)
          OBVIOUS
        <4> HIDE DEF F, H
        <4> QED BY <2>1, <4>1
      <3>2. h[j - 1] \in F
        BY <2>1, <3>1
      <3> QED BY <3>1, <3>2
    <2> QED BY <2>1, <2>2
  <1> HIDE DEF H, none
  <1> DEFINE S == {j \in 0..(m + 1) : \A x \in D : rank[x] < j => h[j][x] = G[x][h[j]]}
  <1>4. 0 \in S
    BY <1>0
  <1>5. ASSUME NEW j \in 1..(m + 1), j - 1 \in S PROVE j \in S
    <2> DEFINE f == h[j - 1]
               g == h[j]
    <2>1. /\ f \in F /\ g \in F /\ \A x \in D : g[x] = G[x][f]
          /\ \A x \in D : rank[x] < j - 1 => f[x] = G[x][f]
      BY <1>3, <1>5
    <2> HIDE DEF f, g, S
    <2>2. ASSUME NEW x \in D, rank[x] < j PROVE g[x] = G[x][g]
      <3>1. \A y \in D : rank[y] < rank[x] => f[y] = g[y]
        <4>1. ASSUME NEW y \in D, rank[y] < rank[x] PROVE f[y] = g[y]
          <5>1. rank[y] < j - 1
            <6>1. rank[x] \in Int /\ rank[y] \in Int /\ j \in Int
              BY <1>0
            <6> QED BY <2>2, <4>1, <6>1
          <5> QED BY <2>1, <5>1
        <4> QED BY <4>1
      <3>2. G[x][f] = G[x][g]
        BY <1>0, <2>1, <3>1
      <3> QED BY <2>1, <3>2
    <2> QED BY <2>2 DEF S, g
  <1>6. \A j \in 0..(m + 1) : j \in S
    <2> HIDE DEF S
    <2> QED BY <1>1, <1>4, <1>5, Rounds
  <1>7. IsRecursion(h[m + 1], D, A, G)
    <2>1. \A x \in D : rank[x] < m + 1
      BY <1>0
    <2>2. m + 1 \in S
      BY <1>6
    <2> QED BY <1>3, <2>1, <2>2 DEF IsRecursion
  <1> QED BY <1>7

--------------------------------------------------------------------------------
(* Bisections.                                                                 *)

\* f answers a pair of bounds by looking at the place in the middle; B are the
\* places whose key is to be skipped.
Halving(f, n, B) ==
    f = [p \in (0..n) \X (0..n) |->
            IF p[1] >= p[2] THEN p[1]
            ELSE IF ((p[1] + p[2]) \div 2) + 1 \in B THEN f[<<((p[1] + p[2]) \div 2) + 1, p[2]>>]
            ELSE f[<<p[1], (p[1] + p[2]) \div 2>>]]

LEMMA MiddleIsBetween ==
    ASSUME NEW lo \in Int, NEW hi \in Int, lo < hi
    PROVE  /\ (lo + hi) \div 2 \in Int /\ lo <= (lo + hi) \div 2 /\ (lo + hi) \div 2 < hi
  OBVIOUS

LEMMA HalvingRuns ==
    ASSUME NEW n \in Nat, NEW B
    PROVE  \E f : Halving(f, n, B)
  <1> DEFINE D == (0..n) \X (0..n)
             rank == [p \in D |-> IF p[1] < p[2] THEN p[2] - p[1] ELSE 0]
             mid(p) == (p[1] + p[2]) \div 2
             G == [p \in D |-> [f \in [D -> 0..n] |->
                      IF p[1] >= p[2] THEN p[1]
                      ELSE IF mid(p) + 1 \in B THEN f[<<mid(p) + 1, p[2]>>]
                      ELSE f[<<p[1], mid(p)>>]]]
  <1>1. rank \in [D -> 0..n]
    OBVIOUS
  <1>2. ASSUME NEW p \in D, p[1] < p[2]
        PROVE  /\ <<mid(p) + 1, p[2]>> \in D /\ rank[<<mid(p) + 1, p[2]>>] < rank[p]
               /\ <<p[1], mid(p)>> \in D /\ rank[<<p[1], mid(p)>>] < rank[p]
    <2>1. p[1] \in 0..n /\ p[2] \in 0..n
      OBVIOUS
    <2>2. mid(p) \in Int /\ p[1] <= mid(p) /\ mid(p) < p[2]
      BY <1>2, <2>1, MiddleIsBetween
    <2> HIDE DEF mid
    <2> QED BY <1>2, <2>1, <2>2
  <1> HIDE DEF mid, rank
  <1>3. ASSUME NEW p \in D, NEW f \in [D -> 0..n] PROVE G[p][f] \in 0..n
    BY <1>2, <1>3
  <1>4. G \in [D -> [[D -> 0..n] -> 0..n]]
    BY <1>3
  <1>5. ASSUME NEW p \in D, NEW f \in [D -> 0..n], NEW g \in [D -> 0..n],
               \A q \in D : rank[q] < rank[p] => f[q] = g[q]
        PROVE  G[p][f] = G[p][g]
    BY <1>2, <1>5
  <1> HIDE DEF G
  <1>6. PICK f : IsRecursion(f, D, 0..n, G)
    <2> DEFINE A == 0..n
    <2>1. 0 \in A
      OBVIOUS
    <2>2. Lowers(G, D, A, rank, n)
      BY <1>1, <1>4, <1>5 DEF Lowers
    <2> HIDE DEF D, A
    <2>3. \E f : IsRecursion(f, D, A, G)
      BY <2>1, <2>2, RecursionRuns
    <2> QED BY <2>3 DEF A
  <1> USE DEF G
  <1>7. Halving(f, n, B)
    BY <1>6 DEF IsRecursion, Halving, mid
  <1> QED BY <1>7

ComesFirst(B, n) == \A i, j \in 1..n : i <= j /\ j \in B => i \in B

\* The answer keeps to the bounds; where what is to be skipped comes first, it is how
\* much of that there is.
LEMMA HalvingFinds ==
    ASSUME NEW n \in Nat, NEW B, NEW f, Halving(f, n, B),
           NEW lo \in 0..n, NEW hi \in 0..n, lo <= hi
    PROVE  /\ f[<<lo, hi>>] \in lo..hi
           /\ ComesFirst(B, n) =>
                  \A i \in (lo + 1)..hi : i \in B <=> i <= f[<<lo, hi>>]
  <1> DEFINE Found(a, b) ==
                 /\ f[<<a, b>>] \in a..b
                 /\ ComesFirst(B, n) => \A i \in (a + 1)..b : i \in B <=> i <= f[<<a, b>>]
             S == {m \in 0..n : \A a, b \in 0..n : a <= b /\ b - a <= m => Found(a, b)}
  <1>1. \A a \in 0..n : Found(a, a)
    BY DEF Halving
  <1>2. 0 \in S
    <2> HIDE DEF Found
    <2> QED BY <1>1
  <1>3. ASSUME NEW m \in 1..n, m - 1 \in S PROVE m \in S
    <2>1. SUFFICES ASSUME NEW a \in 0..n, NEW b \in 0..n, a < b, b - a <= m PROVE Found(a, b)
      <3> HIDE DEF Found
      <3> QED BY <1>1, <2>1
    <2> DEFINE mid == (a + b) \div 2
    <2>2. mid \in Int /\ a <= mid /\ mid < b
      BY <2>1, MiddleIsBetween
    <2>3. f[<<a, b>>] = IF mid + 1 \in B THEN f[<<mid + 1, b>>] ELSE f[<<a, mid>>]
      BY <2>1 DEF Halving
    <2> HIDE DEF mid
    <2>4. Found(mid + 1, b) /\ Found(a, mid)
      <3>1. /\ mid + 1 \in 0..n /\ mid \in 0..n /\ mid + 1 <= b
            /\ b - (mid + 1) <= m - 1 /\ mid - a <= m - 1
        BY <2>1, <2>2
      <3> HIDE DEF Found
      <3> QED BY <1>3, <2>2, <3>1
    <2>5. f[<<a, b>>] \in a..b
      BY <2>1, <2>2, <2>3, <2>4
    <2>6. ASSUME ComesFirst(B, n), NEW i \in (a + 1)..b
          PROVE  i \in B <=> i <= f[<<a, b>>]
      <3>1. CASE mid + 1 \in B
        <4>1. f[<<a, b>>] \in (mid + 1)..b
          BY <2>3, <2>4, <3>1
        <4>2. i <= mid + 1 => i \in B
          BY <2>1, <2>2, <2>6, <3>1 DEF ComesFirst
        <4> QED BY <2>1, <2>2, <2>3, <2>4, <2>6, <3>1, <4>1, <4>2
      <3>2. CASE mid + 1 \notin B
        <4>1. f[<<a, b>>] \in a..mid
          BY <2>3, <2>4, <3>2
        <4>2. i > mid => i \notin B
          BY <2>1, <2>2, <2>6, <3>2 DEF ComesFirst
        <4> QED BY <2>1, <2>2, <2>3, <2>4, <2>6, <3>2, <4>1, <4>2
      <3> QED BY <3>1, <3>2
    <2> QED BY <2>5, <2>6
  <1>4. n \in S
    <2> HIDE DEF S
    <2>1. \A j \in 0..n : j \in S
      BY <1>2, <1>3, Rounds
    <2> QED BY <2>1
  <1> QED BY <1>4

Sorted(keys) == \A i, j \in 1..Len(keys) : i <= j => keys[i] <= keys[j]

\* In sorted keys those before the answer are below the target, and no others.
LEMMA BisectLeftFinds ==
    ASSUME NEW keys, Len(keys) \in Nat, \A i \in 1..Len(keys) : keys[i] \in Int,
           NEW target \in Int
    PROVE  /\ BisectLeft(keys, target) \in 0..Len(keys)
           /\ Sorted(keys) => \A i \in 1..Len(keys) :
                  keys[i] < target <=> i <= BisectLeft(keys, target)
  <1> DEFINE n == Len(keys)
             B == {i \in 1..n : keys[i] < target}
             Loop(f) == f = [p \in (0..n) \X (0..n) |->
                               IF p[1] >= p[2] THEN p[1]
                               ELSE IF keys[((p[1] + p[2]) \div 2) + 1] < target
                               THEN f[<<((p[1] + p[2]) \div 2) + 1, p[2]>>]
                               ELSE f[<<p[1], (p[1] + p[2]) \div 2>>]]
             h == CHOOSE f : Loop(f)
  <1>1. BisectLeft(keys, target) = h[<<0, n>>]
    BY DEF BisectLeft
  <1>2. ASSUME NEW f PROVE Halving(f, n, B) <=> Loop(f)
    <2>1. ASSUME NEW p \in (0..n) \X (0..n), p[1] < p[2]
          PROVE  ((p[1] + p[2]) \div 2) + 1 \in B <=> keys[((p[1] + p[2]) \div 2) + 1] < target
      <3>1. p[1] \in 0..n /\ p[2] \in 0..n
        OBVIOUS
      <3>2. ((p[1] + p[2]) \div 2) + 1 \in 1..n
        BY <2>1, <3>1, MiddleIsBetween
      <3> QED BY <3>2
    <2> HIDE DEF B
    <2> QED BY <2>1 DEF Halving
  <1>3. \E f : Loop(f)
    BY <1>2, HalvingRuns
  <1> HIDE DEF Loop
  <1>4. Loop(h)
    BY <1>3, Zenon
  <1>5. Halving(h, n, B)
    BY <1>2, <1>4
  <1>6. Sorted(keys) => ComesFirst(B, n)
    BY DEF Sorted, ComesFirst
  <1>7. \A i \in 1..n : i \in B <=> keys[i] < target
    OBVIOUS
  <1> HIDE DEF h, B
  <1>8. /\ h[<<0, n>>] \in 0..n
        /\ Sorted(keys) => \A i \in (0 + 1)..n : i \in B <=> i <= h[<<0, n>>]
    <2>1. 0 \in 0..n /\ n \in 0..n /\ n \in Nat /\ 0 <= n
      OBVIOUS
    <2> HIDE DEF n
    <2> QED BY <1>5, <1>6, <2>1, HalvingFinds
  <1> QED BY <1>1, <1>7, <1>8

\* In sorted keys those from the given place to the answer are not above the target,
\* and no others.
LEMMA BisectRightFinds ==
    ASSUME NEW keys, Len(keys) \in Nat, \A i \in 1..Len(keys) : keys[i] \in Int,
           NEW target \in Int, NEW from \in 0..Len(keys)
    PROVE  /\ BisectRight(keys, target, from) \in from..Len(keys)
           /\ Sorted(keys) => \A i \in (from + 1)..Len(keys) :
                  keys[i] <= target <=> i <= BisectRight(keys, target, from)
  <1> DEFINE n == Len(keys)
             B == {i \in 1..n : keys[i] <= target}
             Loop(f) == f = [p \in (0..n) \X (0..n) |->
                               IF p[1] >= p[2] THEN p[1]
                               ELSE IF target < keys[((p[1] + p[2]) \div 2) + 1]
                               THEN f[<<p[1], (p[1] + p[2]) \div 2>>]
                               ELSE f[<<((p[1] + p[2]) \div 2) + 1, p[2]>>]]
             h == CHOOSE f : Loop(f)
  <1>1. BisectRight(keys, target, from) = h[<<from, n>>]
    BY DEF BisectRight
  <1>2. ASSUME NEW f PROVE Halving(f, n, B) <=> Loop(f)
    <2>1. ASSUME NEW p \in (0..n) \X (0..n), p[1] < p[2]
          PROVE  ((p[1] + p[2]) \div 2) + 1 \in B <=> ~(target < keys[((p[1] + p[2]) \div 2) + 1])
      <3>1. p[1] \in 0..n /\ p[2] \in 0..n
        OBVIOUS
      <3>2. ((p[1] + p[2]) \div 2) + 1 \in 1..n
        BY <2>1, <3>1, MiddleIsBetween
      <3> DEFINE k == ((p[1] + p[2]) \div 2) + 1
      <3> HIDE DEF k
      <3>3. k \in 1..n => (k \in B <=> ~(target < keys[k]))
        OBVIOUS
      <3> QED BY <3>2, <3>3 DEF k
    <2> DEFINE D == (0..n) \X (0..n)
               up(p) == f[<<((p[1] + p[2]) \div 2) + 1, p[2]>>]
               down(p) == f[<<p[1], (p[1] + p[2]) \div 2>>]
               X(p) == IF p[1] >= p[2] THEN p[1]
                       ELSE IF ((p[1] + p[2]) \div 2) + 1 \in B THEN up(p) ELSE down(p)
               Y(p) == IF p[1] >= p[2] THEN p[1]
                       ELSE IF target < keys[((p[1] + p[2]) \div 2) + 1] THEN down(p) ELSE up(p)
    <2>2. ASSUME NEW p \in D PROVE X(p) = Y(p)
      <3> HIDE DEF up, down, B
      <3>1. p[1] \in Int /\ p[2] \in Int
        OBVIOUS
      <3>2. CASE p[1] >= p[2]
        BY <3>2
      <3>3. CASE p[1] < p[2]
        BY <2>1, <3>1, <3>3
      <3> QED BY <3>1, <3>2, <3>3
    <2>3. (Halving(f, n, B) <=> f = [p \in D |-> X(p)]) /\ (Loop(f) <=> f = [p \in D |-> Y(p)])
      BY DEF Halving
    <2> HIDE DEF X, Y, D, Loop
    <2> QED BY <2>2, <2>3
  <1>3. \E f : Loop(f)
    BY <1>2, HalvingRuns
  <1> HIDE DEF Loop
  <1>4. Loop(h)
    BY <1>3, Zenon
  <1>5. Halving(h, n, B)
    BY <1>2, <1>4
  <1>6. Sorted(keys) => ComesFirst(B, n)
    BY DEF Sorted, ComesFirst
  <1>7. \A i \in 1..n : i \in B <=> keys[i] <= target
    OBVIOUS
  <1> HIDE DEF h, B
  <1>8. /\ h[<<from, n>>] \in from..n
        /\ Sorted(keys) => \A i \in (from + 1)..n : i \in B <=> i <= h[<<from, n>>]
    <2>1. from \in 0..n /\ n \in 0..n /\ n \in Nat /\ from <= n
      OBVIOUS
    <2> HIDE DEF n
    <2> QED BY <1>5, <1>6, <2>1, HalvingFinds
  <1> QED BY <1>1, <1>7, <1>8

\* Two bisections leave a slice: of sorted keys the children whose end and start allow
\* it.
LeavesSlice(kids, n, ends, starts, from, to) ==
    LET a == BisectLeft(ends, from)
        b == BisectRight(starts, to, a)
    IN  /\ a \in 0..n /\ b \in 0..n /\ a <= b
        /\ Between(kids, ends, starts, from, to) = SubSeq(kids, a + 1, b)
        /\ Sorted(ends) /\ Sorted(starts) => \A i \in 1..n :
               (a < i /\ i <= b) <=> (from <= ends[i] /\ starts[i] <= to)

LEMMA BetweenIsSlice ==
    ASSUME NEW kids, NEW n \in Nat, Len(kids) = n, NEW ends \in [1..n -> Int],
           NEW starts \in [1..n -> Int], NEW from \in Int, NEW to \in Int
    PROVE  LeavesSlice(kids, n, ends, starts, from, to)
  <1> DEFINE a == BisectLeft(ends, from)
             b == BisectRight(starts, to, a)
  <1>1. Len(ends) = n /\ Len(starts) = n
    OBVIOUS
  <1>2. a \in 0..n /\ (Sorted(ends) => \A i \in 1..n : ends[i] < from <=> i <= a)
    BY <1>1, BisectLeftFinds
  <1> HIDE DEF a
  <1>3. /\ b \in a..n
        /\ Sorted(starts) => \A i \in (a + 1)..n : starts[i] <= to <=> i <= b
    BY <1>1, <1>2, BisectRightFinds
  <1>4. Between(kids, ends, starts, from, to) = SubSeq(kids, a + 1, b)
    BY DEF Between, a
  <1> HIDE DEF b
  <1>5. ASSUME Sorted(ends), Sorted(starts), NEW i \in 1..n
        PROVE  (a < i /\ i <= b) <=> (from <= ends[i] /\ starts[i] <= to)
    <2>1. ends[i] \in Int /\ starts[i] \in Int
      OBVIOUS
    <2>2. ends[i] < from <=> i <= a
      BY <1>2, <1>5
    <2>3. i > a => (starts[i] <= to <=> i <= b)
      BY <1>2, <1>3, <1>5
    <2> QED BY <1>2, <1>3, <2>1, <2>2, <2>3
  <1>6. a \in 0..n /\ b \in 0..n /\ a <= b
    BY <1>2, <1>3
  <1> QED BY <1>4, <1>5, <1>6 DEF a, b, LeavesSlice

LEMMA SliceElements ==
    ASSUME NEW T, NEW kids \in Seq(T), NEW a \in 0..Len(kids), NEW b \in 0..Len(kids), a <= b
    PROVE  LET w == SubSeq(kids, a + 1, b)
           IN  /\ w \in Seq(T) /\ Len(w) = b - a /\ DOMAIN w = 1..(b - a) /\ b - a \in Nat
               /\ \A i \in 1..(b - a) : a + i \in 1..Len(kids) /\ w[i] = kids[a + i]
  OBVIOUS

LEMMA MinOfNats ==
    ASSUME NEW S \in SUBSET Nat, S # {}
    PROVE  Min(S) \in S /\ \A i \in S : Min(S) <= i
  <1>1. \E m \in S : \A i \in S : m <= i
    BY SmallestNat
  <1> QED BY <1>1 DEF Min

LEMMA MinIs ==
    ASSUME NEW S \in SUBSET Int, NEW m \in S, \A i \in S : m <= i
    PROVE  Min(S) = m
  <1>1. \E x \in S : \A y \in S : x <= y
    OBVIOUS
  <1> DEFINE x == Min(S)
  <1>2. x \in S /\ \A y \in S : x <= y
    BY <1>1 DEF Min
  <1> HIDE DEF x
  <1>3. x = m
    BY <1>2
  <1> QED BY <1>3 DEF x

LEMMA MaxIs ==
    ASSUME NEW S \in SUBSET Int, NEW m \in S, \A i \in S : i <= m
    PROVE  Max(S) = m
  <1>1. \E x \in S : \A y \in S : x >= y
    OBVIOUS
  <1> DEFINE x == Max(S)
  <1>2. x \in S /\ \A y \in S : x >= y
    BY <1>1 DEF Max
  <1> HIDE DEF x
  <1>3. x = m
    BY <1>2
  <1> QED BY <1>3 DEF x

\* Where the children and their map agree with a list of ranges.
LookedUp(kids, map, r) ==
    /\ IsList(kids) /\ r \in [1..Len(kids) -> [start : Int, dur : Int]]
    /\ \A i \in 1..Len(kids) : map[kids[i]] = r[i]

SortedRanges(r, n) ==
    \A i, j \in 1..n : i <= j =>
        r[i].start <= r[j].start /\ EndExclusive(r[i]) <= EndExclusive(r[j])

\* The search answers with a child that contains the time, and where starts and ends
\* are sorted with the first one, if there is any.
FindsFirst(kids, map, r, t, none) ==
    /\ \/ FirstAt(kids, map, t, none) = none
       \/ \E i \in 1..Len(kids) : FirstAt(kids, map, t, none) = kids[i] /\ ContainsTime(r[i], t)
    /\ SortedRanges(r, Len(kids)) =>
           LET at == {i \in 1..Len(kids) : ContainsTime(r[i], t)}
           IN  FirstAt(kids, map, t, none) = IF at = {} THEN none ELSE kids[Min(at)]

LEMMA FirstAtFinds ==
    ASSUME NEW kids, NEW map, NEW r, LookedUp(kids, map, r), NEW t \in Int, NEW none
    PROVE  FindsFirst(kids, map, r, t, none)
  <1> DEFINE n == Len(kids)
             ends == [i \in 1..n |-> EndExclusive(r[i])]
             starts == [i \in 1..n |-> r[i].start]
             possible == Between(kids, ends, starts, t, t)
             I(s) == {i \in 1..Len(s) : ContainsTime(map[s[i]], t)}
             hit(s) == IF I(s) = {} THEN none ELSE s[Min(I(s))]
             at == {i \in 1..n : ContainsTime(r[i], t)}
  <1>1. /\ n \in Nat /\ DOMAIN kids = 1..n /\ kids \in Seq(Range(kids))
        /\ \A i \in 1..n : /\ r[i].start \in Int /\ EndExclusive(r[i]) \in Int
                           /\ map[kids[i]] = r[i]
    BY DEF LookedUp, IsList, EndExclusive
  <1>2. /\ ends \in [1..n -> Int] /\ starts \in [1..n -> Int]
        /\ ends = [i \in DOMAIN kids |-> EndExclusive(map[kids[i]])]
        /\ starts = Starts(kids, map)
    BY <1>1 DEF Starts
  <1>3. FirstAt(kids, map, t, none) = hit(possible)
    <2>1. FirstAt(kids, map, t, none)
            = LET first == SelectInSeq(possible, LAMBDA k : ContainsTime(map[k], t))
              IN  IF first = 0 THEN none ELSE possible[first]
      BY <1>2 DEF FirstAt
    <2> HIDE DEF possible
    <2>2. I(possible) # {} => Min(I(possible)) \in I(possible)
      <3>1. I(possible) \in SUBSET Nat
        OBVIOUS
      <3> HIDE DEF I
      <3> QED BY <3>1, MinOfNats
    <2>3. SelectInSeq(possible, LAMBDA k : ContainsTime(map[k], t))
            = IF I(possible) # {} THEN Min(I(possible)) ELSE 0
      BY DEF SelectInSeq
    <2>4. I(possible) # {} => Min(I(possible)) # 0
      BY <2>2
    <2> HIDE DEF I
    <2> QED BY <2>1, <2>3, <2>4
  <1> DEFINE a == BisectLeft(ends, t)
             b == BisectRight(starts, t, a)
  <1>4. /\ a \in 0..n /\ b \in 0..n /\ a <= b
        /\ possible = SubSeq(kids, a + 1, b)
        /\ Sorted(ends) /\ Sorted(starts) => \A i \in 1..n :
               (a < i /\ i <= b) <=> (t <= ends[i] /\ starts[i] <= t)
    <2>1. n \in Nat /\ Len(kids) = n /\ ends \in [1..n -> Int] /\ starts \in [1..n -> Int]
      BY <1>1, <1>2
    <2> HIDE DEF n, ends, starts
    <2>2. LeavesSlice(kids, n, ends, starts, t, t)
      BY <2>1, BetweenIsSlice
    <2> QED BY <2>2 DEF LeavesSlice
  <1> HIDE DEF a, b
  <1> DEFINE w == SubSeq(kids, a + 1, b)
  <1>5. /\ Len(w) = b - a /\ b - a \in Nat
        /\ \A i \in 1..(b - a) : a + i \in 1..n /\ w[i] = kids[a + i]
    BY <1>1, <1>4, SliceElements
  <1>56. ASSUME SortedRanges(r, n), NEW i \in 1..n, ContainsTime(r[i], t)
         PROVE  a < i /\ i <= b
    <2>1. Sorted(ends) /\ Sorted(starts)
      <3>1. \A j \in 1..n : ends[j] = EndExclusive(r[j]) /\ starts[j] = r[j].start
        OBVIOUS
      <3>2. Len(ends) = n /\ Len(starts) = n
        BY <1>1
      <3> HIDE DEF ends, starts, n
      <3> QED BY <1>56, <3>1, <3>2 DEF SortedRanges, Sorted
    <2>2. ends[i] = EndExclusive(r[i]) /\ starts[i] = r[i].start
      OBVIOUS
    <2>3. r[i].start <= t /\ t <= EndExclusive(r[i])
      BY <1>1, <1>56 DEF ContainsTime
    <2> HIDE DEF ends, starts, n
    <2> QED BY <1>4, <2>1, <2>2, <2>3
  <1>6. FirstAt(kids, map, t, none) = hit(w)
    BY <1>3, <1>4
  <1> HIDE DEF w, possible
  <1>7. /\ I(w) \in SUBSET Nat
        /\ \A i \in Nat : i \in I(w) <=> i \in 1..(b - a) /\ ContainsTime(r[a + i], t)
    BY <1>1, <1>5
  <1>8. I(w) # {} => Min(I(w)) \in I(w) /\ \A i \in I(w) : Min(I(w)) <= i
    <2> HIDE DEF I
    <2> QED BY <1>7, MinOfNats
  <1> HIDE DEF I
  <1>9. CASE I(w) = {}
    <2>1. FirstAt(kids, map, t, none) = none
      BY <1>6, <1>9
    <2>2. ASSUME SortedRanges(r, n), NEW i \in at PROVE FALSE
      <3>1. a < i /\ i <= b
        BY <1>56, <2>2
      <3>2. i - a \in I(w)
        <4>1. i - a \in Nat /\ i - a \in 1..(b - a) /\ a + (i - a) = i
          BY <1>4, <3>1
        <4> QED BY <1>7, <2>2, <4>1
      <3> QED BY <1>9, <3>2
    <2> QED BY <2>1, <2>2 DEF FindsFirst
  <1>10. CASE I(w) # {}
    <2> DEFINE m == Min(I(w))
    <2>1. m \in I(w) /\ \A i \in I(w) : m <= i
      BY <1>8, <1>10
    <2> HIDE DEF m
    <2>2. m \in 1..(b - a) /\ ContainsTime(r[a + m], t)
      BY <1>7, <2>1
    <2>3. FirstAt(kids, map, t, none) = kids[a + m] /\ a + m \in 1..n /\ a + m \in at
      BY <1>5, <1>6, <1>10, <2>2 DEF m
    <2>4. ASSUME SortedRanges(r, n), NEW i \in at PROVE a + m <= i
      <3>1. a < i /\ i <= b
        BY <1>56, <2>4
      <3>2. i - a \in I(w)
        <4>1. i - a \in Nat /\ i - a \in 1..(b - a) /\ a + (i - a) = i
          BY <1>4, <3>1
        <4> QED BY <1>7, <2>4, <4>1
      <3>3. m <= i - a
        BY <2>1, <3>2
      <3>4. m \in Int /\ a \in Int /\ i \in Int
        BY <1>4, <2>2
      <3> QED BY ONLY <3>3, <3>4
    <2>5. SortedRanges(r, n) => Min(at) = a + m
      <3>1. at \in SUBSET Int
        OBVIOUS
      <3> HIDE DEF at
      <3> QED BY <2>3, <2>4, <3>1, MinIs
    <2> QED BY <2>2, <2>3, <2>5 DEF FindsFirst
  <1> QED BY <1>9, <1>10 DEF FindsFirst

LEMMA OneLess ==
    ASSUME NEW a \in Int, NEW b \in Int, NEW c \in Int, NEW d \in Int, a + b <= c + d
    PROVE  a + b - 1 <= c + d - 1
  OBVIOUS

\* The search for a range finds the slice of the children that share a frame with it.
FindsAll(kids, map, r, s) ==
    LET at == {i \in 1..Len(kids) : Intersects(r[i], s)}
        found == AllIn(kids, map, s)
    IN  IF at = {} THEN found = <<>>
        ELSE /\ found = SubSeq(kids, Min(at), Max(at))
             /\ Range(found) = {kids[i] : i \in at}

LEMMA AllInFinds ==
    ASSUME NEW kids, NEW map, NEW r, LookedUp(kids, map, r), SortedRanges(r, Len(kids)),
           \A i \in 1..Len(kids) : r[i].dur > 0,
           NEW s, s.start \in Int, s.dur \in Int, s.dur > 0
    PROVE  FindsAll(kids, map, r, s)
  <1> DEFINE n == Len(kids)
             ends == [i \in 1..n |-> EndInclusive(r[i])]
             starts == [i \in 1..n |-> r[i].start]
             last == EndInclusive(s)
             at == {i \in 1..n : Intersects(r[i], s)}
             found == AllIn(kids, map, s)
  <1>1. /\ n \in Nat /\ DOMAIN kids = 1..n /\ kids \in Seq(Range(kids))
        /\ \A i \in 1..n : r[i].start \in Int /\ r[i].dur \in Int /\ map[kids[i]] = r[i]
    BY DEF LookedUp, IsList
  <1>2. \A i \in 1..n : EndInclusive(r[i]) = r[i].start + r[i].dur - 1
    BY <1>1 DEF EndInclusive, EndExclusive
  <1>3. last = s.start + s.dur - 1
    BY DEF EndInclusive, EndExclusive
  <1>4. found = Between(kids, ends, starts, s.start, last)
    <2>1. /\ ends = [i \in DOMAIN kids |-> EndInclusive(map[kids[i]])]
          /\ starts = Starts(kids, map)
      BY <1>1 DEF Starts
    <2> QED BY <2>1 DEF AllIn
  <1>5. ends \in [1..n -> Int] /\ starts \in [1..n -> Int] /\ last \in Int
    <2>1. ASSUME NEW i \in 1..n PROVE EndInclusive(r[i]) \in Int /\ r[i].start \in Int
      <3> DEFINE x == r[i].start
                 y == r[i].dur
                 z == EndInclusive(r[i])
      <3>1. x \in Int /\ y \in Int
        BY <1>1
      <3>2. z = x + y - 1
        BY <1>2
      <3> HIDE DEF x, y, z
      <3>3. z \in Int
        BY ONLY <3>1, <3>2
      <3> QED BY <3>1, <3>3 DEF x, z
    <2>2. last \in Int
      BY <1>3
    <2> QED BY <2>1, <2>2
  <1>6. Sorted(ends) /\ Sorted(starts)
    <2>1. Len(ends) = n /\ Len(starts) = n
      BY <1>1
    <2>2. ASSUME NEW i \in 1..n, NEW j \in 1..n, i <= j
          PROVE  ends[i] <= ends[j] /\ starts[i] <= starts[j]
      <3>1. r[i].start <= r[j].start /\ r[i].start + r[i].dur <= r[j].start + r[j].dur
        BY <2>2 DEF SortedRanges, EndExclusive
      <3>2. /\ ends[i] = r[i].start + r[i].dur - 1 /\ starts[i] = r[i].start
            /\ ends[j] = r[j].start + r[j].dur - 1 /\ starts[j] = r[j].start
        BY <1>2
      <3>3. r[i].start \in Int /\ r[i].dur \in Int /\ r[j].start \in Int /\ r[j].dur \in Int
        BY <1>1
      <3> HIDE DEF ends, starts
      <3>4. r[i].start + r[i].dur - 1 <= r[j].start + r[j].dur - 1
        BY <3>1, <3>3, OneLess, Zenon
      <3> QED BY ONLY <3>1, <3>2, <3>4, Zenon
    <2> HIDE DEF ends, starts, n
    <2> QED BY <2>1, <2>2 DEF Sorted
  <1> DEFINE a == BisectLeft(ends, s.start)
             b == BisectRight(starts, last, a)
  <1>7. /\ a \in 0..n /\ b \in 0..n /\ a <= b /\ found = SubSeq(kids, a + 1, b)
        /\ \A i \in 1..n : (a < i /\ i <= b) <=> (s.start <= ends[i] /\ starts[i] <= last)
    <2>1. n \in Nat /\ Len(kids) = n /\ s.start \in Int
      BY <1>1
    <2> HIDE DEF n, ends, starts, last, found, at
    <2>2. LeavesSlice(kids, n, ends, starts, s.start, last)
      BY ONLY <1>5, <2>1, BetweenIsSlice
    <2> QED BY <1>4, <1>6, <2>2 DEF LeavesSlice
  <1> HIDE DEF a, b
  <1>8. ASSUME NEW i \in 1..n PROVE i \in at <=> a < i /\ i <= b
    <2>1. i \in at <=> r[i].start < s.start + s.dur /\ r[i].start + r[i].dur > s.start
      BY DEF Intersects, EndExclusive
    <2>2. ends[i] = r[i].start + r[i].dur - 1 /\ starts[i] = r[i].start
      BY <1>2
    <2>3. (a < i /\ i <= b) <=> (s.start <= ends[i] /\ starts[i] <= last)
      BY <1>7
    <2>4. r[i].start \in Int /\ r[i].dur \in Int
      BY <1>1
    <2> HIDE DEF at, ends, starts, last
    <2>5. s.start <= ends[i] <=> r[i].start + r[i].dur > s.start
      BY <2>2, <2>4
    <2>6. starts[i] <= last <=> r[i].start < s.start + s.dur
      BY <1>3, <2>2, <2>4
    <2> QED BY <2>1, <2>3, <2>5, <2>6, Zenon
  <1>9. at \subseteq 1..n
    OBVIOUS
  <1>10. /\ Len(found) = b - a /\ DOMAIN found = 1..(b - a)
         /\ \A i \in 1..(b - a) : a + i \in 1..n /\ found[i] = kids[a + i]
    <2> HIDE DEF found
    <2> QED BY <1>1, <1>7, SliceElements
  <1> HIDE DEF at, found, ends, starts, last
  <1>11. CASE a = b
    <2>1. at = {}
      BY <1>7, <1>8, <1>9, <1>11
    <2>2. found = <<>>
      <3>1. SubSeq(kids, a + 1, b) = <<>>
        BY <1>1, <1>7, <1>11
      <3> QED BY <1>7, <3>1
    <2> QED BY <2>1, <2>2 DEF at, found, FindsAll
  <1>12. CASE a # b
    <2>1. a + 1 \in 1..n /\ b \in 1..n /\ a < b
      BY <1>1, <1>7, <1>12
    <2>2. a + 1 \in at /\ b \in at
      BY <1>7, <1>8, <2>1
    <2>3. \A i \in at : a + 1 <= i /\ i <= b
      BY <1>7, <1>8, <1>9
    <2>4. Min(at) = a + 1 /\ Max(at) = b
      <3>1. at \in SUBSET Int
        BY <1>9
      <3> QED BY <2>2, <2>3, <3>1, MinIs, MaxIs
    <2>5. Range(found) = {kids[i] : i \in at}
      <3>1. \A i \in 1..(b - a) : a + i \in at /\ found[i] = kids[a + i]
        <4>1. ASSUME NEW i \in 1..(b - a) PROVE a < a + i /\ a + i <= b
          BY <1>7
        <4> QED BY <1>8, <1>10, <4>1
      <3>2. \A i \in at : i - a \in 1..(b - a) /\ kids[i] = found[i - a]
        <4>1. ASSUME NEW i \in at PROVE i - a \in 1..(b - a) /\ a + (i - a) = i
          BY <1>7, <1>9, <2>3
        <4> QED BY <1>10, <4>1
      <3> QED BY <1>10, <3>1, <3>2 DEF Range
    <2>6. found = SubSeq(kids, Min(at), Max(at)) /\ at # {}
      BY <1>7, <2>2, <2>4
    <2> QED BY <2>5, <2>6 DEF at, found, FindsAll
  <1> QED BY <1>11, <1>12 DEF FindsAll

--------------------------------------------------------------------------------
(* Sums and maxima.                                                            *)

\* S is where lengths laid end to end from 0 on end.
IsSum(S, n, longs) == S \in [0..n -> Int] /\ S[0] = 0 /\ \A i \in 1..n : S[i] = S[i - 1] + longs[i]

LEMMA SumsRun ==
    ASSUME NEW n \in Nat, NEW longs \in [1..n -> Int]
    PROVE  IsSum(Sums(longs), n, longs)
  <1> DEFINE G == [j \in 1..n |-> [x \in Int |-> x + longs[j]]]
             Loop(f) == f = [i \in 0..Len(longs) |-> IF i = 0 THEN 0 ELSE f[i - 1] + longs[i]]
             h == CHOOSE f : Loop(f)
  <1>1. Len(longs) = n
    OBVIOUS
  <1>2. PICK g : IsLoop(g, n, Int, 0, G)
    <2>1. G \in [1..n -> [Int -> Int]] /\ 0 \in Int
      OBVIOUS
    <2> HIDE DEF G
    <2>2. \E g : IsLoop(g, n, Int, 0, G)
      BY <2>1, LoopRuns
    <2> QED BY <2>2
  <1>3. IsSum(g, n, longs)
    <2>1. ASSUME NEW i \in 1..n PROVE g[i] = g[i - 1] + longs[i]
      <3>1. g[i - 1] \in Int
        BY <1>2 DEF IsLoop
      <3> QED BY <1>2, <3>1 DEF IsLoop
    <2> QED BY <1>2, <2>1 DEF IsLoop, IsSum
  <1>4. Loop(g)
    <2>1. \A i \in 0..n : g[i] = IF i = 0 THEN 0 ELSE g[i - 1] + longs[i]
      BY <1>3 DEF IsSum
    <2>2. g = [i \in 0..n |-> g[i]]
      BY <1>3 DEF IsSum
    <2> QED BY <1>1, <2>1, <2>2
  <1>5. \E f : Loop(f)
    <2> HIDE DEF Loop
    <2> QED BY <1>4, Zenon
  <1>6. Loop(h)
    <2> HIDE DEF Loop
    <2> QED BY <1>5, Zenon
  <1>7. Sums(longs) = h
    BY DEF Sums
  <1> HIDE DEF h
  <1>8. \A i \in 0..n : h[i] = IF i = 0 THEN 0 ELSE h[i - 1] + longs[i]
    BY <1>1, <1>6
  <1>9. \A i \in 0..n : h[i] = g[i]
    <2> DEFINE S == {i \in 0..n : h[i] = g[i]}
    <2>1. 0 \in S
      BY <1>3, <1>8 DEF IsSum
    <2>2. ASSUME NEW j \in 1..n, j - 1 \in S PROVE j \in S
      BY <1>3, <1>8, <2>2 DEF IsSum
    <2>3. \A j \in 0..n : j \in S
      <3> HIDE DEF S
      <3> QED BY <2>1, <2>2, Rounds
    <2> QED BY <2>3
  <1>10. h \in [0..n -> Int]
    BY <1>1, <1>3, <1>6, <1>9 DEF IsSum
  <1> HIDE DEF Loop, G
  <1>11. IsSum(h, n, longs)
    <2>1. h[0] = 0
      BY <1>8
    <2>2. ASSUME NEW i \in 1..n PROVE h[i] = h[i - 1] + longs[i]
      BY <1>8
    <2> QED BY <1>10, <2>1, <2>2 DEF IsSum
  <1> QED BY <1>7, <1>11

\* What was there first does not depend on what follows.
LEMMA SumOfPrefix ==
    ASSUME NEW n \in Nat, NEW m \in 0..n, NEW S, NEW T, NEW longs, NEW shorts,
           IsSum(S, n, longs), IsSum(T, m, shorts), \A i \in 1..m : shorts[i] = longs[i]
    PROVE  \A i \in 0..m : S[i] = T[i]
  <1> DEFINE Q == {i \in 0..m : S[i] = T[i]}
  <1>1. 0 \in Q
    BY DEF IsSum
  <1>2. ASSUME NEW j \in 1..m, j - 1 \in Q PROVE j \in Q
    BY <1>2 DEF IsSum
  <1>3. m \in Nat
    OBVIOUS
  <1> HIDE DEF Q
  <1>4. \A j \in 0..m : j \in Q
    BY <1>1, <1>2, <1>3, Rounds
  <1> QED BY <1>4 DEF Q

\* Along a row that never falls from one place to the next, no place is below an
\* earlier one.
LEMMA NeverFalls ==
    ASSUME NEW n \in Nat, NEW f \in [0..n -> Int], \A i \in 1..n : f[i - 1] <= f[i]
    PROVE  \A i, j \in 0..n : i <= j => f[i] <= f[j]
  <1> SUFFICES ASSUME NEW i \in 0..n PROVE \A j \in 0..n : i <= j => f[i] <= f[j]
    OBVIOUS
  <1> DEFINE Q == {j \in 0..n : i <= j => f[i] <= f[j]}
  <1>1. 0 \in Q
    OBVIOUS
  <1>2. ASSUME NEW j \in 1..n, j - 1 \in Q PROVE j \in Q
    <2>1. f[i] \in Int /\ f[j] \in Int /\ f[j - 1] \in Int /\ f[j - 1] <= f[j]
      OBVIOUS
    <2> QED BY <1>2, <2>1
  <1> HIDE DEF Q
  <1>3. \A j \in 0..n : j \in Q
    BY <1>1, <1>2, Rounds
  <1> QED BY <1>3 DEF Q

LEMMA SumsGrow ==
    ASSUME NEW n \in Nat, NEW S, NEW longs \in [1..n -> Nat], IsSum(S, n, longs)
    PROVE  /\ \A i \in 1..n : S[i - 1] <= S[i]
           /\ \A i \in 0..n : S[i] \in Nat
  <1>1. ASSUME NEW i \in 1..n PROVE S[i - 1] <= S[i]
    <2>1. S[i - 1] \in Int /\ longs[i] \in Nat /\ S[i] = S[i - 1] + longs[i]
      BY DEF IsSum
    <2> QED BY <2>1
  <1>2. S \in [0..n -> Int] /\ S[0] = 0
    BY DEF IsSum
  <1>3. \A i, j \in 0..n : i <= j => S[i] <= S[j]
    BY <1>1, <1>2, NeverFalls
  <1>4. ASSUME NEW i \in 0..n PROVE S[i] \in Nat
    <2>1. 0 \in 0..n /\ 0 <= i /\ S[i] \in Int
      BY <1>2
    <2>2. S[0] <= S[i]
      BY <1>3, <2>1
    <2> QED BY <1>2, <2>1, <2>2
  <1> QED BY <1>1, <1>4

\* The longest of a row of lengths, or 0.
IsLongest(m, n, f) ==
    /\ m \in Nat /\ \A i \in 1..n : f[i] <= m
    /\ m = 0 \/ \E i \in 1..n : m = f[i]

LEMMA MaxOfRow ==
    ASSUME NEW n \in Nat, NEW f \in [1..n -> Nat]
    PROVE  IsLongest(Max({0} \cup {f[i] : i \in 1..n}), n, f)
  <1> DEFINE M(k) == {0} \cup {f[i] : i \in 1..k}
             Q == {k \in 0..n : \E m \in M(k) : \A x \in M(k) : x <= m}
  <1>1. 0 \in Q
    <2>1. M(0) = {0}
      OBVIOUS
    <2> QED BY <2>1
  <1>2. ASSUME NEW k \in 1..n, k - 1 \in Q PROVE k \in Q
    <2>1. M(k) = M(k - 1) \cup {f[k]}
      OBVIOUS
    <2>2. PICK m \in M(k - 1) : \A x \in M(k - 1) : x <= m
      BY <1>2
    <2>3. M(k - 1) \subseteq Nat /\ f[k] \in Nat
      OBVIOUS
    <2> HIDE DEF M
    <2>4. \E y \in M(k) : \A x \in M(k) : x <= y
      <3>1. CASE f[k] <= m
        BY <2>1, <2>2, <2>3, <3>1
      <3>2. CASE ~(f[k] <= m)
        <4>1. \A x \in M(k) : x <= f[k]
          BY <2>1, <2>2, <2>3, <3>2
        <4> QED BY <2>1, <4>1
      <3> QED BY <3>1, <3>2
    <2> QED BY <2>4
  <1>3. n \in Q
    <2> HIDE DEF Q
    <2>1. \A k \in 0..n : k \in Q
      BY <1>1, <1>2, Rounds
    <2> QED BY <2>1
  <1>4. M(n) \subseteq Nat
    OBVIOUS
  <1>5. PICK m \in M(n) : \A x \in M(n) : x <= m
    BY <1>3
  <1>6. \A i \in 1..n : f[i] \in M(n)
    OBVIOUS
  <1>7. m = 0 \/ \E i \in 1..n : m = f[i]
    OBVIOUS
  <1> HIDE DEF M, Q
  <1>8. Max(M(n)) = m
    BY <1>4, <1>5, MaxIs
  <1>9. m \in Nat /\ \A i \in 1..n : f[i] <= m
    BY <1>4, <1>5, <1>6
  <1> QED BY <1>7, <1>8, <1>9 DEF M, IsLongest

--------------------------------------------------------------------------------
(* Lists one after the other, place by place.                                *)

\* u is s and then t.
IsJoin(u, s, t, T) ==
    /\ u \in Seq(T) /\ Len(u) = Len(s) + Len(t)
    /\ \A i \in 1..Len(s) : u[i] = s[i]
    /\ \A i \in 1..Len(t) : u[Len(s) + i] = t[i]

LEMMA JoinIs == ASSUME NEW T, NEW s \in Seq(T), NEW t \in Seq(T) PROVE IsJoin(s \o t, s, t, T)
  BY DEF IsJoin

\* u is what of s comes after the first a elements, up to place b.
IsPart(u, s, a, b, T) ==
    /\ u \in Seq(T) /\ Len(u) = b - a
    /\ \A i \in 1..(b - a) : a + i \in 1..Len(s) /\ u[i] = s[a + i]

LEMMA PartIs ==
    ASSUME NEW T, NEW s \in Seq(T), NEW a \in 0..Len(s), NEW b \in 0..Len(s), a <= b
    PROVE  IsPart(SubSeq(s, a + 1, b), s, a, b, T)
  BY DEF IsPart

\* Three lists one after the other.
InARow(u, a, m, b, T) ==
    /\ u \in Seq(T) /\ Len(u) = Len(a) + Len(m) + Len(b)
    /\ \A j \in 1..Len(a) : u[j] = a[j]
    /\ \A j \in 1..Len(m) : u[Len(a) + j] = m[j]
    /\ \A j \in 1..Len(b) : u[Len(a) + Len(m) + j] = b[j]

LEMMA ThreeParts ==
    ASSUME NEW T, NEW a \in Seq(T), NEW m \in Seq(T), NEW b \in Seq(T)
    PROVE  InARow(a \o m \o b, a, m, b, T) /\ a \o m \o b \in Seq(T)
  <1> DEFINE am == a \o m
             u == am \o b
  <1>1. IsJoin(am, a, m, T)
    BY JoinIs
  <1> HIDE DEF am
  <1>2. IsJoin(u, am, b, T)
    <2>1. am \in Seq(T)
      BY <1>1 DEF IsJoin
    <2> QED BY <2>1, JoinIs
  <1>3. a \o m \o b = u
    BY DEF am
  <1> HIDE DEF u
  <1>4. Len(a) \in Nat /\ Len(m) \in Nat /\ Len(am) = Len(a) + Len(m)
    BY <1>1 DEF IsJoin
  <1>5. \A j \in 1..Len(a) : j \in 1..Len(am)
    BY <1>4
  <1>6. \A j \in 1..Len(m) : Len(a) + j \in 1..Len(am)
    BY <1>4
  <1>7. \A j \in 1..Len(a) : u[j] = a[j]
    BY <1>1, <1>2, <1>5, Zenon DEF IsJoin
  <1>8. \A j \in 1..Len(m) : u[Len(a) + j] = m[j]
    BY <1>1, <1>2, <1>6, Zenon DEF IsJoin
  <1>9. /\ u \in Seq(T) /\ Len(u) = Len(a) + Len(m) + Len(b)
        /\ \A j \in 1..Len(b) : u[Len(a) + Len(m) + j] = b[j]
    BY <1>4, <1>2, Zenon DEF IsJoin
  <1> QED BY <1>3, <1>7, <1>8, <1>9, Zenon DEF InARow

--------------------------------------------------------------------------------
(* What is filtered from a list.                                               *)

\* A function that starts and goes on as a loop does is that loop.
LEMMA LoopIs ==
    ASSUME NEW n \in Nat, NEW A, NEW a \in A, NEW G \in [1..n -> [A -> A]], NEW h,
           h = [i \in 0..n |-> h[i]], h[0] = a,
           \A i \in 1..n : h[i - 1] \in A => h[i] = G[i][h[i - 1]]
    PROVE  IsLoop(h, n, A, a, G)
  <1> DEFINE S == {i \in 0..n : h[i] \in A}
  <1>1. 0 \in S
    OBVIOUS
  <1>2. ASSUME NEW j \in 1..n, j - 1 \in S PROVE j \in S
    <2>1. h[j] = G[j][h[j - 1]] /\ h[j - 1] \in A
      BY <1>2
    <2> QED BY <2>1
  <1>3. \A j \in 0..n : j \in S
    <2> HIDE DEF S
    <2> QED BY <1>1, <1>2, Rounds
  <1>4. h \in [0..n -> A]
    BY <1>3
  <1>5. ASSUME NEW j \in 1..n PROVE h[j] = G[j][h[j - 1]]
    <2>1. j - 1 \in 0..n
      OBVIOUS
    <2>2. h[j - 1] \in A
      BY <1>4, <2>1
    <2> QED BY <2>2
  <1> QED BY <1>4, <1>5 DEF IsLoop

\* h[j] is what the first j elements of s have of S.
IsFilter(h, s, S, T) ==
    /\ h \in [0..Len(s) -> Seq(T \cap S)] /\ h[0] = <<>>
    /\ \A j \in 1..Len(s) : h[j] = IF s[j] \in S THEN Append(h[j - 1], s[j]) ELSE h[j - 1]

LEMMA OnlyRuns ==
    ASSUME NEW T, NEW s \in Seq(T), NEW S
    PROVE  \E h : IsFilter(h, s, S, T) /\ Only(s, S) = h[Len(s)]
  <1> DEFINE n == Len(s)
             A == Seq(T \cap S)
             G == [j \in 1..n |-> [x \in A |-> IF s[j] \in S THEN Append(x, s[j]) ELSE x]]
             Loop(f) == f = [j \in 0..Len(s) |->
                                IF j = 0 THEN <<>>
                                ELSE IF s[j] \in S THEN Append(f[j - 1], s[j]) ELSE f[j - 1]]
             h == CHOOSE f : Loop(f)
  <1>1. n \in Nat /\ <<>> \in A /\ \A j \in 1..n : s[j] \in T
    OBVIOUS
  <1>2. G \in [1..n -> [A -> A]]
    BY <1>1
  <1>3. PICK g : IsLoop(g, n, A, <<>>, G)
    <2> HIDE DEF G, A
    <2>1. \E g : IsLoop(g, n, A, <<>>, G)
      BY <1>1, <1>2, LoopRuns
    <2> QED BY <2>1
  <1>4. Loop(g)
    <2>1. ASSUME NEW j \in 1..n
          PROVE  g[j] = IF s[j] \in S THEN Append(g[j - 1], s[j]) ELSE g[j - 1]
      <3>1. g[j - 1] \in A /\ g[j] = G[j][g[j - 1]]
        <4> HIDE DEF G, A
        <4>1. j - 1 \in 0..n
          BY <1>1
        <4> QED BY <1>3, <4>1, Zenon DEF IsLoop
      <3>2. g[j - 1] \in A
        BY <3>1
      <3> QED BY <3>1, <3>2
    <2>2. g = [j \in 0..n |-> g[j]] /\ g[0] = <<>>
      BY <1>3 DEF IsLoop
    <2>3. \A j \in 0..n : j = 0 \/ j \in 1..n
      BY <1>1
    <2> QED BY <2>1, <2>2, <2>3
  <1>5. Loop(h)
    <2> HIDE DEF Loop
    <2>1. \E f : Loop(f)
      BY <1>4, Zenon
    <2> QED BY <2>1, Zenon
  <1>6. Only(s, S) = h[n]
    BY DEF Only
  <1> HIDE DEF h
  <1>7. /\ h = [j \in 0..n |-> h[j]] /\ h[0] = <<>>
        /\ \A j \in 1..n : h[j] = IF s[j] \in S THEN Append(h[j - 1], s[j]) ELSE h[j - 1]
    <2>1. h = [j \in 0..n |-> IF j = 0 THEN <<>>
                             ELSE IF s[j] \in S THEN Append(h[j - 1], s[j]) ELSE h[j - 1]]
      BY <1>5, Zenon
    <2>2. 0 \in 0..n /\ \A j \in 1..n : j \in 0..n /\ j # 0
      BY <1>1
    <2> HIDE DEF n
    <2> QED BY <2>1, <2>2
  <1>8. IsLoop(h, n, A, <<>>, G)
    <2>1. ASSUME NEW j \in 1..n, h[j - 1] \in A PROVE h[j] = G[j][h[j - 1]]
      BY <1>7, <2>1
    <2> HIDE DEF G, A, Loop, n
    <2> QED BY <1>1, <1>2, <1>7, <2>1, LoopIs
  <1>9. n \in 0..n /\ h[n] \in A
    BY <1>1, <1>8 DEF IsLoop
  <1>10. IsFilter(h, s, S, T)
    <2>1. h \in [0..n -> A] /\ h[0] = <<>>
      BY <1>8 DEF IsLoop
    <2> QED BY <1>7, <2>1 DEF IsFilter
  <1> HIDE DEF Loop, G, A
  <1> QED BY <1>6, <1>10, Zenon

--------------------------------------------------------------------------------
(* Lists of lists, one after the other.                                        *)

\* f[i] is the first i of the lists s, one after the other.
Joins(f, s, T) ==
    f \in [0..Len(s) -> Seq(T)] /\ f[0] = <<>> /\ \A i \in 1..Len(s) : f[i] = f[i - 1] \o s[i]

LEMMA JoinsRun ==
    ASSUME NEW T, NEW s \in Seq(Seq(T))
    PROVE  \E f : Joins(f, s, T)
  <1> DEFINE n == Len(s)
             A == Seq(T)
             G == [j \in 1..n |-> [x \in A |-> x \o s[j]]]
  <1>1. n \in Nat /\ <<>> \in A /\ \A j \in 1..n : s[j] \in A
    OBVIOUS
  <1>2. G \in [1..n -> [A -> A]]
    BY <1>1
  <1> HIDE DEF G, n, A
  <1>3. PICK f : IsLoop(f, n, A, <<>>, G)
    <2>1. \E f : IsLoop(f, n, A, <<>>, G)
      BY <1>1, <1>2, LoopRuns
    <2> QED BY <2>1
  <1>4. ASSUME NEW j \in 1..n PROVE f[j] = f[j - 1] \o s[j]
    <2>1. j - 1 \in 0..n
      BY <1>1
    <2>2. f[j] = G[j][f[j - 1]] /\ f[j - 1] \in A
      BY <1>3, <2>1, Zenon DEF IsLoop
    <2> QED BY <2>2 DEF G
  <1>5. f \in [0..n -> A] /\ f[0] = <<>>
    BY <1>3 DEF IsLoop
  <1>6. Joins(f, s, T)
    BY <1>4, <1>5, Zenon DEF Joins, n, A
  <1> QED BY <1>6, Zenon

LEMMA FlattenedAtEnd ==
    ASSUME NEW T, NEW s \in Seq(Seq(T)), NEW f, Joins(f, s, T)
    PROVE  FlattenSeq(s) = f[Len(s)] /\ FlattenSeq(s) \in Seq(T)
  <1> DEFINE n == Len(s)
             Loop(g) == g = [i \in 1..Len(s) |-> IF i = 1 THEN s[i] ELSE g[i - 1] \o s[i]]
             h == CHOOSE g : Loop(g)
  <1>1. n \in Nat /\ \A i \in 1..n : s[i] \in Seq(T)
    OBVIOUS
  <1>2. f \in [0..n -> Seq(T)] /\ f[0] = <<>> /\ f[n] \in Seq(T)
    BY <1>1 DEF Joins
  <1>3. FlattenSeq(s) = IF n = 0 THEN s ELSE h[n]
    BY <1>1 DEF FlattenSeq
  <1>4. ASSUME n = 0 PROVE FlattenSeq(s) = f[n]
    <2>1. s = <<>>
      BY <1>4
    <2> QED BY <1>2, <1>3, <1>4, <2>1
  <1>5. ASSUME n # 0 PROVE h[n] = f[n]
    <2> DEFINE g == [i \in 1..n |-> f[i]]
    <2>1. Loop(g)
      <3>1. ASSUME NEW i \in 1..n PROVE f[i] = IF i = 1 THEN s[i] ELSE g[i - 1] \o s[i]
        <4>1. f[i] = f[i - 1] \o s[i]
          BY Zenon DEF Joins
        <4>2. CASE i = 1
          <5>1. <<>> \o s[i] = s[i]
            BY <1>1, ConcatEmptySeq, Zenon
          <5>2. i - 1 = 0
            BY <4>2
          <5> QED BY <1>2, <4>1, <4>2, <5>1, <5>2, Zenon
        <4>3. CASE i # 1
          <5>1. i - 1 \in 1..n
            BY <1>1, <4>3
          <5>2. g[i - 1] = f[i - 1]
            BY <5>1
          <5> QED BY <1>1, <4>1, <4>3, <5>2, Zenon
        <4> QED BY <4>2, <4>3
      <3>2. \A i \in 1..n : g[i] = IF i = 1 THEN s[i] ELSE g[i - 1] \o s[i]
        BY <3>1
      <3>3. g = [i \in 1..n |-> g[i]]
        OBVIOUS
      <3> HIDE DEF g, n
      <3>4. g = [i \in 1..n |-> IF i = 1 THEN s[i] ELSE g[i - 1] \o s[i]]
        BY <3>2, <3>3
      <3> QED BY <3>4, Zenon DEF n
    <2>2. Loop(h)
      <3> HIDE DEF Loop
      <3>1. \E x : Loop(x)
        BY <2>1, Zenon
      <3> QED BY <3>1, Zenon
    <2> HIDE DEF h
    <2>3. h = [i \in 1..n |-> IF i = 1 THEN s[i] ELSE h[i - 1] \o s[i]]
      BY <1>1, <2>2, Zenon
    <2>4. ASSUME NEW i \in 1..n PROVE h[i] = IF i = 1 THEN s[i] ELSE h[i - 1] \o s[i]
      <3> HIDE DEF n
      <3> QED BY <2>3
    <2>5. ASSUME NEW i \in 1..n PROVE f[i] = IF i = 1 THEN s[i] ELSE f[i - 1] \o s[i]
      <3>1. f[i] = g[i]
        OBVIOUS
      <3>2. g[i] = IF i = 1 THEN s[i] ELSE g[i - 1] \o s[i]
        <4> HIDE DEF g
        <4> QED BY <1>1, <2>1
      <3>3. i # 1 => i - 1 \in 1..n
        BY <1>1
      <3>4. i # 1 => g[i - 1] = f[i - 1]
        BY <3>3
      <3> QED BY <3>1, <3>2, <3>4, Zenon
    <2> DEFINE Q == {i \in 0..n : i = 0 \/ h[i] = f[i]}
    <2>6. 0 \in Q
      BY <1>1
    <2>7. ASSUME NEW j \in 1..n, j - 1 \in Q PROVE j \in Q
      <3>1. j - 1 = 0 \/ h[j - 1] = f[j - 1]
        BY <2>7
      <3>2. j = 1 \/ h[j - 1] = f[j - 1]
        BY <3>1
      <3>3. h[j] = f[j]
        <4> HIDE DEF n, g, Q, Loop
        <4>1. h[j] = IF j = 1 THEN s[j] ELSE h[j - 1] \o s[j]
          BY <2>4
        <4>2. f[j] = IF j = 1 THEN s[j] ELSE f[j - 1] \o s[j]
          BY <2>5
        <4>3. CASE j = 1
          BY <4>1, <4>2, <4>3
        <4>4. CASE j # 1
          BY <3>2, <4>1, <4>2, <4>4, Zenon
        <4> QED BY <4>3, <4>4
      <3> QED BY <3>3
    <2>8. \A j \in 0..n : j \in Q
      <3> HIDE DEF Q, n, Loop, g
      <3> QED BY <1>1, <2>6, <2>7, Rounds
    <2>9. n \in 0..n
      BY <1>1
    <2> HIDE DEF n, Loop, g
    <2> QED BY <1>5, <2>8, <2>9
  <1> HIDE DEF h
  <1> QED BY <1>2, <1>3, <1>4, <1>5

================================================================================
