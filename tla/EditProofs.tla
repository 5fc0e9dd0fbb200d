------------------------------- MODULE EditProofs ------------------------------
(* The edits of a track, for tracks of any length, any media and any times:    *)
(* every edit leaves a track of the shape it found, and changes what plays     *)
(* where it says, and nowhere else.  A track is taken apart into what is       *)
(* before the place that is edited, the child there, and what is after it; the *)
(* frames it plays are those of the parts, one after the other.                *)
EXTENDS EditAlgorithm, ListLemmas

--------------------------------------------------------------------------------
(* Children.                                                                   *)

Span == [start : Int, dur : Int]

LEMMA ChildIs ==
    ASSUME NEW c \in Children
    PROVE  /\ IsItem(c) <=> c \in ItemRecords
           /\ IsItem(c) => c.range \in Span /\ c.range.start \in Int /\ c.range.dur \in Int
                           /\ Duration(c) = c.range.dur /\ Long(c) = c.range.dur
                           /\ c.kind \in {"clip", "gap", "item"} /\ c.media \in Clips \cup {NULL}
           /\ ~IsItem(c) => c.in \in Nat /\ c.out \in Nat /\ Duration(c) = c.in + c.out
                            /\ Long(c) = 0
           /\ Duration(c) \in Int /\ Long(c) \in Int
  BY DEF Children, ItemRecords, ItemsOf, IsItem, Duration, Long, Span

LEMMA ItemsAreChildren == ItemRecords \subseteq Children
  BY DEF Children

\* An item that shows something else.
LEMMA ShowsIs ==
    ASSUME NEW c \in ItemRecords, NEW start \in Int, NEW dur \in Int
    PROVE  /\ Shows(c, start, dur) \in ItemRecords
           /\ Shows(c, start, dur).range = TimeRange(start, dur)
           /\ Shows(c, start, dur).kind = c.kind /\ Shows(c, start, dur).media = c.media
           /\ [c EXCEPT !.range = TimeRange(start, dur)] = Shows(c, start, dur)
  <1>1. TimeRange(start, dur) \in [start : Int, dur : Int]
    BY DEF TimeRange
  <1>2. Shows(c, start, dur) = [c EXCEPT !.range = TimeRange(start, dur)]
    BY DEF Shows
  <1>3. CASE c \in ItemsOf({"clip"}, Clips)
    BY <1>1, <1>2, <1>3 DEF ItemRecords, ItemsOf
  <1>4. CASE c \in ItemsOf({"gap", "item"}, {NULL})
    BY <1>1, <1>2, <1>4 DEF ItemRecords, ItemsOf
  <1> QED BY <1>3, <1>4 DEF ItemRecords

LEMMA RangeIs ==
    ASSUME NEW r \in Span
    PROVE  r = TimeRange(r.start, r.dur) /\ r.start \in Int /\ r.dur \in Int
  BY DEF Span, TimeRange

\* What is available of the media of a child.
LEMMA AvailableIs ==
    ASSUME NEW c \in Children, IsItem(c)
    PROVE  /\ AvailableRange(c) \in Span
           /\ AvailableRange(c).start \in Int /\ AvailableRange(c).dur \in Nat
  <1>1. c \in ItemRecords
    BY ChildIs
  <1>2. CASE c.kind = "clip"
    <2>1. c.media \in Clips
      BY <1>1, <1>2 DEF ItemRecords, ItemsOf
    <2> QED BY <1>2, <2>1, EditAssumption DEF AvailableRange, Span
  <1>3. CASE c.kind # "clip"
    BY <1>3 DEF AvailableRange, Span, TimeRange
  <1> QED BY <1>2, <1>3

LEMMA GapIs ==
    ASSUME NEW r \in Span
    PROVE  Gap(r) \in ItemRecords /\ Gap(r).range = r /\ Gap(r).kind = "gap"
  BY DEF Gap, ItemRecords, ItemsOf, Span

LEMMA TemplateIs ==
    ASSUME NEW c \in Templates
    PROVE  /\ c \in ItemRecords /\ c.range \in Sources /\ c.range.dur \in Nat \ {0}
           /\ c.range.start \in Int /\ ~c.warped
  <1>1. PICK r \in Sources : c = Gap(r) \/ \E m \in Clips : c = Clip(m, r)
    BY DEF Templates
  <1>2. r \in [start : Int, dur : Int] /\ r.dur \in Nat \ {0} /\ r.start \in Int
    BY EditAssumption
  <1>3. CASE c = Gap(r)
    BY <1>2, <1>3 DEF Gap, ItemRecords, ItemsOf
  <1>4. ASSUME NEW m \in Clips, c = Clip(m, r)
        PROVE  /\ c \in ItemsOf({"clip"}, Clips) /\ c.range = r /\ c.warped = FALSE
    BY <1>2, <1>4 DEF Clip, ItemsOf
  <1> QED BY <1>1, <1>2, <1>3, <1>4 DEF ItemRecords

LEMMA FillerIs ==
    ASSUME NEW template \in Fillers, NEW n \in Int
    PROVE  Filler(template, n) \in ItemRecords /\ Filler(template, n) \in Children
  <1>1. CASE template = NULL
    <2>1. TimeRange(0, n) \in Span
      BY DEF TimeRange, Span
    <2> QED BY <1>1, <2>1, GapIs, ItemsAreChildren DEF Filler
  <1>2. CASE template # NULL
    <2>1. PICK r \in Sources : template = Gap(r)
      BY <1>2 DEF Fillers
    <2>2. r \in Span
      BY EditAssumption DEF Span
    <2> QED BY <1>2, <2>1, <2>2, GapIs, ItemsAreChildren DEF Filler
  <1> QED BY <1>1, <1>2
--------------------------------------------------------------------------------
(* Where children are.                                                         *)

LEMMA LaidIs ==
    ASSUME NEW k \in Seq(Children)
    PROVE  /\ IsSum(Laid(k), Len(k), [i \in 1..Len(k) |-> Long(k[i])])
           /\ Laid(k) \in [0..Len(k) -> Int] /\ Laid(k)[0] = 0
           /\ \A i \in 1..Len(k) : Laid(k)[i] = Laid(k)[i - 1] + Long(k[i])
  <1> DEFINE n == Len(k)
             longs == [i \in 1..n |-> Long(k[i])]
  <1>1. n \in Nat /\ DOMAIN k = 1..n /\ \A i \in 1..n : k[i] \in Children
    OBVIOUS
  <1>2. longs \in [1..n -> Int]
    BY <1>1, ChildIs
  <1>3. IsSum(Sums(longs), n, longs)
    <2> HIDE DEF longs, n
    <2> QED BY <1>1, <1>2, SumsRun
  <1>4. Laid(k) = Sums(longs)
    BY <1>1 DEF Laid
  <1> HIDE DEF n
  <1> QED BY <1>3, <1>4 DEF IsSum, n

LEMMA PlaceIs ==
    ASSUME NEW k \in Seq(Children)
    PROVE  /\ DOMAIN Places(k) = 1..Len(k) /\ Places(k) \in [1..Len(k) -> Span]
           /\ \A i \in 1..Len(k) :
                  /\ Places(k)[i].start \in Int /\ Places(k)[i].dur \in Int
                  /\ Places(k)[i].dur = Duration(k[i])
                  /\ IsItem(k[i]) => Places(k)[i].start = Laid(k)[i - 1]
  <1>1. DOMAIN k = 1..Len(k) /\ Len(k) \in Nat /\ \A i \in 1..Len(k) : k[i] \in Children
    OBVIOUS
  <1>2. ASSUME NEW i \in 1..Len(k)
        PROVE  /\ Places(k)[i] \in Span
               /\ Places(k)[i].dur = Duration(k[i])
               /\ IsItem(k[i]) => Places(k)[i].start = Laid(k)[i - 1]
    <2>1. Laid(k)[i - 1] \in Int
      <3>1. i - 1 \in 0..Len(k)
        BY <1>1
      <3> QED BY <3>1, LaidIs
    <2>2. Places(k)[i] = TimeRange(Laid(k)[i - 1] - IF IsItem(k[i]) THEN 0 ELSE k[i].in, Duration(k[i]))
      BY <1>1 DEF Places
    <2>3. Duration(k[i]) \in Int /\ (~IsItem(k[i]) => k[i].in \in Nat)
      BY <1>1, ChildIs
    <2> QED BY <2>1, <2>2, <2>3 DEF TimeRange, Span
  <1>3. DOMAIN Places(k) = 1..Len(k)
    BY <1>1 DEF Places
  <1>4. Places(k) = [i \in 1..Len(k) |-> Places(k)[i]]
    BY <1>1 DEF Places
  <1>5. \A i \in 1..Len(k) : Places(k)[i].start \in Int /\ Places(k)[i].dur \in Int
    BY <1>2 DEF Span
  <1>6. Places(k) \in [1..Len(k) -> Span]
    BY <1>2, <1>4
  <1> QED BY <1>2, <1>3, <1>5, <1>6

LEMMA EndIs ==
    ASSUME NEW k \in Seq(Children)
    PROVE  /\ EndOf(k) \in Int
           /\ OnlyItems(k) => EndOf(k) = Laid(k)[Len(k)]
  <1>1. CASE k = <<>>
    <2>1. Len(k) = 0 /\ Laid(k)[0] = 0
      BY <1>1, LaidIs
    <2> QED BY <1>1, <2>1 DEF EndOf
  <1>2. CASE k # <<>>
    <2>1. /\ Len(k) \in Nat \ {0} /\ DOMAIN k = 1..Len(k) /\ Head(k) = k[1] /\ Last(k) = k[Len(k)]
          /\ 1 \in DOMAIN k /\ Len(k) \in DOMAIN k /\ Head(k) \in Children /\ Last(k) \in Children
      BY <1>2 DEF Last
    <2>2. Laid(k)[Len(k)] \in Int
      <3>1. Len(k) \in 0..Len(k)
        BY <2>1
      <3> QED BY <3>1, LaidIs
    <2>3. EndOf(k) = Laid(k)[Len(k)] + (IF Head(k).kind = "transition" THEN Head(k).in ELSE 0)
                                     + (IF Last(k).kind = "transition" THEN Last(k).out ELSE 0)
      BY <1>2 DEF EndOf
    <2>4. /\ (IF Head(k).kind = "transition" THEN Head(k).in ELSE 0) \in Int
          /\ (IF Last(k).kind = "transition" THEN Last(k).out ELSE 0) \in Int
      BY <2>1, ChildIs DEF IsItem
    <2>5. OnlyItems(k) => Head(k).kind # "transition" /\ Last(k).kind # "transition"
      BY <2>1 DEF OnlyItems, Items, IsItem
    <2> QED BY <2>2, <2>3, <2>4, <2>5
  <1> QED BY <1>1, <1>2

\* Children are told apart by their places.
LEMMA IndicesAre ==
    ASSUME NEW k, NEW n \in Nat, Len(k) = n, DOMAIN k = 1..n
    PROVE  /\ Indices(k) \in Seq(1..n) /\ Len(Indices(k)) = n /\ DOMAIN Indices(k) = 1..n
           /\ \A i \in 1..n : Indices(k)[i] = i
           /\ IsList(Indices(k))
  <1>1. /\ Indices(k) \in Seq(1..n) /\ Len(Indices(k)) = n /\ DOMAIN Indices(k) = 1..n
        /\ \A i \in 1..n : Indices(k)[i] = i
    BY DEF Indices
  <1> QED BY <1>1, ListOfItsOwn

LEMMA PlacesMapped ==
    ASSUME NEW k \in Seq(Children)
    PROVE  LookedUp(Indices(k), Places(k), Places(k)) /\ Len(Indices(k)) = Len(k)
  <1>1. Len(k) \in Nat /\ DOMAIN k = 1..Len(k)
    OBVIOUS
  <1>2. /\ Len(Indices(k)) = Len(k) /\ IsList(Indices(k))
        /\ \A i \in 1..Len(k) : Indices(k)[i] = i
    BY <1>1, IndicesAre
  <1>3. Places(k) \in [1..Len(k) -> [start : Int, dur : Int]]
    BY PlaceIs DEF Span
  <1> QED BY <1>2, <1>3 DEF LookedUp

LEMMA ChildAtIs ==
    ASSUME NEW k \in Seq(Children), NEW t \in Int, NEW i, i = ChildAt(k, t), i # 0
    PROVE  /\ i \in DOMAIN k /\ i \in 1..Len(k) /\ k[i] \in Children
           /\ ContainsTime(Places(k)[i], t)
  <1>1. FindsFirst(Indices(k), Places(k), Places(k), t, 0)
    BY PlacesMapped, FirstAtFinds
  <1>2. Len(Indices(k)) = Len(k) /\ \A j \in 1..Len(k) : Indices(k)[j] = j
    BY IndicesAre, PlacesMapped
  <1>3. \/ ChildAt(k, t) = 0
        \/ \E j \in 1..Len(Indices(k)) :
               ChildAt(k, t) = Indices(k)[j] /\ ContainsTime(Places(k)[j], t)
    BY <1>1 DEF FindsFirst, ChildAt
  <1>4. i \in 1..Len(k) /\ ContainsTime(Places(k)[i], t)
    BY <1>2, <1>3
  <1> QED BY <1>4
--------------------------------------------------------------------------------
(* Lists.                                                                      *)

LEMMA SameList ==
    ASSUME NEW T, NEW s \in Seq(T), NEW t \in Seq(T), Len(s) = Len(t),
           \A i \in 1..Len(s) : s[i] = t[i]
    PROVE  s = t
  <1>1. s = [i \in 1..Len(s) |-> s[i]] /\ t = [i \in 1..Len(t) |-> t[i]]
    OBVIOUS
  <1> QED BY <1>1

LEMMA OneIs ==
    ASSUME NEW T, NEW x \in T
    PROVE  <<x>> \in Seq(T) /\ Len(<<x>>) = 1 /\ <<x>>[1] = x
  OBVIOUS

\* Whatever is a list and its continuation is the two lists one after the other.
LEMMA JoinOnce ==
    ASSUME NEW T, NEW s \in Seq(T), NEW t \in Seq(T), NEW u, IsJoin(u, s, t, T)
    PROVE  u = s \o t
  <1> DEFINE v == s \o t
  <1>1. IsJoin(v, s, t, T)
    BY JoinIs
  <1> HIDE DEF v
  <1>2. /\ u \in Seq(T) /\ v \in Seq(T) /\ Len(u) = Len(s) + Len(t) /\ Len(v) = Len(s) + Len(t)
        /\ Len(s) \in Nat /\ Len(t) \in Nat
    BY <1>1 DEF IsJoin
  <1>3. ASSUME NEW i \in 1..Len(u) PROVE u[i] = v[i]
    <2>1. CASE i <= Len(s)
      <3>1. i \in 1..Len(s)
        BY <1>2, <2>1
      <3> QED BY <1>1, <3>1, Zenon DEF IsJoin
    <2>2. CASE i > Len(s)
      <3>1. i - Len(s) \in 1..Len(t) /\ Len(s) + (i - Len(s)) = i
        BY <1>2, <2>2
      <3>2. u[Len(s) + (i - Len(s))] = t[i - Len(s)] /\ v[Len(s) + (i - Len(s))] = t[i - Len(s)]
        BY <1>1, <3>1, Zenon DEF IsJoin
      <3> QED BY <3>1, <3>2, Zenon
    <2> QED BY <1>2, <2>1, <2>2
  <1>4. u = v
    BY <1>2, <1>3, SameList
  <1> QED BY <1>4 DEF v

\* A list is what is before a place, what is there, and what is after it.
Ahead(s, i) == SubSeq(s, 1, i - 1)
Behind(s, i) == SubSeq(s, i + 1, Len(s))

LEMMA SidesAre ==
    ASSUME NEW T, NEW s \in Seq(T), NEW i \in 1..Len(s)
    PROVE  /\ IsPart(Ahead(s, i), s, 0, i - 1, T) /\ IsPart(Behind(s, i), s, i, Len(s), T)
           /\ Ahead(s, i) \in Seq(T) /\ Behind(s, i) \in Seq(T)
           /\ Len(Ahead(s, i)) = i - 1 /\ Len(Behind(s, i)) = Len(s) - i
           /\ i - 1 \in Nat /\ Len(s) - i \in Nat /\ s[i] \in T
  <1>1. /\ i - 1 \in 0..Len(s) /\ i \in 0..Len(s) /\ Len(s) \in 0..Len(s) /\ 0 \in 0..Len(s)
        /\ i - 1 \in Nat /\ Len(s) - i \in Nat /\ 0 <= i - 1 /\ i <= Len(s)
        /\ 0 + 1 = 1 /\ s[i] \in T
    OBVIOUS
  <1>2. IsPart(SubSeq(s, 0 + 1, i - 1), s, 0, i - 1, T)
    BY <1>1, PartIs, Zenon
  <1>3. IsPart(Behind(s, i), s, i, Len(s), T)
    BY <1>1, PartIs, Zenon DEF Behind
  <1>4. SubSeq(s, 0 + 1, i - 1) = Ahead(s, i)
    BY <1>1 DEF Ahead
  <1>5. IsPart(Ahead(s, i), s, 0, i - 1, T)
    BY <1>2, <1>4, Zenon
  <1>6. (i - 1) - 0 = i - 1
    OBVIOUS
  <1>7. /\ Ahead(s, i) \in Seq(T) /\ Behind(s, i) \in Seq(T)
        /\ Len(Ahead(s, i)) = i - 1 /\ Len(Behind(s, i)) = Len(s) - i
    BY <1>3, <1>5, <1>6, Zenon DEF IsPart
  <1> QED BY <1>1, <1>3, <1>5, <1>7, Zenon

\* s with x at place i.
IsExchange(u, s, i, x, T) ==
    /\ u \in Seq(T) /\ Len(u) = Len(s)
    /\ u[i] = x /\ \A j \in 1..Len(s) : j # i => u[j] = s[j]

LEMMA ExchangeIs ==
    ASSUME NEW T, NEW s \in Seq(T), NEW i \in 1..Len(s), NEW x \in T
    PROVE  IsExchange([s EXCEPT ![i] = x], s, i, x, T)
  BY DEF IsExchange

LEMMA Exchanged ==
    ASSUME NEW T, NEW s \in Seq(T), NEW i \in 1..Len(s), NEW x \in T, NEW t,
           IsExchange(t, s, i, x, T)
    PROVE  t = Ahead(s, i) \o <<x>> \o Behind(s, i)
  <1> DEFINE a == Ahead(s, i)
             b == Behind(s, i)
             m == <<x>>
             u == a \o m \o b
  <1>1. /\ t \in Seq(T) /\ Len(t) = Len(s) /\ Len(s) \in Nat
        /\ \A j \in 1..Len(s) : t[j] = IF j = i THEN x ELSE s[j]
    BY DEF IsExchange
  <1>2. m \in Seq(T) /\ Len(m) = 1 /\ m[1] = x
    BY OneIs
  <1>3. /\ IsPart(a, s, 0, i - 1, T) /\ IsPart(b, s, i, Len(s), T)
        /\ a \in Seq(T) /\ b \in Seq(T) /\ Len(a) = i - 1 /\ Len(b) = Len(s) - i
    BY SidesAre
  <1> HIDE DEF a, b, m
  <1>4. InARow(u, a, m, b, T)
    BY <1>2, <1>3, ThreeParts
  <1> HIDE DEF u
  <1>5. Len(u) = Len(s) /\ u \in Seq(T)
    BY <1>1, <1>2, <1>3, <1>4 DEF InARow
  <1>6. ASSUME NEW j \in 1..Len(s) PROVE u[j] = t[j]
    <2>1. CASE j < i
      <3>1. j \in 1..((i - 1) - 0) /\ j \in 1..Len(a) /\ 0 + j = j /\ j # i
        BY <1>3, <2>1
      <3>2. u[j] = a[j] /\ a[j] = s[j]
        BY <1>3, <1>4, <3>1, Zenon DEF IsPart, InARow
      <3> QED BY <1>1, <3>1, <3>2
    <2>2. CASE j = i
      <3>1. 1 \in 1..Len(m) /\ Len(a) + 1 = i
        BY <1>2, <1>3
      <3>2. u[Len(a) + 1] = m[1]
        BY <1>4, <3>1, Zenon DEF InARow
      <3> QED BY <1>1, <1>2, <2>2, <3>1, <3>2
    <2>3. CASE j > i
      <3>1. j - i \in 1..(Len(s) - i) /\ j - i \in 1..Len(b) /\ Len(a) + Len(m) + (j - i) = j
            /\ i + (j - i) = j /\ j # i
        BY <1>1, <1>2, <1>3, <2>3
      <3>2. u[Len(a) + Len(m) + (j - i)] = b[j - i] /\ b[j - i] = s[i + (j - i)]
        BY <1>3, <1>4, <3>1, Zenon DEF IsPart, InARow
      <3> QED BY <1>1, <3>1, <3>2
    <2> QED BY <2>1, <2>2, <2>3
  <1>7. t = u
    BY <1>1, <1>5, <1>6, SameList
  <1> QED BY <1>7 DEF u, a, b, m

\* Every list is its three parts.
LEMMA TakenApart ==
    ASSUME NEW T, NEW s \in Seq(T), NEW i \in 1..Len(s)
    PROVE  s = Ahead(s, i) \o <<s[i]>> \o Behind(s, i)
  <1>1. s[i] \in T /\ IsExchange(s, s, i, s[i], T)
    BY DEF IsExchange
  <1> QED BY <1>1, Exchanged, Zenon

LEMMA RemoveIs == \A s, i : RemoveAt(s, i) = Ahead(s, i) \o Behind(s, i)
  BY Zenon DEF RemoveAt, Ahead, Behind

LEMMA InsertIs == \A s, i, x : InsertAt(s, i, x) = Ahead(s, i) \o <<x>> \o SubSeq(s, i, Len(s))
  BY Zenon DEF InsertAt, Ahead

LEMMA InsertedIs ==
    ASSUME NEW T, NEW s \in Seq(T), NEW i \in 1..(Len(s) + 1), NEW x \in T
    PROVE  InsertAt(s, i, x) \in Seq(T) /\ Len(InsertAt(s, i, x)) = Len(s) + 1
  <1> DEFINE a == SubSeq(s, 0 + 1, i - 1)
             b == SubSeq(s, (i - 1) + 1, Len(s))
             m == <<x>>
             u == a \o m \o b
  <1>1. /\ Len(s) \in Nat /\ 0 \in 0..Len(s) /\ i - 1 \in 0..Len(s) /\ Len(s) \in 0..Len(s)
        /\ 0 <= i - 1 /\ i - 1 <= Len(s)
    OBVIOUS
  <1>2. IsPart(a, s, 0, i - 1, T) /\ IsPart(b, s, i - 1, Len(s), T)
    BY <1>1, PartIs, Zenon
  <1>3. m \in Seq(T) /\ Len(m) = 1
    BY OneIs
  <1>4. InsertAt(s, i, x) = u
    <2>1. InsertAt(s, i, x) = SubSeq(s, 1, i - 1) \o <<x>> \o SubSeq(s, i, Len(s))
      BY Zenon DEF InsertAt
    <2>2. 0 + 1 = 1 /\ (i - 1) + 1 = i
      OBVIOUS
    <2> QED BY <2>1, <2>2, Zenon
  <1> HIDE DEF a, b, m
  <1>5. InARow(u, a, m, b, T)
    <2>1. a \in Seq(T) /\ b \in Seq(T)
      BY <1>2 DEF IsPart
    <2> QED BY <1>3, <2>1, ThreeParts
  <1> HIDE DEF u
  <1>6. u \in Seq(T) /\ Len(u) = Len(s) + 1
    BY <1>1, <1>2, <1>3, <1>5 DEF IsPart, InARow
  <1> QED BY <1>4, <1>6

\* Not longer, and of the same elements.
LEMMA RemovedIs ==
    ASSUME NEW T, NEW s \in Seq(T)
    PROVE  /\ RemoveRetained(s) \in Seq(T) /\ Len(RemoveRetained(s)) <= Len(s)
           /\ \A i \in 1..Len(s) : RemoveAt(s, i) \in Seq(T) /\ Len(RemoveAt(s, i)) = Len(s) - 1
  <1>1. \A i \in 1..Len(s) : RemoveAt(s, i) \in Seq(T) /\ Len(RemoveAt(s, i)) = Len(s) - 1
    <2>1. SUFFICES ASSUME NEW i \in 1..Len(s)
                   PROVE  RemoveAt(s, i) \in Seq(T) /\ Len(RemoveAt(s, i)) = Len(s) - 1
      OBVIOUS
    <2>2. s # <<>>
      BY <2>1
    <2> QED BY <2>2, RemoveAtElements, OneShorter
  <1>2. Len(s) \in Nat /\ (s = <<>> <=> Len(s) = 0) /\ <<>> \in Seq(T) /\ Len(<<>>) = 0
    BY EmptySeq
  <1> DEFINE left == RemoveRetained(s)
  <1>3. CASE s = <<>>
    BY <1>2, <1>3 DEF RemoveRetained
  <1>4. CASE Len(s) = 1
    <2>1. left = <<>>
      BY <1>2, <1>4 DEF RemoveRetained
    <2> HIDE DEF left
    <2>2. left \in Seq(T) /\ Len(left) <= Len(s)
      BY <1>2, <1>4, <2>1
    <2> QED BY <1>1, <2>2, Zenon DEF left
  <1>5. CASE s # <<>> /\ Len(s) # 1
    <2>0. Len(s) \in Nat /\ Len(s) # 0 /\ Len(s) # 1
      BY <1>2, <1>5, Zenon
    <2>1. 2 \in 1..Len(s) /\ Len(s) - 1 <= Len(s)
      <3> DEFINE n == Len(s)
      <3>1. n \in Nat /\ n # 0 /\ n # 1
        BY <2>0
      <3> HIDE DEF n
      <3>2. 2 \in 1..n /\ n - 1 <= n
        BY ONLY <3>1
      <3> QED BY <3>2 DEF n
    <2>2. left = RemoveAt(s, 2)
      BY <1>5 DEF RemoveRetained
    <2> HIDE DEF left
    <2>3. left \in Seq(T) /\ Len(left) = Len(s) - 1
      BY <1>1, <2>1, <2>2
    <2>4. left \in Seq(T) /\ Len(left) <= Len(s)
      BY <1>2, <2>3
    <2> QED BY <1>1, <2>4 DEF left
  <1> QED BY <1>3, <1>4, <1>5

\* w is s with x as its child number index, counted from 0.
IsInserted(w, s, index, x, T) ==
    /\ w \in Seq(T) /\ Len(w) = Len(s) + 1
    /\ index >= Len(s) => w = s \o <<x>>
    /\ index \in 0..(Len(s) - 1) => w = InsertAt(s, index + 1, x)

LEMMA InsertChildIs ==
    ASSUME NEW T, NEW s \in Seq(T), NEW index \in Int, NEW x \in T
    PROVE  IsInserted(InsertChild(s, index, x), s, index, x, T)
  <1>1. CASE index >= Len(s)
    <2>1. InsertChild(s, index, x) = Append(s, x)
      BY <1>1 DEF InsertChild
    <2>2. Append(s, x) = s \o <<x>> /\ Append(s, x) \in Seq(T) /\ Len(Append(s, x)) = Len(s) + 1
      OBVIOUS
    <2>3. index \notin 0..(Len(s) - 1)
      BY <1>1
    <2> QED BY <2>1, <2>2, <2>3 DEF IsInserted
  <1>2. CASE ~(index >= Len(s))
    <2> DEFINE m == Max({index, 0})
    <2>1. m \in 0..Len(s) /\ (index >= 0 => m = index)
      <3>1. {index, 0} \in SUBSET Int /\ Len(s) \in Nat
        OBVIOUS
      <3>2. CASE index >= 0
        <4>1. m = index
          <5>1. index \in {index, 0} /\ \A j \in {index, 0} : j <= index
            BY <3>2
          <5> QED BY <3>1, <5>1, MaxIs
        <4> QED BY <1>2, <3>1, <3>2, <4>1
      <3>3. CASE index < 0
        <4>1. m = 0
          <5>1. 0 \in {index, 0} /\ \A j \in {index, 0} : j <= 0
            BY <3>3
          <5> QED BY <3>1, <5>1, MaxIs
        <4> QED BY <1>2, <3>1, <3>3, <4>1
      <3> QED BY <3>2, <3>3
    <2>2. InsertChild(s, index, x) = InsertAt(s, m + 1, x)
      BY <1>2 DEF InsertChild
    <2> HIDE DEF m
    <2>3. m + 1 \in 1..(Len(s) + 1)
      BY <2>1
    <2>4. InsertAt(s, m + 1, x) \in Seq(T) /\ Len(InsertAt(s, m + 1, x)) = Len(s) + 1
      BY <2>3, InsertedIs
    <2>5. index \in 0..(Len(s) - 1) => m = index
      BY <2>1
    <2> QED BY <1>2, <2>2, <2>4, <2>5 DEF IsInserted
  <1> QED BY <1>1, <1>2

--------------------------------------------------------------------------------
(* What is filtered from a list.                                               *)

LEMMA OnlyIs ==
    ASSUME NEW T, NEW s \in Seq(T), NEW S
    PROVE  /\ Only(s, S) \in Seq(T \cap S)
           /\ (\A i \in 1..Len(s) : s[i] \in S) => Only(s, S) = s
           /\ (\A i \in 1..Len(s) : s[i] \notin S) => Only(s, S) = <<>>
  <1> DEFINE n == Len(s)
  <1>1. n \in Nat /\ \A j \in 1..n : s[j] \in T
    OBVIOUS
  <1>2. PICK h : IsFilter(h, s, S, T) /\ Only(s, S) = h[n]
    BY OnlyRuns
  <1>3. /\ h[0] = <<>>
        /\ \A j \in 1..n : h[j] = IF s[j] \in S THEN Append(h[j - 1], s[j]) ELSE h[j - 1]
    BY <1>2 DEF IsFilter
  <1>4. n \in 0..n /\ h[n] \in Seq(T \cap S)
    BY <1>1, <1>2 DEF IsFilter
  <1>5. ASSUME \A i \in 1..Len(s) : s[i] \in S PROVE h[n] = s
    <2> DEFINE Q == {j \in 0..n : h[j] \in Seq(T) /\ Len(h[j]) = j /\ \A i \in 1..j : h[j][i] = s[i]}
    <2>1. 0 \in Q
      <3>1. 0 \in 0..n /\ h[0] = <<>>
        BY <1>1, <1>3
      <3>2. <<>> \in Seq(T) /\ Len(<<>>) = 0
        OBVIOUS
      <3>3. h[0] \in Seq(T) /\ Len(h[0]) = 0
        BY <3>1, <3>2, Zenon
      <3>4. \A i \in 1..0 : h[0][i] = s[i]
        OBVIOUS
      <3> QED BY <3>1, <3>3, <3>4
    <2>2. ASSUME NEW j \in 1..n, j - 1 \in Q PROVE j \in Q
      <3>1. h[j] = Append(h[j - 1], s[j]) /\ s[j] \in T
        BY <1>1, <1>3, <1>5
      <3>2. h[j - 1] \in Seq(T) /\ Len(h[j - 1]) = j - 1 /\ \A i \in 1..(j - 1) : h[j - 1][i] = s[i]
        BY <2>2
      <3>3. h[j] \in Seq(T) /\ Len(h[j]) = j /\ \A i \in 1..j : h[j][i] = s[i]
        BY <3>1, <3>2
      <3> QED BY <1>1, <3>3
    <2>3. \A j \in 0..n : j \in Q
      <3> HIDE DEF Q
      <3> QED BY <1>1, <2>1, <2>2, Rounds
    <2>4. h[n] \in Seq(T) /\ Len(h[n]) = Len(s) /\ \A i \in 1..Len(s) : h[n][i] = s[i]
      BY <1>4, <2>3
    <2> HIDE DEF Q, n
    <2> QED BY <2>4, SameList
  <1>6. ASSUME \A i \in 1..Len(s) : s[i] \notin S PROVE h[n] = <<>>
    <2> DEFINE Q == {j \in 0..n : h[j] = <<>>}
    <2>1. 0 \in Q
      BY <1>1, <1>3
    <2>2. ASSUME NEW j \in 1..n, j - 1 \in Q PROVE j \in Q
      BY <1>3, <1>6, <2>2
    <2>3. \A j \in 0..n : j \in Q
      <3> HIDE DEF Q
      <3> QED BY <1>1, <2>1, <2>2, Rounds
    <2> QED BY <1>4, <2>3
  <1> QED BY <1>2, <1>4, <1>5, <1>6

--------------------------------------------------------------------------------
(* Where edits look.                                                           *)

LEMMA EndInclusiveIs ==
    ASSUME NEW r, r.start \in Int, r.dur \in Int
    PROVE  EndInclusive(r) \in Int /\ (r.dur > 0 => EndInclusive(r) = r.start + r.dur - 1)
  BY DEF EndInclusive, EndExclusive

LEMMA ChildrenInIs ==
    ASSUME NEW k \in Seq(Children), NEW r, r.start \in Int, r.dur \in Int
    PROVE  ChildrenIn(k, r) \in Seq(1..Len(k))
  <1> DEFINE n == Len(k)
             all == Indices(k)
             ends == [i \in DOMAIN all |-> EndInclusive(Places(k)[all[i]])]
             starts == Starts(all, Places(k))
             a == BisectLeft(ends, r.start)
             b == BisectRight(starts, EndInclusive(r), a)
  <1>1. n \in Nat /\ DOMAIN k = 1..n
    OBVIOUS
  <1>2. all \in Seq(1..n) /\ Len(all) = n /\ DOMAIN all = 1..n /\ \A i \in 1..n : all[i] = i
    BY <1>1, IndicesAre
  <1>3. \A i \in 1..n : Places(k)[i].start \in Int /\ Places(k)[i].dur \in Int
    BY PlaceIs
  <1>4. ChildrenIn(k, r) = Between(all, ends, starts, r.start, EndInclusive(r))
    BY DEF ChildrenIn, AllIn
  <1> HIDE DEF all
  <1>5. \A i \in 1..n : EndInclusive(Places(k)[i]) \in Int
    BY <1>3, EndInclusiveIs
  <1>6. ends \in [1..n -> Int]
    BY <1>2, <1>5
  <1>7. starts \in [1..n -> Int]
    BY <1>2, <1>3 DEF Starts
  <1>8. EndInclusive(r) \in Int
    BY EndInclusiveIs
  <1> HIDE DEF n, ends, starts
  <1>9. LeavesSlice(all, n, ends, starts, r.start, EndInclusive(r))
    BY <1>1, <1>2, <1>6, <1>7, <1>8, BetweenIsSlice
  <1>10. a \in 0..n /\ b \in 0..n /\ a <= b /\ ChildrenIn(k, r) = SubSeq(all, a + 1, b)
    BY <1>4, <1>9 DEF LeavesSlice
  <1> HIDE DEF a, b
  <1>11. SubSeq(all, a + 1, b) \in Seq(1..n)
    BY <1>2, <1>10, SliceElements
  <1> QED BY <1>10, <1>11 DEF n

LEMMA FoundIs ==
    ASSUME NEW k \in Seq(Children), NEW r, r.start \in Int, r.dur \in Int
    PROVE  /\ ItemsIn(k, r) \in Seq(Items(k)) /\ TransitionsIn(k, r) \in Seq(1..Len(k))
           /\ OnlyItems(k) => ItemsIn(k, r) = ChildrenIn(k, r) /\ TransitionsIn(k, r) = <<>>
  <1> DEFINE found == ChildrenIn(k, r)
             D == 1..Len(k)
             S == Items(k)
  <1>1. found \in Seq(D) /\ DOMAIN k = D
    BY ChildrenInIs
  <1>2. S \subseteq D /\ D \cap S = S
    BY DEF Items
  <1>3. ItemsIn(k, r) = Only(found, S) /\ TransitionsIn(k, r) = Only(found, D \ S)
    BY <1>1 DEF ItemsIn, TransitionsIn
  <1>4. OnlyItems(k) => S = D
    BY <1>1 DEF OnlyItems
  <1> HIDE DEF found, D, S
  <1>5. /\ Only(found, S) \in Seq(D \cap S)
        /\ (\A i \in 1..Len(found) : found[i] \in S) => Only(found, S) = found
    BY <1>1, OnlyIs
  <1>6. /\ Only(found, D \ S) \in Seq(D \cap (D \ S))
        /\ (\A i \in 1..Len(found) : found[i] \notin D \ S) => Only(found, D \ S) = <<>>
    BY <1>1, OnlyIs
  <1>7. Only(found, D \ S) \in Seq(D)
    <2>1. D \cap (D \ S) \subseteq D
      OBVIOUS
    <2> HIDE DEF D
    <2> QED BY <1>6, <2>1
  <1>8. ASSUME S = D
        PROVE  /\ \A i \in 1..Len(found) : found[i] \in S
               /\ \A i \in 1..Len(found) : found[i] \notin D \ S
    <2>1. \A i \in 1..Len(found) : found[i] \in D
      BY <1>1
    <2> QED BY <1>8, <2>1
  <1> QED BY <1>2, <1>3, <1>4, <1>5, <1>6, <1>7, <1>8 DEF D, S, found

LEMMA WithoutIs ==
    ASSUME NEW k \in Seq(Children), NEW r, r.start \in Int, r.dur \in Int
    PROVE  /\ WithoutTransitions(k, r) \in Seq(Children)
           /\ Len(WithoutTransitions(k, r)) <= Len(k)
           /\ Usable(k) => Usable(WithoutTransitions(k, r))
           /\ OnlyItems(k) => WithoutTransitions(k, r) = k
  <1> DEFINE n == Len(k)
             found == TransitionsIn(k, r)
             m == Len(found)
             A == {q \in Seq(1..n) : Len(q) <= n}
             turn(j, q) == IF found[j] \in Range(q) THEN RemoveRetained(q) ELSE q
             G == [j \in 1..m |-> [q \in A |-> turn(j, q)]]
             Loop(f) == f = [j \in 0..Len(found) |->
                                IF j = 0 THEN Indices(k)
                                ELSE IF found[j] \in Range(f[j - 1]) THEN RemoveRetained(f[j - 1])
                                ELSE f[j - 1]]
             h == CHOOSE f : Loop(f)
  <1>1. n \in Nat /\ DOMAIN k = 1..n /\ \A i \in 1..n : k[i] \in Children
    OBVIOUS
  <1>2. found \in Seq(1..n) /\ m \in Nat /\ (OnlyItems(k) => found = <<>>)
    BY FoundIs
  <1>3. Indices(k) \in A /\ DOMAIN Indices(k) = 1..n /\ \A i \in 1..n : Indices(k)[i] = i
    BY <1>1, IndicesAre
  <1>4. G \in [1..m -> [A -> A]]
    <2>1. ASSUME NEW j \in 1..m, NEW q \in A PROVE turn(j, q) \in A
      <3>1. q \in Seq(1..n) /\ Len(q) <= n /\ Len(q) \in Nat
        OBVIOUS
      <3>2. RemoveRetained(q) \in Seq(1..n) /\ Len(RemoveRetained(q)) <= Len(q)
        BY <3>1, RemovedIs
      <3>3. Len(RemoveRetained(q)) \in Nat
        BY <3>2
      <3>4. Len(RemoveRetained(q)) <= n
        BY <1>1, <3>1, <3>2, <3>3
      <3> QED BY <3>2, <3>4
    <2> HIDE DEF turn, A, m
    <2> QED BY <2>1
  <1> HIDE DEF found
  <1>5. PICK g : IsLoop(g, m, A, Indices(k), G)
    <2> HIDE DEF G, A
    <2>1. \E g : IsLoop(g, m, A, Indices(k), G)
      BY <1>2, <1>3, <1>4, LoopRuns
    <2> QED BY <2>1
  <1>6. Loop(g)
    <2>1. ASSUME NEW j \in 1..m PROVE g[j] = turn(j, g[j - 1])
      <3>1. g[j - 1] \in A /\ g[j] = G[j][g[j - 1]]
        <4> HIDE DEF G, A
        <4>1. j - 1 \in 0..m
          BY <1>2
        <4> QED BY <1>5, <4>1, Zenon DEF IsLoop
      <3> HIDE DEF A, turn
      <3> QED BY <3>1
    <2>2. g = [j \in 0..m |-> g[j]] /\ g[0] = Indices(k)
      BY <1>5 DEF IsLoop
    <2>3. \A j \in 0..m : j = 0 \/ j \in 1..m
      BY <1>2
    <2> HIDE DEF A
    <2> QED BY <2>1, <2>2, <2>3
  <1>7. Loop(h)
    <2> HIDE DEF Loop
    <2>1. \E f : Loop(f)
      BY <1>6, Zenon
    <2> QED BY <2>1, Zenon
  <1>8. WithoutTransitions(k, r) = [j \in DOMAIN h[m] |-> k[h[m][j]]]
    BY DEF WithoutTransitions, found
  <1> HIDE DEF h
  <1>9. /\ h = [j \in 0..m |-> h[j]] /\ h[0] = Indices(k)
        /\ \A j \in 1..m : h[j] = turn(j, h[j - 1])
    <2>1. h = [j \in 0..m |-> IF j = 0 THEN Indices(k)
                             ELSE IF found[j] \in Range(h[j - 1]) THEN RemoveRetained(h[j - 1])
                             ELSE h[j - 1]]
      BY <1>7, Zenon
    <2>2. 0 \in 0..m /\ \A j \in 1..m : j \in 0..m /\ j # 0
      BY <1>2
    <2> HIDE DEF m
    <2> QED BY <2>1, <2>2
  <1>10. IsLoop(h, m, A, Indices(k), G)
    <2>1. ASSUME NEW j \in 1..m, h[j - 1] \in A PROVE h[j] = G[j][h[j - 1]]
      <3> HIDE DEF A, turn
      <3> QED BY <1>9, <2>1
    <2> HIDE DEF G, A, Loop, m, turn
    <2> QED BY <1>2, <1>3, <1>4, <1>9, <2>1, LoopIs
  <1>11. h[m] \in A
    <2>1. m \in 0..m
      BY <1>2
    <2> HIDE DEF A, G
    <2> QED BY <1>10, <2>1 DEF IsLoop
  <1> DEFINE last == h[m]
  <1>12. last \in Seq(1..n) /\ Len(last) <= n /\ Len(last) \in Nat /\ DOMAIN last = 1..Len(last)
    BY <1>11
  <1>13. OnlyItems(k) => last = Indices(k)
    <2>1. OnlyItems(k) => m = 0
      BY <1>2
    <2> QED BY <1>9, <2>1
  <1> DEFINE w == [j \in DOMAIN last |-> k[last[j]]]
  <1> HIDE DEF Loop, G, A, turn, last
  <1>14. \A j \in 1..Len(last) : last[j] \in 1..n
    BY <1>12
  <1>15. /\ w \in Seq(Children) /\ Len(w) = Len(last)
         /\ \A j \in 1..Len(last) : w[j] = k[last[j]]
    BY <1>1, <1>12, <1>14
  <1>16. ASSUME OnlyItems(k) PROVE w = k
    <2>1. DOMAIN last = 1..n /\ \A i \in 1..n : last[i] = i
      BY <1>3, <1>13, <1>16
    <2>2. w = [j \in 1..n |-> k[j]]
      BY <2>1
    <2>3. k = [j \in 1..n |-> k[j]]
      OBVIOUS
    <2> QED BY <2>2, <2>3
  <1>17. ASSUME Usable(k) PROVE Usable(w)
    <2>1. DOMAIN w = 1..Len(last)
      BY <1>12
    <2> HIDE DEF w
    <2> QED BY <1>1, <1>14, <1>15, <1>17, <2>1, Zenon DEF Usable
  <1>18. WithoutTransitions(k, r) = w
    BY <1>8 DEF last
  <1> HIDE DEF w, n
  <1> QED BY <1>12, <1>15, <1>16, <1>17, <1>18 DEF n

--------------------------------------------------------------------------------
(* One child that shows something else.                                        *)

Reranged(k, i, start, dur) == [k EXCEPT ![i] = Shows(k[i], start, dur)]

LEMMA RerangedIs ==
    ASSUME NEW k \in Seq(Children), NEW i \in 1..Len(k), IsItem(k[i]),
           NEW start \in Int, NEW dur \in Int
    PROVE  /\ IsExchange(Reranged(k, i, start, dur), k, i, Shows(k[i], start, dur), Children)
           /\ Reranged(k, i, start, dur) \in Seq(Children)
           /\ Len(Reranged(k, i, start, dur)) = Len(k)
           /\ Shows(k[i], start, dur) \in ItemRecords /\ Shows(k[i], start, dur) \in Children
           /\ k[i] \in ItemRecords /\ k[i].range \in Span
           /\ k[i].range.start \in Int /\ k[i].range.dur \in Int
  <1>1. k[i] \in ItemRecords /\ k[i].range \in Span
    BY ChildIs
  <1>2. Shows(k[i], start, dur) \in ItemRecords /\ Shows(k[i], start, dur) \in Children
    BY <1>1, ShowsIs, ItemsAreChildren
  <1>3. IsExchange(Reranged(k, i, start, dur), k, i, Shows(k[i], start, dur), Children)
    BY <1>2, ExchangeIs DEF Reranged
  <1>4. /\ Reranged(k, i, start, dur) \in Seq(Children)
        /\ Len(Reranged(k, i, start, dur)) = Len(k)
    BY <1>3, Zenon DEF IsExchange
  <1> QED BY <1>1, <1>2, <1>3, <1>4, RangeIs

LEMMA ExceptRange ==
    ASSUME NEW k \in Seq(Children), NEW i \in 1..Len(k), IsItem(k[i]),
           NEW start \in Int, NEW dur \in Int
    PROVE  [k EXCEPT ![i].range = TimeRange(start, dur)] = Reranged(k, i, start, dur)
  <1>1. k[i] \in ItemRecords /\ k[i].range \in Span /\ i \in DOMAIN k
    BY RerangedIs
  <1>2. [k[i] EXCEPT !.range = TimeRange(start, dur)] = Shows(k[i], start, dur)
    BY <1>1, ShowsIs
  <1> QED BY <1>2 DEF Reranged, Shows

LEMMA ExceptDur ==
    ASSUME NEW k \in Seq(Children), NEW i \in 1..Len(k), IsItem(k[i]), NEW dur \in Int
    PROVE  [k EXCEPT ![i].range.dur = dur] = Reranged(k, i, k[i].range.start, dur)
  <1>1. k[i].range \in Span /\ i \in DOMAIN k
    BY ChildIs
  <1>2. [k[i].range EXCEPT !.dur = dur] = TimeRange(k[i].range.start, dur)
    BY <1>1 DEF Span, TimeRange
  <1> QED BY <1>2 DEF Reranged, Shows

LEMMA ExceptStart ==
    ASSUME NEW k \in Seq(Children), NEW i \in 1..Len(k), IsItem(k[i]), NEW start \in Int
    PROVE  [k EXCEPT ![i].range.start = start] = Reranged(k, i, start, k[i].range.dur)
  <1>1. k[i].range \in Span /\ i \in DOMAIN k
    BY ChildIs
  <1>2. [k[i].range EXCEPT !.start = start] = TimeRange(start, k[i].range.dur)
    BY <1>1 DEF Span, TimeRange
  <1> QED BY <1>2 DEF Reranged, Shows

\* Lengthened or shortened at the end.
LEMMA StretchIs ==
    ASSUME NEW k \in Seq(Children), NEW i \in 1..Len(k), IsItem(k[i]), NEW by \in Int
    PROVE  /\ Stretch(k, i, by) = Reranged(k, i, k[i].range.start, k[i].range.dur + by)
           /\ k[i].range.start \in Int /\ k[i].range.dur \in Int /\ k[i].range.dur + by \in Int
  <1> DEFINE n == k[i].range.dur + by
  <1>1. k[i].range.start \in Int /\ k[i].range.dur \in Int
    BY ChildIs
  <1>2. n \in Int
    BY <1>1
  <1>3. Stretch(k, i, by) = [k EXCEPT ![i].range.dur = n]
    BY DEF Stretch
  <1> HIDE DEF n
  <1>4. [k EXCEPT ![i].range.dur = n] = Reranged(k, i, k[i].range.start, n)
    BY <1>2, ExceptDur
  <1> QED BY <1>1, <1>2, <1>3, <1>4 DEF n

\* Where the child of a list is another, those at other places are what they were.
LEMMA Unmoved ==
    ASSUME NEW k \in Seq(Children), NEW i \in 1..Len(k), IsItem(k[i]),
           NEW start \in Int, NEW dur \in Int, NEW j \in 1..Len(k), j # i
    PROVE  Reranged(k, i, start, dur)[j] = k[j]
  <1>1. IsExchange(Reranged(k, i, start, dur), k, i, Shows(k[i], start, dur), Children)
    BY RerangedIs
  <1> QED BY <1>1, Zenon DEF IsExchange

--------------------------------------------------------------------------------
(* Every edit leaves a list of children, with two more at most.                *)

Statuses == {"OK", "NOT_AN_ITEM", "NOT_A_GAP", "INTERNAL_ERROR", "CANNOT_TRIM_TRANSITION"}

Kept(k, after) == after \in Seq(Children) /\ Len(after) <= Len(k) + 2
Tracked(k, outcome) == outcome.status \in Statuses /\ Kept(k, outcome.kids)

LEMMA DoneIs ==
    /\ \A k : Done(k).status = "OK" /\ Done(k).kids = k
    /\ \A k, st : Refused(st, k).status = st /\ Refused(st, k).kids = k
  BY DEF Done, Refused

LEMMA SameIsKept == ASSUME NEW k \in Seq(Children) PROVE Kept(k, k)
  <1>1. Len(k) \in Nat
    OBVIOUS
  <1> QED BY <1>1 DEF Kept

LEMMA KeptByDone == ASSUME NEW k, NEW after, Kept(k, after) PROVE Tracked(k, Done(after))
  BY DoneIs DEF Tracked, Statuses

LEMMA KeptByRefused ==
    ASSUME NEW k, NEW after, Kept(k, after), NEW st \in Statuses PROVE Tracked(k, Refused(st, after))
  BY DoneIs DEF Tracked

\* No more than one child.
Few(s) == s \in Seq(Children) /\ Len(s) <= 1

LEMMA FewAre ==
    /\ Few(<<>>) /\ Len(<<>>) = 0
    /\ \A x \in Children : Few(<<x>>) /\ Len(<<x>>) = 1
  BY DEF Few

AddsUp(v, a, p, m, q, b, T) ==
    v \in Seq(T) /\ Len(v) = Len(a) + Len(p) + Len(m) + Len(q) + Len(b)

LEMMA FiveParts ==
    ASSUME NEW T, NEW a \in Seq(T), NEW p \in Seq(T), NEW m \in Seq(T), NEW q \in Seq(T),
           NEW b \in Seq(T), NEW v, v = a \o p \o m \o q \o b
    PROVE  AddsUp(v, a, p, m, q, b, T)
  <1> DEFINE x == a \o p \o m
             y == x \o q
  <1>1. x \in Seq(T) /\ Len(x) = Len(a) + Len(p) + Len(m)
    BY ThreeParts DEF InARow
  <1>2. v = y \o b
    OBVIOUS
  <1> HIDE DEF x
  <1>3. IsJoin(y, x, q, T)
    BY <1>1, JoinIs
  <1>4. y \in Seq(T) /\ Len(y) = Len(x) + Len(q)
    BY <1>3 DEF IsJoin
  <1> HIDE DEF y
  <1>5. IsJoin(v, y, b, T)
    BY <1>2, <1>4, JoinIs
  <1>6. v \in Seq(T) /\ Len(v) = Len(y) + Len(b)
    BY <1>5 DEF IsJoin
  <1> QED BY <1>1, <1>4, <1>6 DEF AddsUp

LEMMA OverwriteAfterKept ==
    ASSUME NEW k \in Seq(Children), NEW c \in ItemRecords, NEW t \in Int, NEW template \in Fillers
    PROVE  Kept(k, OverwriteAfter(k, c, t, template))
  <1> DEFINE n == t - EndOf(k)
             x == Filler(template, n)
  <1>1. n \in Int
    BY EndIs
  <1>2. c \in Children /\ x \in Children /\ Len(k) \in Nat
    BY <1>1, FillerIs, ItemsAreChildren
  <1>3. OverwriteAfter(k, c, t, template) = Append(k, c) \/ OverwriteAfter(k, c, t, template) = k \o <<x, c>>
    BY DEF OverwriteAfter
  <1> HIDE DEF x, n
  <1>4. Append(k, c) \in Seq(Children) /\ Len(Append(k, c)) = Len(k) + 1
    BY <1>2
  <1>5. k \o <<x, c>> \in Seq(Children) /\ Len(k \o <<x, c>>) = Len(k) + 2
    BY <1>2
  <1>6. Kept(k, Append(k, c))
    BY <1>2, <1>4 DEF Kept
  <1>7. Kept(k, k \o <<x, c>>)
    <2> DEFINE w == k \o <<x, c>>
    <2> HIDE DEF w
    <2>1. w \in Seq(Children) /\ Len(w) = Len(k) + 2
      BY <1>5 DEF w
    <2>2. Kept(k, w)
      BY <1>2, <2>1 DEF Kept
    <2> QED BY <2>2 DEF w
  <1> QED BY <1>3, <1>6, <1>7

LEMMA OverwriteBeforeKept ==
    ASSUME NEW k \in Seq(Children), NEW c \in ItemRecords, NEW r, r.start \in Int, r.dur \in Int,
           NEW template \in Fillers
    PROVE  Kept(k, OverwriteBefore(k, c, r, template))
  <1> DEFINE x == Filler(template, 0 - r.start - r.dur)
  <1>1. c \in Children /\ x \in Children /\ Len(k) \in Nat
    BY FillerIs, ItemsAreChildren
  <1>2. OverwriteBefore(k, c, r, template) = <<c, x>> \o k
    BY DEF OverwriteBefore
  <1> HIDE DEF x
  <1>3. <<c, x>> \o k \in Seq(Children) /\ Len(<<c, x>> \o k) = 2 + Len(k)
    BY <1>1
  <1> QED BY <1>1, <1>2, <1>3 DEF Kept

LEMMA OverwriteWithinKept ==
    ASSUME NEW k \in Seq(Children), NEW i \in 1..Len(k), IsItem(k[i]), NEW c \in ItemRecords,
           NEW r, r.start \in Int, r.dur \in Int
    PROVE  Kept(k, OverwriteWithin(k, i, c, r))
  <1> DEFINE old == k[i]
             first == r.start - Places(k)[i].start
             second == Duration(old) - r.dur - first
             fit == old.kind = "gap" /\ c.warped
             new == IF r.dur < c.range.dur /\ ~fit THEN Shows(c, old.range.start, r.dur) ELSE c
             p == IF first = 0 THEN <<>> ELSE <<Shows(old, old.range.start, first)>>
             q == IF second = 0 THEN <<>>
                  ELSE <<Shows(old, old.range.start + first + r.dur, second)>>
             a == Ahead(k, i)
             b == Behind(k, i)
             m == <<new>>
  <1>1. /\ old \in ItemRecords /\ old.range.start \in Int /\ Duration(old) \in Int
        /\ first \in Int /\ second \in Int
    BY ChildIs, PlaceIs
  <1>2. OverwriteWithin(k, i, c, r) = a \o p \o m \o q \o b
    BY DEF OverwriteWithin, Ahead, Behind
  <1>3. new \in Children
    BY <1>1, ShowsIs, ItemsAreChildren
  <1>4. Few(p)
    <2>1. Shows(old, old.range.start, first) \in Children
      BY <1>1, ShowsIs, ItemsAreChildren
    <2> HIDE DEF first, old
    <2> QED BY <2>1, FewAre
  <1>5. Few(q)
    <2>1. old.range.start + first + r.dur \in Int
      BY <1>1
    <2>2. Shows(old, old.range.start + first + r.dur, second) \in Children
      BY <1>1, <2>1, ShowsIs, ItemsAreChildren
    <2> HIDE DEF first, second, old
    <2> QED BY <2>2, FewAre
  <1>6. m \in Seq(Children) /\ Len(m) = 1
    <2> HIDE DEF new
    <2> QED BY <1>3, OneIs
  <1>7. a \in Seq(Children) /\ b \in Seq(Children) /\ Len(a) = i - 1 /\ Len(b) = Len(k) - i
    BY SidesAre
  <1> HIDE DEF a, b, m, p, q, old, first, second, fit, new
  <1> DEFINE w == OverwriteWithin(k, i, c, r)
  <1> HIDE DEF w
  <1>8. w \in Seq(Children) /\ Len(w) = Len(a) + Len(p) + Len(m) + Len(q) + Len(b)
    <2>1. p \in Seq(Children) /\ q \in Seq(Children) /\ w = a \o p \o m \o q \o b
      BY <1>2, <1>4, <1>5 DEF Few, w
    <2>2. AddsUp(w, a, p, m, q, b, Children)
      BY <2>1, <1>6, <1>7, FiveParts, Zenon
    <2> QED BY <2>2 DEF AddsUp
  <1>9. Len(p) \in Nat /\ Len(q) \in Nat /\ Len(p) <= 1 /\ Len(q) <= 1 /\ Len(k) \in Nat
    BY <1>4, <1>5 DEF Few
  <1>10. Len(w) <= Len(k) + 2
    BY <1>6, <1>7, <1>8, <1>9
  <1> QED BY <1>8, <1>10 DEF Kept, w

LEMMA UncoveredIs ==
    ASSUME NEW T, NEW s \in Seq(T), NEW n \in Nat
    PROVE  /\ Uncovered(s, n) \in Seq(T) /\ Len(Uncovered(s, n)) <= Len(s)
           /\ n = 0 => Uncovered(s, n) = s
  <1> DEFINE A == {q \in Seq(T) : Len(q) <= Len(s)}
             G == [j \in 1..n |-> [q \in A |-> RemoveRetained(q)]]
             Loop(f) == f = [j \in 0..n |-> IF j = 0 THEN s ELSE RemoveRetained(f[j - 1])]
             h == CHOOSE f : Loop(f)
  <1>1. s \in A /\ Len(s) \in Nat
    OBVIOUS
  <1>2. G \in [1..n -> [A -> A]]
    <2>1. ASSUME NEW q \in A PROVE RemoveRetained(q) \in A
      <3>1. q \in Seq(T) /\ Len(q) <= Len(s) /\ Len(q) \in Nat
        OBVIOUS
      <3>2. RemoveRetained(q) \in Seq(T) /\ Len(RemoveRetained(q)) <= Len(q)
        BY <3>1, RemovedIs
      <3>3. Len(RemoveRetained(q)) \in Nat
        BY <3>2
      <3>4. Len(RemoveRetained(q)) <= Len(s)
        BY <1>1, <3>1, <3>2, <3>3
      <3> QED BY <3>2, <3>4
    <2> HIDE DEF A
    <2> QED BY <2>1
  <1>3. PICK g : IsLoop(g, n, A, s, G)
    <2> HIDE DEF G, A
    <2>1. \E g : IsLoop(g, n, A, s, G)
      BY <1>1, <1>2, LoopRuns
    <2> QED BY <2>1
  <1>4. Loop(g)
    <2>1. ASSUME NEW j \in 1..n PROVE g[j] = RemoveRetained(g[j - 1])
      <3>1. g[j - 1] \in A /\ g[j] = G[j][g[j - 1]]
        <4> HIDE DEF G, A
        <4>1. j - 1 \in 0..n
          OBVIOUS
        <4> QED BY <1>3, <4>1, Zenon DEF IsLoop
      <3> HIDE DEF A
      <3> QED BY <3>1
    <2>2. g = [j \in 0..n |-> g[j]] /\ g[0] = s
      BY <1>3 DEF IsLoop
    <2>3. \A j \in 0..n : j = 0 \/ j \in 1..n
      OBVIOUS
    <2> HIDE DEF A
    <2> QED BY <2>1, <2>2, <2>3
  <1>5. Loop(h)
    <2> HIDE DEF Loop
    <2>1. \E f : Loop(f)
      BY <1>4, Zenon
    <2> QED BY <2>1, Zenon
  <1>6. Uncovered(s, n) = h[n]
    BY DEF Uncovered
  <1> HIDE DEF h
  <1>7. /\ h = [j \in 0..n |-> h[j]] /\ h[0] = s
        /\ \A j \in 1..n : h[j] = RemoveRetained(h[j - 1])
    <2>1. h = [j \in 0..n |-> IF j = 0 THEN s ELSE RemoveRetained(h[j - 1])]
      BY <1>5, Zenon
    <2>2. 0 \in 0..n /\ \A j \in 1..n : j \in 0..n /\ j # 0
      OBVIOUS
    <2> QED BY <2>1, <2>2
  <1>8. IsLoop(h, n, A, s, G)
    <2>1. ASSUME NEW j \in 1..n, h[j - 1] \in A PROVE h[j] = G[j][h[j - 1]]
      <3> HIDE DEF A
      <3> QED BY <1>7, <2>1
    <2> HIDE DEF G, A, Loop
    <2> QED BY <1>1, <1>2, <1>7, <2>1, LoopIs
  <1>9. h[n] \in A
    <2> HIDE DEF A, G
    <2> QED BY <1>8 DEF IsLoop
  <1> QED BY <1>6, <1>7, <1>9

\* A part of the one item that is found cannot be left on both sides: the range would
\* then be within the item.
LEMMA NotBothSides ==
    ASSUME NEW at, at.start \in Int, at.dur \in Int, at.dur > 0,
           NEW r, r.start \in Int, r.dur \in Int, ~Holds(at, r), at.start < r.start
    PROVE  ~(EndInclusive(at) - EndInclusive(r) > 0)
  <1>1. EndInclusive(at) = at.start + at.dur - 1
    BY EndInclusiveIs
  <1>2. EndInclusive(r) = IF r.dur > 1 THEN r.start + r.dur - 1 ELSE r.start
    BY DEF EndInclusive, EndExclusive
  <1>3. ~(r.start + r.dur <= at.start + at.dur)
    BY DEF Holds, EndExclusive
  <1> QED BY <1>1, <1>2, <1>3

LEMMA OverwriteAcrossKept ==
    ASSUME NEW k \in Seq(Children), Usable(k), NEW found \in Seq(Items(k)), found # <<>>,
           NEW c \in ItemRecords, NEW r, r.start \in Int, r.dur \in Int,
           ~(Len(found) = 1 /\ Holds(Places(k)[found[1]], r))
    PROVE  Kept(k, OverwriteAcross(k, found, c, r))
  <1> DEFINE at == Places(k)
             a == Head(found)
             b == Last(found)
             headStays == at[a].start < r.start
             left == EndInclusive(at[b]) - EndInclusive(r)
             tailStays == left > 0
             parts == [i \in DOMAIN k |->
                          IF tailStays /\ i = b THEN LastPart(k[b], left, r, Len(found) = 1)
                          ELSE IF headStays /\ i = a
                          THEN Shows(k[a], k[a].range.start, r.start - at[a].start)
                          ELSE k[i]]
             covered == Len(found) - (IF headStays THEN 1 ELSE 0) - (IF tailStays THEN 1 ELSE 0)
             place == a - 1 + (IF headStays THEN 1 ELSE 0)
             new == Shows(c, c.range.start, r.dur)
  <1>1. /\ Len(found) \in Nat \ {0} /\ a = found[1] /\ b = found[Len(found)]
        /\ a \in Items(k) /\ b \in Items(k)
    <2>1. Len(found) \in Nat \ {0}
      BY EmptySeq
    <2>2. 1 \in 1..Len(found) /\ Len(found) \in 1..Len(found)
      BY <2>1
    <2> QED BY <2>1, <2>2 DEF Last
  <1>2. /\ a \in 1..Len(k) /\ b \in 1..Len(k) /\ IsItem(k[a]) /\ IsItem(k[b])
        /\ DOMAIN k = 1..Len(k) /\ Len(k) \in Nat
    BY <1>1 DEF Items
  <1>3. /\ at[a].start \in Int /\ at[b].start \in Int /\ at[a].dur \in Int /\ at[b].dur \in Int
        /\ at[a].dur = Duration(k[a])
    BY <1>2, PlaceIs
  <1>4. left \in Int
    <2>1. EndInclusive(at[b]) \in Int /\ EndInclusive(r) \in Int
      BY <1>3, EndInclusiveIs
    <2> QED BY <2>1
  <1>5. covered \in Nat
    <2>1. CASE headStays /\ tailStays /\ Len(found) = 1
      <3>1. at[a].dur > 0
        BY <1>2, <1>3 DEF Usable
      <3>2. ~Holds(at[a], r) /\ a = b
        BY <1>1, <2>1
      <3>3. ~(EndInclusive(at[a]) - EndInclusive(r) > 0)
        <4> DEFINE p == at[a]
        <4>1. p.start \in Int /\ p.dur \in Int /\ p.dur > 0 /\ ~Holds(p, r) /\ p.start < r.start
          BY <1>3, <2>1, <3>1, <3>2
        <4> HIDE DEF p
        <4>2. ~(EndInclusive(p) - EndInclusive(r) > 0)
          BY <4>1, NotBothSides
        <4> QED BY <4>2 DEF p
      <3> QED BY <2>1, <3>2, <3>3
    <2>2. CASE ~(headStays /\ tailStays /\ Len(found) = 1)
      <3> DEFINE n == Len(found)
      <3>1. n \in Nat \ {0} /\ ~(headStays /\ tailStays /\ n = 1)
        BY <1>1, <2>2
      <3>2. covered = n - (IF headStays THEN 1 ELSE 0) - (IF tailStays THEN 1 ELSE 0)
        OBVIOUS
      <3> HIDE DEF headStays, tailStays, covered, n
      <3>3. CASE headStays /\ tailStays
        BY ONLY <3>1, <3>2, <3>3
      <3>4. CASE ~headStays \/ ~tailStays
        BY ONLY <3>1, <3>2, <3>4
      <3> QED BY <3>3, <3>4
    <2> QED BY <2>1, <2>2
  <1>6. place \in Int
    BY <1>2
  <1>7. c.range.start \in Int /\ new \in Children
    <2>1. c.range.start \in Int
      BY ChildIs, ItemsAreChildren
    <2> QED BY <2>1, ShowsIs, ItemsAreChildren
  <1>8. parts \in Seq(Children) /\ Len(parts) = Len(k)
    <2>1. LastPart(k[b], left, r, Len(found) = 1) \in Children
      <3>1. k[b] \in ItemRecords /\ k[b].range.start \in Int /\ k[b].range.dur \in Int
        BY <1>2, ChildIs
      <3>2. /\ k[b].range.start + r.dur \in Int /\ left + r.start \in Int
            /\ k[b].range.start + left \in Int /\ k[b].range.dur - left \in Int
        BY <1>4, <3>1
      <3> HIDE DEF left
      <3>3. /\ Shows(k[b], k[b].range.start + r.dur, left + r.start) \in Children
            /\ Shows(k[b], k[b].range.start + left, k[b].range.dur - left) \in Children
        BY <3>1, <3>2, ShowsIs, ItemsAreChildren
      <3> QED BY <3>3 DEF LastPart
    <2>2. Shows(k[a], k[a].range.start, r.start - at[a].start) \in Children
      <3> DEFINE n == r.start - at[a].start
      <3>1. k[a] \in ItemRecords /\ k[a].range.start \in Int
        BY <1>2, ChildIs
      <3>2. n \in Int
        BY <1>3
      <3> HIDE DEF n, a
      <3>3. Shows(k[a], k[a].range.start, n) \in Children
        BY <3>1, <3>2, ShowsIs, ItemsAreChildren
      <3> QED BY <3>3 DEF n
    <2>3. \A i \in 1..Len(k) : k[i] \in Children
      OBVIOUS
    <2> HIDE DEF headStays, tailStays, left, a, b, at
    <2>4. \A i \in 1..Len(k) : parts[i] \in Children
      <3>1. SUFFICES ASSUME NEW i \in 1..Len(k) PROVE parts[i] \in Children
        OBVIOUS
      <3>2. CASE tailStays /\ i = b
        BY <1>2, <2>1, <3>2
      <3>3. CASE ~(tailStays /\ i = b) /\ headStays /\ i = a
        BY <1>2, <2>2, <3>3
      <3>4. CASE ~(tailStays /\ i = b) /\ ~(headStays /\ i = a)
        BY <1>2, <2>3, <3>4
      <3> QED BY <3>2, <3>3, <3>4
    <2>5. parts = [i \in 1..Len(k) |-> parts[i]]
      BY <1>2
    <2> HIDE DEF parts
    <2> QED BY <1>2, <2>4, <2>5
  <1>9. OverwriteAcross(k, found, c, r) = InsertChild(Uncovered(parts, covered), place, new)
    BY DEF OverwriteAcross
  <1> HIDE DEF parts, covered, place, new, headStays, tailStays, left, a, b, at
  <1> DEFINE u == Uncovered(parts, covered)
             w == InsertChild(u, place, new)
  <1>10. u \in Seq(Children) /\ Len(u) <= Len(k)
    BY <1>5, <1>8, UncoveredIs
  <1> HIDE DEF u
  <1>11. w \in Seq(Children) /\ Len(w) = Len(u) + 1
    <2>1. new \in Children /\ place \in Int /\ u \in Seq(Children)
      BY <1>6, <1>7, <1>10
    <2>2. IsInserted(w, u, place, new, Children)
      BY <2>1, InsertChildIs
    <2> QED BY <2>2 DEF IsInserted
  <1>12. OverwriteAcross(k, found, c, r) = w
    BY <1>9 DEF u
  <1> HIDE DEF w
  <1>13. Len(u) \in Nat
    BY <1>10
  <1>14. Len(w) <= Len(k) + 2
    BY <1>2, <1>10, <1>11, <1>13
  <1> QED BY <1>11, <1>12, <1>14 DEF Kept

LEMMA KeptIsTransitive ==
    ASSUME NEW k \in Seq(Children), NEW bare \in Seq(Children), Len(bare) <= Len(k),
           NEW after, Kept(bare, after)
    PROVE  Kept(k, after)
  <1>1. Len(k) \in Nat /\ Len(bare) \in Nat /\ Len(bare) + 2 <= Len(k) + 2
    OBVIOUS
  <1>2. after \in Seq(Children) /\ Len(after) <= Len(bare) + 2 /\ Len(after) \in Nat
    BY DEF Kept
  <1> QED BY <1>1, <1>2 DEF Kept

LEMMA OverwriteItemsKept ==
    ASSUME NEW k \in Seq(Children), Usable(k), NEW c \in ItemRecords,
           NEW r, r.start \in Int, r.dur \in Int
    PROVE  Tracked(k, OverwriteItems(k, c, r))
  <1> DEFINE found == ItemsIn(k, r)
             within == Len(found) = 1 /\ Holds(Places(k)[found[1]], r)
  <1>1. found \in Seq(Items(k))
    BY FoundIs
  <1>2. OverwriteItems(k, c, r) =
            IF found = <<>> THEN Refused("NOT_AN_ITEM", k)
            ELSE IF within THEN Done(OverwriteWithin(k, found[1], c, r))
            ELSE Done(OverwriteAcross(k, found, c, r))
    BY DEF OverwriteItems
  <1> HIDE DEF found
  <1>3. CASE found = <<>>
    <2>1. Tracked(k, Refused("NOT_AN_ITEM", k))
      BY SameIsKept, KeptByRefused DEF Statuses
    <2> QED BY <1>2, <1>3, <2>1
  <1>4. CASE found # <<>> /\ within
    <2>1. found[1] \in Items(k)
      BY <1>1, <1>4
    <2>2. found[1] \in 1..Len(k) /\ IsItem(k[found[1]])
      BY <2>1 DEF Items
    <2>3. Kept(k, OverwriteWithin(k, found[1], c, r))
      BY <2>2, OverwriteWithinKept
    <2>4. Tracked(k, Done(OverwriteWithin(k, found[1], c, r)))
      BY <2>3, KeptByDone
    <2> QED BY <1>2, <1>4, <2>4
  <1>5. CASE found # <<>> /\ ~within
    <2>1. Kept(k, OverwriteAcross(k, found, c, r))
      BY <1>1, <1>5, OverwriteAcrossKept
    <2>2. Tracked(k, Done(OverwriteAcross(k, found, c, r)))
      BY <2>1, KeptByDone
    <2> QED BY <1>2, <1>5, <2>2
  <1> QED BY <1>3, <1>4, <1>5

LEMMA OverwriteKept ==
    ASSUME NEW k \in Seq(Children), Usable(k), NEW c \in ItemRecords,
           NEW r, r.start \in Int, r.dur \in Int, NEW strip, NEW template \in Fillers
    PROVE  Tracked(k, Overwrite(k, c, r, strip, template))
  <1> DEFINE bare == IF strip THEN WithoutTransitions(k, r) ELSE k
  <1>1. bare \in Seq(Children) /\ Len(bare) <= Len(k) /\ Usable(bare)
    <2>1. Len(k) <= Len(k)
      OBVIOUS
    <2> QED BY <2>1, WithoutIs
  <1>2. Overwrite(k, c, r, strip, template) =
            IF r.start >= EndOf(k) THEN Done(OverwriteAfter(k, c, r.start, template))
            ELSE IF r.start < 0 /\ EndExclusive(r) < 0 THEN Done(OverwriteBefore(k, c, r, template))
            ELSE OverwriteItems(bare, c, r)
    BY DEF Overwrite
  <1> HIDE DEF bare
  <1>3. Tracked(k, Done(OverwriteAfter(k, c, r.start, template)))
    BY OverwriteAfterKept, KeptByDone
  <1>4. Tracked(k, Done(OverwriteBefore(k, c, r, template)))
    BY OverwriteBeforeKept, KeptByDone
  <1>5. Tracked(k, OverwriteItems(bare, c, r))
    BY <1>1, OverwriteItemsKept, KeptIsTransitive DEF Tracked
  <1> QED BY <1>2, <1>3, <1>4, <1>5

LEMMA InsertIntoKept ==
    ASSUME NEW k \in Seq(Children), NEW i \in 1..Len(k), IsItem(k[i]), NEW c \in ItemRecords,
           NEW t \in Int
    PROVE  Kept(k, InsertInto(k, i, c, t))
  <1> DEFINE at == Places(k)[i]
             old == k[i]
             first == t - at.start
             rest == EndExclusive(at) - t
             x == Shows(old, old.range.start, first)
             y == Shows(old, old.range.start + t + Duration(c), rest)
             a == Ahead(k, i)
             b == Behind(k, i)
             m == <<x, c, y>>
  <1>1. /\ old \in ItemRecords /\ old.range.start \in Int
        /\ first \in Int /\ rest \in Int
    BY ChildIs, PlaceIs DEF EndExclusive
  <1>2. c \in Children /\ Duration(c) \in Int
    BY ChildIs, ItemsAreChildren
  <1>3. x \in Children
    BY <1>1, ShowsIs, ItemsAreChildren
  <1>4. y \in Children
    <2>1. old.range.start + t + Duration(c) \in Int
      BY <1>1, <1>2
    <2> QED BY <1>1, <2>1, ShowsIs, ItemsAreChildren
  <1>5. InsertInto(k, i, c, t) = IF first = 0 THEN InsertChild(k, i - 1, c) ELSE a \o m \o b
    BY DEF InsertInto, Ahead, Behind
  <1>6. m \in Seq(Children) /\ Len(m) = 3
    <2> HIDE DEF x, y
    <2> QED BY <1>2, <1>3, <1>4
  <1>7. a \in Seq(Children) /\ b \in Seq(Children) /\ Len(a) = i - 1 /\ Len(b) = Len(k) - i
    BY SidesAre
  <1> HIDE DEF a, m, b, first
  <1> DEFINE w == a \o m \o b
  <1>8. InARow(w, a, m, b, Children)
    BY <1>6, <1>7, ThreeParts
  <1> HIDE DEF w
  <1>9. Kept(k, w)
    BY <1>6, <1>7, <1>8 DEF InARow, Kept
  <1>10. Kept(k, InsertChild(k, i - 1, c))
    <2>1. i - 1 \in Int /\ Len(k) \in Nat
      OBVIOUS
    <2>2. IsInserted(InsertChild(k, i - 1, c), k, i - 1, c, Children)
      BY <1>2, <2>1, InsertChildIs
    <2> QED BY <2>1, <2>2 DEF IsInserted, Kept
  <1> QED BY <1>5, <1>9, <1>10 DEF w

LEMMA FoundItem ==
    ASSUME NEW k \in Seq(Children), NEW t \in Int, FindsItem(k, t), NEW i, i = ChildAt(k, t)
    PROVE  i \in 1..Len(k) /\ IsItem(k[i]) /\ ContainsTime(Places(k)[i], t)
  BY ChildAtIs DEF FindsItem

LEMMA InsertKept ==
    ASSUME NEW k \in Seq(Children), Usable(k), NEW c \in ItemRecords,
           NEW t \in Int, NEW strip, NEW template \in Fillers
    PROVE  Tracked(k, Insert(k, c, t, strip, template))
  <1> DEFINE r == TimeRange(t, 1)
             bare == IF strip THEN WithoutTransitions(k, r) ELSE k
  <1>0. r.start \in Int /\ r.dur \in Int
    BY DEF TimeRange
  <1>1. bare \in Seq(Children) /\ Len(bare) <= Len(k)
    <2>1. Len(k) <= Len(k)
      OBVIOUS
    <2> QED BY <1>0, <2>1, WithoutIs
  <1>2. Insert(k, c, t, strip, template) =
            IF FindsItem(bare, t) THEN Done(InsertInto(bare, ChildAt(bare, t), c, t))
            ELSE InsertOutside(bare, c, t, template)
    BY DEF Insert
  <1> HIDE DEF bare
  <1>3. ASSUME FindsItem(bare, t)
        PROVE  Tracked(bare, Done(InsertInto(bare, ChildAt(bare, t), c, t)))
    BY <1>1, <1>3, FoundItem, InsertIntoKept, KeptByDone
  <1>4. Tracked(bare, InsertOutside(bare, c, t, template))
    <2>1. Tracked(bare, Done(OverwriteAfter(bare, c, t, template)))
      BY <1>1, OverwriteAfterKept, KeptByDone
    <2>2. Tracked(bare, Done(<<c>> \o bare))
      <3>1. <<c>> \in Seq(Children) /\ Len(<<c>>) = 1 /\ Len(bare) \in Nat
        BY <1>1, ItemsAreChildren
      <3> DEFINE w == <<c>> \o bare
      <3>2. IsJoin(w, <<c>>, bare, Children)
        BY <1>1, <3>1, JoinIs
      <3> HIDE DEF w
      <3>3. Kept(bare, w)
        BY <3>1, <3>2 DEF IsJoin, Kept
      <3>4. Tracked(bare, Done(w))
        BY <3>3, KeptByDone
      <3> QED BY <3>4 DEF w
    <2>3. Tracked(bare, Refused("INTERNAL_ERROR", bare))
      BY <1>1, SameIsKept, KeptByRefused DEF Statuses
    <2> QED BY <2>1, <2>2, <2>3 DEF InsertOutside
  <1>5. Tracked(bare, Insert(k, c, t, strip, template))
    BY <1>2, <1>3, <1>4
  <1> QED BY <1>1, <1>5, KeptIsTransitive DEF Tracked

LEMMA SliceItemKept ==
    ASSUME NEW k \in Seq(Children), NEW i \in 1..Len(k), IsItem(k[i]), NEW t \in Int,
           NEW strip
    PROVE  Tracked(k, SliceItem(k, i, t, strip))
  <1> DEFINE n == t - Places(k)[i].start
             cut == CutBy(k, i, t)
             cutItem == [k EXCEPT ![i].range.dur = n]
             before == IF i + 1 \in cut THEN RemoveAt(cutItem, i + 1) ELSE cutItem
             bare == IF i - 1 \in cut THEN RemoveAt(before, i - 1) ELSE before
             y == Shows(k[i], k[i].range.start + n, Duration(k[i]) - n)
  <1>1. n \in Int /\ Len(k) \in Nat
    BY PlaceIs
  <1>2. SliceItem(k, i, t, strip) =
            IF n = 0 THEN Done(k)
            ELSE IF cut # {} /\ ~strip THEN Refused("CANNOT_TRIM_TRANSITION", k)
            ELSE Done(InsertChild(bare, i, y))
    BY DEF SliceItem
  <1>3. cut \subseteq 1..Len(k)
    BY DEF CutBy
  <1>4. y \in Children
    <2>1. k[i] \in ItemRecords /\ k[i].range.start \in Int /\ Duration(k[i]) \in Int
      BY ChildIs
    <2>2. k[i].range.start + n \in Int /\ Duration(k[i]) - n \in Int
      BY <1>1, <2>1
    <2> HIDE DEF n
    <2> DEFINE c == k[i]
               start == k[i].range.start + n
               dur == Duration(k[i]) - n
    <2>3. c \in ItemRecords /\ start \in Int /\ dur \in Int
      BY <2>1, <2>2
    <2>4. y = Shows(c, start, dur)
      OBVIOUS
    <2> HIDE DEF c, start, dur, y
    <2>5. Shows(c, start, dur) \in Children
      BY <2>3, ShowsIs, ItemsAreChildren
    <2> QED BY <2>4, <2>5
  <1>5. cutItem \in Seq(Children) /\ Len(cutItem) = Len(k)
    <2> HIDE DEF n
    <2>1. cutItem = Reranged(k, i, k[i].range.start, n)
      BY <1>1, ExceptDur
    <2>2. k[i].range.start \in Int
      BY ChildIs
    <2> DEFINE s0 == k[i].range.start
    <2>3. cutItem = Reranged(k, i, s0, n) /\ s0 \in Int
      BY <2>1, <2>2
    <2> HIDE DEF s0, cutItem
    <2>4. Reranged(k, i, s0, n) \in Seq(Children) /\ Len(Reranged(k, i, s0, n)) = Len(k)
      BY <1>1, <2>3, RerangedIs
    <2> QED BY <2>3, <2>4
  <1> HIDE DEF n, cut, cutItem, y
  <1>6. before \in Seq(Children) /\ Len(before) <= Len(k)
        /\ (i + 1 \in cut => Len(before) = Len(k) - 1) /\ (i + 1 \notin cut => Len(before) = Len(k))
    <2>1. CASE i + 1 \in cut
      <3>1. i + 1 \in 1..Len(cutItem)
        BY <1>3, <1>5, <2>1
      <3>2. before = RemoveAt(cutItem, i + 1)
        BY <2>1
      <3>3. before \in Seq(Children) /\ Len(before) = Len(cutItem) - 1
        BY <1>5, <3>1, <3>2, RemovedIs
      <3> HIDE DEF before
      <3> QED BY <1>1, <1>5, <2>1, <3>3
    <2>2. CASE i + 1 \notin cut
      BY <1>1, <1>5, <2>2
    <2> QED BY <2>1, <2>2
  <1>7. bare \in Seq(Children) /\ Len(bare) <= Len(k)
    <2>1. CASE i - 1 \in cut
      <3>1. i - 1 \in 1..Len(before)
        <4> HIDE DEF before
        <4>1. i - 1 \in 1..Len(k)
          BY <1>3, <2>1
        <4> QED BY <1>1, <1>6, <4>1
      <3> HIDE DEF before
      <3>2. bare = RemoveAt(before, i - 1)
        BY <2>1
      <3>3. bare \in Seq(Children) /\ Len(bare) = Len(before) - 1
        BY <1>6, <3>1, <3>2, RemovedIs
      <3> HIDE DEF bare
      <3>4. Len(before) \in Nat
        BY <1>6
      <3> QED BY <1>1, <1>6, <3>3, <3>4
    <2>2. CASE i - 1 \notin cut
      BY <1>6, <2>2
    <2> QED BY <2>1, <2>2
  <1> HIDE DEF bare
  <1>8. Kept(k, InsertChild(bare, i, y))
    <2>1. IsInserted(InsertChild(bare, i, y), bare, i, y, Children)
      BY <1>4, <1>7, InsertChildIs
    <2>2. Len(bare) \in Nat
      BY <1>7
    <2> QED BY <1>1, <1>7, <2>1, <2>2 DEF IsInserted, Kept
  <1>9. Tracked(k, Done(k)) /\ Tracked(k, Refused("CANNOT_TRIM_TRANSITION", k))
    BY SameIsKept, KeptByDone, KeptByRefused DEF Statuses
  <1>10. Tracked(k, Done(InsertChild(bare, i, y)))
    BY <1>8, KeptByDone
  <1> QED BY <1>2, <1>9, <1>10

LEMMA SliceKept ==
    ASSUME NEW k \in Seq(Children), NEW t \in Int, NEW strip
    PROVE  Tracked(k, Slice(k, t, strip))
  <1>1. Tracked(k, Refused("NOT_AN_ITEM", k))
    BY SameIsKept, KeptByRefused DEF Statuses
  <1>2. ASSUME FindsItem(k, t) PROVE Tracked(k, SliceItem(k, ChildAt(k, t), t, strip))
    BY <1>2, FoundItem, SliceItemKept
  <1> QED BY <1>1, <1>2 DEF Slice

LEMMA RemoveKept ==
    ASSUME NEW k \in Seq(Children), NEW t \in Int, NEW fill, NEW template \in Fillers
    PROVE  Tracked(k, RemoveAtTime(k, t, fill, template))
  <1> DEFINE i == ChildAt(k, t)
             filler == IF template = NULL THEN Gap(k[i].range) ELSE template
  <1>1. Tracked(k, Refused("NOT_AN_ITEM", k))
    BY SameIsKept, KeptByRefused DEF Statuses
  <1>2. ASSUME FindsItem(k, t) PROVE Tracked(k, Done(RemoveItem(k, i, fill, template)))
    <2>1. i \in 1..Len(k) /\ IsItem(k[i]) /\ Len(k) \in Nat
      BY <1>2, FoundItem
    <2>2. filler \in Children
      <3>1. k[i].range \in Span
        BY <2>1, ChildIs
      <3>2. Gap(k[i].range) \in Children
        BY <3>1, GapIs, ItemsAreChildren
      <3>3. template # NULL => template \in Children
        <4>1. \A r \in Sources : r \in Span
          BY EditAssumption DEF Span
        <4> QED BY <4>1, GapIs, ItemsAreChildren DEF Fillers
      <3> QED BY <3>2, <3>3
    <2>3. RemoveItem(k, i, fill, template) = IF fill THEN ReplaceAt(k, i, filler) ELSE RemoveAt(k, i)
      BY DEF RemoveItem
    <2> HIDE DEF i, filler
    <2>4. Kept(k, ReplaceAt(k, i, filler))
      <3>1. IsExchange(ReplaceAt(k, i, filler), k, i, filler, Children)
        BY <2>1, <2>2, ExchangeIs DEF ReplaceAt
      <3> QED BY <2>1, <3>1 DEF IsExchange, Kept
    <2>5. Kept(k, RemoveAt(k, i))
      <3>1. RemoveAt(k, i) \in Seq(Children) /\ Len(RemoveAt(k, i)) = Len(k) - 1
        BY <2>1, RemovedIs
      <3>2. Len(k) - 1 <= Len(k) + 2
        BY <2>1
      <3> QED BY <3>1, <3>2, Zenon DEF Kept
    <2> QED BY <2>3, <2>4, <2>5, KeptByDone
  <1> QED BY <1>1, <1>2 DEF RemoveAtTime

--------------------------------------------------------------------------------
(* The edits of the item at a place.                                           *)

\* An edit of items that are at their places already.
Same(k, after) == after \in Seq(Children) /\ Len(after) = Len(k)

LEMMA SameIs ==
    ASSUME NEW k \in Seq(Children), NEW after, Same(k, after)
    PROVE  Kept(k, after)
  <1>1. Len(k) \in Nat
    OBVIOUS
  <1> QED BY <1>1 DEF Same, Kept

\* Still an item after another child has been changed.
LEMMA ItemsStay ==
    ASSUME NEW k \in Seq(Children), NEW i \in 1..Len(k), IsItem(k[i]),
           NEW start \in Int, NEW dur \in Int
    PROVE  /\ Same(k, Reranged(k, i, start, dur))
           /\ Reranged(k, i, start, dur)[i] = Shows(k[i], start, dur)
           /\ \A j \in 1..Len(k) : IsItem(k[j]) => IsItem(Reranged(k, i, start, dur)[j])
  <1> DEFINE w == Reranged(k, i, start, dur)
             x == Shows(k[i], start, dur)
  <1>1. IsExchange(w, k, i, x, Children) /\ x.kind = k[i].kind
    BY RerangedIs, ShowsIs
  <1>2. Same(k, w)
    BY RerangedIs DEF Same
  <1> HIDE DEF w, x
  <1>3. ASSUME NEW j \in 1..Len(k), IsItem(k[j]) PROVE IsItem(w[j])
    BY <1>1, <1>3 DEF IsExchange, IsItem
  <1> QED BY <1>1, <1>2, <1>3 DEF IsExchange, w, x

LEMMA TrimHeadIs ==
    ASSUME NEW k \in Seq(Children), NEW i \in 1..Len(k), IsItem(k[i]), NEW din \in Int,
           din # 0 => ItemAt(k, i - 1)
    PROVE  /\ Same(k, TrimHead(k, i, din)) /\ IsItem(TrimHead(k, i, din)[i])
           /\ din = 0 => TrimHead(k, i, din) = k
  <1> DEFINE k1 == IF din # 0 /\ i > 1 THEN Stretch(k, i - 1, din) ELSE k
  <1>1. Same(k, k1) /\ IsItem(k1[i])
    <2>1. CASE din # 0 /\ i > 1
      <3>1. i - 1 \in 1..Len(k) /\ DOMAIN k = 1..Len(k)
        BY <2>1
      <3>2. IsItem(k[i - 1])
        BY <2>1, <3>1 DEF ItemAt
      <3> DEFINE j == i - 1
      <3>3. j \in 1..Len(k) /\ IsItem(k[j]) /\ k1 = Stretch(k, j, din)
        BY <2>1, <3>1, <3>2
      <3> HIDE DEF j, k1
      <3> DEFINE s0 == k[j].range.start
                 n0 == k[j].range.dur + din
      <3>4. k1 = Reranged(k, j, s0, n0) /\ s0 \in Int /\ n0 \in Int
        BY <3>3, StretchIs
      <3> HIDE DEF s0, n0
      <3> QED BY <3>3, <3>4, ItemsStay
    <2>2. CASE ~(din # 0 /\ i > 1)
      BY <2>2 DEF Same
    <2> QED BY <2>1, <2>2
  <1>2. TrimHead(k, i, din) = [k1 EXCEPT ![i].range = TimeRange(@.start + din, @.dur - din)]
    BY DEF TrimHead
  <1>3. din = 0 => k1 = k
    OBVIOUS
  <1> HIDE DEF k1
  <1> DEFINE s == k1[i].range.start + din
             n == k1[i].range.dur - din
  <1>4. k1 \in Seq(Children) /\ i \in 1..Len(k1) /\ IsItem(k1[i]) /\ s \in Int /\ n \in Int
    <2>1. k1 \in Seq(Children) /\ i \in 1..Len(k1)
      BY <1>1 DEF Same
    <2>2. k1[i] \in Children
      BY <2>1
    <2>3. k1[i].range.start \in Int /\ k1[i].range.dur \in Int
      BY <1>1, <2>2, ChildIs
    <2> QED BY <1>1, <2>1, <2>3
  <1>5. TrimHead(k, i, din) = [k1 EXCEPT ![i].range = TimeRange(s, n)]
    BY <1>2
  <1>6. din = 0 => s = k[i].range.start /\ n = k[i].range.dur
    BY <1>3, ChildIs
  <1> HIDE DEF s, n
  <1>7. TrimHead(k, i, din) = Reranged(k1, i, s, n)
    BY <1>4, <1>5, ExceptRange
  <1>8. Same(k1, TrimHead(k, i, din)) /\ IsItem(TrimHead(k, i, din)[i])
    BY <1>4, <1>7, ItemsStay
  <1>9. ASSUME din = 0 PROVE TrimHead(k, i, din) = k
    <2>1. k[i] \in ItemRecords
      BY ChildIs
    <2>2. Shows(k[i], k[i].range.start, k[i].range.dur) = k[i]
      BY <2>1, ChildIs DEF Shows, ItemRecords, ItemsOf, TimeRange, Span
    <2>3. TrimHead(k, i, din) = [k EXCEPT ![i] = k[i]]
      BY <1>3, <1>6, <1>7, <1>9, <2>2 DEF Reranged
    <2> QED BY <2>3
  <1> QED BY <1>1, <1>8, <1>9 DEF Same

\* As many children, and items where there were items.
SameShape(k, w) == Same(k, w) /\ \A j \in 1..Len(k) : IsItem(k[j]) => IsItem(w[j])

LEMMA ShapeIs ==
    /\ \A k \in Seq(Children) : SameShape(k, k)
    /\ \A k, v, w : SameShape(k, v) /\ SameShape(v, w) => SameShape(k, w)
  <1>1. \A k \in Seq(Children) : SameShape(k, k)
    BY DEF SameShape, Same
  <1>2. ASSUME NEW k, NEW v, NEW w, SameShape(k, v), SameShape(v, w) PROVE SameShape(k, w)
    <2>1. Len(v) = Len(k) /\ w \in Seq(Children) /\ Len(w) = Len(k)
      BY <1>2, Zenon DEF SameShape, Same
    <2>2. \A j \in 1..Len(k) : IsItem(k[j]) => IsItem(w[j])
      BY <1>2, <2>1, Zenon DEF SameShape
    <2> QED BY <2>1, <2>2, Zenon DEF SameShape, Same
  <1> QED BY <1>1, <1>2

LEMMA RerangedShape ==
    ASSUME NEW k \in Seq(Children), NEW i \in 1..Len(k), IsItem(k[i]),
           NEW start \in Int, NEW dur \in Int
    PROVE  SameShape(k, Reranged(k, i, start, dur))
  BY ItemsStay DEF SameShape

LEMMA StretchShape ==
    ASSUME NEW k \in Seq(Children), NEW i \in 1..Len(k), IsItem(k[i]), NEW by \in Int
    PROVE  SameShape(k, Stretch(k, i, by))
  <1> DEFINE s == k[i].range.start
             n == k[i].range.dur + by
  <1>1. Stretch(k, i, by) = Reranged(k, i, s, n) /\ s \in Int /\ n \in Int
    BY StretchIs
  <1> HIDE DEF s, n
  <1> QED BY <1>1, RerangedShape

\* An item that is given another range which is reckoned from the old one.
LEMMA MovedShape ==
    ASSUME NEW k \in Seq(Children), NEW i \in 1..Len(k), IsItem(k[i]), NEW w, NEW s \in Int,
           NEW n \in Int, w = [k EXCEPT ![i].range = TimeRange(s, n)]
    PROVE  SameShape(k, w)
  <1>1. w = Reranged(k, i, s, n)
    BY ExceptRange
  <1>2. SameShape(k, Reranged(k, i, s, n))
    BY RerangedShape
  <1> QED BY <1>1, <1>2, Zenon

LEMMA ShapeIsKept ==
    ASSUME NEW k \in Seq(Children), NEW w, SameShape(k, w)
    PROVE  Kept(k, w)
  BY SameIs DEF SameShape

\* What an item at a place has.
LEMMA ItemIs ==
    ASSUME NEW k \in Seq(Children), NEW i \in 1..Len(k), IsItem(k[i])
    PROVE  /\ k[i] \in ItemRecords /\ k[i] \in Children /\ k[i].range \in Span
           /\ k[i].range.start \in Int /\ k[i].range.dur \in Int
           /\ Duration(k[i]) = k[i].range.dur /\ Long(k[i]) = k[i].range.dur
           /\ AvailableRange(k[i]).start \in Int /\ AvailableRange(k[i]).dur \in Nat
  <1>1. k[i] \in Children
    OBVIOUS
  <1>2. AvailableRange(k[i]).start \in Int /\ AvailableRange(k[i]).dur \in Nat
    BY <1>1, AvailableIs
  <1>3. /\ k[i] \in ItemRecords /\ k[i].range \in Span
        /\ k[i].range.start \in Int /\ k[i].range.dur \in Int
        /\ Duration(k[i]) = k[i].range.dur /\ Long(k[i]) = k[i].range.dur
    BY <1>1, ChildIs
  <1> QED BY <1>1, <1>2, <1>3

LEMMA TrimTailKept ==
    ASSUME NEW k \in Seq(Children), NEW i \in 1..Len(k), IsItem(k[i]), NEW dout \in Int,
           NEW template \in Fillers
    PROVE  Kept(k, TrimTail(k, i, dout, template))
  <1> DEFINE k1 == Stretch(k, i, dout)
             x == Filler(template, 0 - dout)
             stays == dout = 0 \/ i = Len(k) \/ (dout > 0 /\ ~IsGapAt(k, i + 1))
             moved == [k1 EXCEPT ![i + 1].range = TimeRange(@.start - dout, @.dur + dout)]
  <1>1. TrimTail(k, i, dout, template) =
            IF stays THEN k ELSE IF dout > 0 THEN k1
            ELSE IF IsGapAt(k, i + 1) THEN moved ELSE InsertAt(k1, i + 1, x)
    BY DEF TrimTail
  <1>2. SameShape(k, k1) /\ Len(k) \in Nat
    BY StretchShape
  <1>3. k1 \in Seq(Children) /\ Len(k1) = Len(k)
    BY <1>2 DEF SameShape, Same
  <1>4. x \in Children
    BY FillerIs
  <1> HIDE DEF k1, x
  <1>5. ASSUME ~stays, IsGapAt(k, i + 1) PROVE Kept(k, moved)
    <2> DEFINE j == i + 1
               s == k1[j].range.start - dout
               n == k1[j].range.dur + dout
    <2>1. j \in 1..Len(k) /\ IsItem(k[j])
      BY <1>5 DEF IsGapAt, IsItem
    <2>2. j \in 1..Len(k1) /\ IsItem(k1[j])
      BY <1>2, <1>3, <2>1 DEF SameShape
    <2>3. moved = [k1 EXCEPT ![j].range = TimeRange(s, n)]
      OBVIOUS
    <2> HIDE DEF j
    <2>4. s \in Int /\ n \in Int
      BY <1>3, <2>2, ItemIs
    <2> HIDE DEF s, n, moved
    <2>5. SameShape(k1, moved)
      BY <1>3, <2>2, <2>3, <2>4, MovedShape
    <2>6. SameShape(k, moved)
      BY <1>2, <2>5, ShapeIs
    <2> QED BY <2>6, ShapeIsKept
  <1>6. ASSUME ~stays PROVE Kept(k, InsertAt(k1, i + 1, x))
    <2> HIDE DEF stays
    <2>1. i + 1 \in 1..(Len(k1) + 1)
      BY <1>2, <1>3
    <2>2. InsertAt(k1, i + 1, x) \in Seq(Children) /\ Len(InsertAt(k1, i + 1, x)) = Len(k1) + 1
      BY <1>3, <1>4, <2>1, InsertedIs
    <2>3. Len(k1) + 1 <= Len(k) + 2
      BY <1>2, <1>3
    <2> QED BY <2>2, <2>3, Zenon DEF Kept
  <1>7. Kept(k, k) /\ Kept(k, k1)
    BY <1>2, SameIsKept, ShapeIsKept
  <1> HIDE DEF stays, moved
  <1> QED BY <1>1, <1>5, <1>6, <1>7

LEMMA TrimKept ==
    ASSUME NEW k \in Seq(Children), NEW i \in 1..Len(k), IsItem(k[i]), NEW din \in Int,
           NEW dout \in Int, NEW template \in Fillers, din # 0 => ItemAt(k, i - 1)
    PROVE  Tracked(k, Trim(k, i, din, dout, template))
  <1> DEFINE h == TrimHead(k, i, din)
  <1>1. Same(k, h) /\ IsItem(h[i]) /\ Len(k) \in Nat
    BY TrimHeadIs
  <1> HIDE DEF h
  <1>2. h \in Seq(Children) /\ Len(h) = Len(k) /\ Len(h) <= Len(k)
    BY <1>1 DEF Same
  <1>3. Kept(h, TrimTail(h, i, dout, template))
    BY <1>1, <1>2, TrimTailKept
  <1>4. Kept(k, TrimTail(h, i, dout, template))
    BY <1>2, <1>3, KeptIsTransitive
  <1>5. Tracked(k, Done(TrimTail(h, i, dout, template)))
    BY <1>4, KeptByDone
  <1> QED BY <1>5 DEF Trim, h

LEMMA SlipKept ==
    ASSUME NEW k \in Seq(Children), NEW i \in 1..Len(k), IsItem(k[i]), NEW d \in Int
    PROVE  Tracked(k, Slip(k, i, d))
  <1> DEFINE a == AvailableRange(k[i])
             start == k[i].range.start + d
             over == start + Duration(k[i]) - EndExclusive(a)
             s == IF a.dur = 0 THEN start
                  ELSE IF start < a.start THEN a.start
                  ELSE IF over > 0 THEN start - over
                  ELSE start
             w == [k EXCEPT ![i].range.start = s]
  <1>1. Slip(k, i, d) = Done(w)
    BY DEF Slip
  <1>2. s \in Int
    <2>1. start \in Int /\ a.start \in Int /\ a.dur \in Int /\ Duration(k[i]) \in Int
      BY ItemIs
    <2> HIDE DEF a, start
    <2>2. over \in Int
      BY <2>1 DEF EndExclusive
    <2> QED BY <2>1, <2>2
  <1> HIDE DEF s, w
  <1>3. w = Reranged(k, i, s, k[i].range.dur) /\ k[i].range.dur \in Int
    BY <1>2, ItemIs, ExceptStart DEF w
  <1>4. SameShape(k, w)
    BY <1>2, <1>3, RerangedShape
  <1> QED BY <1>1, <1>4, ShapeIsKept, KeptByDone

LEMMA ReachIs ==
    ASSUME NEW c \in Children, IsItem(c), NEW d \in Int
    PROVE  Reach(c, d) \in Int
  BY ChildIs, AvailableIs DEF Reach

LEMMA SlideKept ==
    ASSUME NEW k \in Seq(Children), NEW i \in 1..Len(k), IsItem(k[i]), NEW d \in Int,
           ItemAt(k, i - 1)
    PROVE  Tracked(k, Slide(k, i, d))
  <1>1. Tracked(k, Done(k))
    BY SameIsKept, KeptByDone
  <1>2. CASE i = 1
    BY <1>1, <1>2 DEF Slide
  <1>3. CASE i # 1
    <2> DEFINE j == i - 1
               by == IF d < 0 THEN d ELSE Reach(k[j], d)
    <2>1. j \in 1..Len(k) /\ IsItem(k[j])
      BY <1>3 DEF ItemAt
    <2>2. by \in Int
      <3>1. k[j] \in Children
        BY <2>1
      <3> HIDE DEF j
      <3> QED BY <2>1, <3>1, ReachIs
    <2>3. Slide(k, i, d) = Done(k) \/ Slide(k, i, d) = Done(Stretch(k, j, by))
      BY DEF Slide
    <2> HIDE DEF j, by
    <2>4. Tracked(k, Done(Stretch(k, j, by)))
      BY <2>1, <2>2, StretchShape, ShapeIsKept, KeptByDone
    <2> QED BY <1>1, <2>3, <2>4
  <1> QED BY <1>2, <1>3

LEMMA RippleKept ==
    ASSUME NEW k \in Seq(Children), NEW i \in 1..Len(k), IsItem(k[i]), NEW din \in Int,
           NEW dout \in Int
    PROVE  Tracked(k, Ripple(k, i, din, dout))
  <1> DEFINE in == RippleIn(k[i].range, din)
             out == IF dout > 0 THEN Reach(k[i], dout) ELSE dout
             s == k[i].range.start + in
             n == k[i].range.dur - in + out
             w == [k EXCEPT ![i].range = TimeRange(s, n)]
  <1>1. Ripple(k, i, din, dout) = Done(w)
    BY DEF Ripple
  <1>2. k[i].range.start \in Int /\ k[i].range.dur \in Int
    BY ItemIs
  <1>3. in \in Int
    BY <1>2 DEF RippleIn, EndExclusive
  <1>4. out \in Int
    BY ItemIs, ReachIs
  <1> HIDE DEF in, out
  <1>5. s \in Int /\ n \in Int
    BY <1>2, <1>3, <1>4
  <1> HIDE DEF s, n
  <1>6. SameShape(k, w)
    BY <1>5, MovedShape
  <1> HIDE DEF w
  <1> QED BY <1>1, <1>6, ShapeIsKept, KeptByDone

LEMMA RollInShape ==
    ASSUME NEW k \in Seq(Children), NEW i \in 1..Len(k), IsItem(k[i]), NEW din \in Int,
           din # 0 => ItemAt(k, i - 1)
    PROVE  SameShape(k, RollIn(k, i, din))
  <1> DEFINE r == k[i].range
             a == AvailableRange(k[i])
             in == RollBack(k, i, IF 0 - din > r.start THEN 0 - r.start ELSE din)
             start == IF a.dur # 0 /\ r.start + in < a.start THEN a.start ELSE r.start + in
             n == EndExclusive(r) - start
             k1 == IF i > 1 THEN Stretch(k, i - 1, in) ELSE k
             w == [k1 EXCEPT ![i].range = TimeRange(start, n)]
  <1>1. CASE din = 0
    BY <1>1, ShapeIs DEF RollIn
  <1>2. CASE din # 0
    <2>1. RollIn(k, i, din) = w
      BY <1>2 DEF RollIn, FromStartEnd
    <2>2. r.start \in Int /\ r.dur \in Int /\ a.start \in Int /\ a.dur \in Int
      BY ItemIs
    <2>3. i > 1 => i - 1 \in 1..Len(k) /\ IsItem(k[i - 1])
      BY <1>2 DEF ItemAt
    <2>4. i > 1 => Duration(k[i - 1]) \in Int
      BY <2>3, ItemIs
    <2> DEFINE d == IF 0 - din > r.start THEN 0 - r.start ELSE din
    <2>5. d \in Int
      BY <2>2
    <2>6. in \in Int
      <3> HIDE DEF d
      <3>1. RollBack(k, i, d) \in Int
        BY <2>4, <2>5 DEF RollBack
      <3> QED BY <3>1 DEF d
    <2> HIDE DEF r, a, in, d
    <2>7. start \in Int /\ n \in Int
      BY <2>2, <2>6 DEF EndExclusive
    <2>8. SameShape(k, k1)
      <3>1. CASE i > 1
        <4> DEFINE j == i - 1
        <4>1. j \in 1..Len(k) /\ IsItem(k[j]) /\ k1 = Stretch(k, j, in)
          BY <2>3, <3>1
        <4> HIDE DEF j, k1
        <4> QED BY <2>6, <4>1, StretchShape
      <3>2. CASE ~(i > 1)
        BY <3>2, ShapeIs
      <3> QED BY <3>1, <3>2
    <2> HIDE DEF start, n, k1
    <2>9. k1 \in Seq(Children) /\ i \in 1..Len(k1) /\ IsItem(k1[i])
      BY <2>8 DEF SameShape, Same
    <2>10. SameShape(k1, w)
      BY <2>7, <2>9, MovedShape
    <2> HIDE DEF w
    <2> QED BY <2>1, <2>8, <2>10, ShapeIs
  <1> QED BY <1>1, <1>2

LEMMA RollOutShape ==
    ASSUME NEW k \in Seq(Children), NEW i \in 1..Len(k), IsItem(k[i]), NEW dout \in Int,
           dout # 0 => ItemAt(k, i + 1)
    PROVE  SameShape(k, RollOut(k, i, dout))
  <1> DEFINE j == i + 1
             next == k[i + 1].range
             least == IF AvailableRange(k[i]).dur # 0 THEN AvailableRange(k[i + 1]).start ELSE next.start
             out == IF 0 - dout > least THEN 0 - least ELSE dout
             k1 == Stretch(k, i, out)
  <1>1. RollOut(k, i, dout) =
            IF dout = 0 \/ i = Len(k) THEN k ELSE [k1 EXCEPT ![j].range.start = @ + out]
    BY DEF RollOut
  <1>2. CASE dout = 0 \/ i = Len(k)
    BY <1>1, <1>2, ShapeIs
  <1>3. CASE ~(dout = 0 \/ i = Len(k))
    <2>1. j \in 1..Len(k) /\ IsItem(k[j])
      BY <1>3 DEF ItemAt
    <2>2. k[j].range.start \in Int /\ AvailableRange(k[j]).start \in Int
      <3> HIDE DEF j
      <3> QED BY <2>1, ItemIs
    <2>3. least \in Int
      BY <2>2
    <2> HIDE DEF least
    <2>4. out \in Int
      BY <2>3
    <2> HIDE DEF out
    <2>5. SameShape(k, k1)
      BY <2>4, StretchShape
    <2> HIDE DEF k1
    <2>6. k1 \in Seq(Children) /\ j \in 1..Len(k1) /\ IsItem(k1[j])
      BY <2>1, <2>5 DEF SameShape, Same
    <2> DEFINE s == k1[j].range.start + out
               w == [k1 EXCEPT ![j].range.start = s]
    <2>7. RollOut(k, i, dout) = w
      BY <1>1, <1>3
    <2> HIDE DEF j
    <2>8. s \in Int /\ k1[j].range.dur \in Int
      BY <2>4, <2>6, ItemIs
    <2> HIDE DEF s
    <2>9. w = Reranged(k1, j, s, k1[j].range.dur)
      BY <2>6, <2>8, ExceptStart
    <2> HIDE DEF w
    <2>10. SameShape(k1, w)
      BY <2>6, <2>8, <2>9, RerangedShape
    <2> QED BY <2>5, <2>7, <2>10, ShapeIs
  <1> QED BY <1>2, <1>3

LEMMA RollKept ==
    ASSUME NEW k \in Seq(Children), NEW i \in 1..Len(k), IsItem(k[i]), NEW din \in Int,
           NEW dout \in Int, din # 0 => ItemAt(k, i - 1), dout # 0 => ItemAt(k, i + 1)
    PROVE  Tracked(k, Roll(k, i, din, dout))
  <1> DEFINE h == RollIn(k, i, din)
  <1>1. SameShape(k, h)
    BY RollInShape
  <1> HIDE DEF h
  <1>2. /\ h \in Seq(Children) /\ i \in 1..Len(h) /\ IsItem(h[i])
        /\ DOMAIN h = 1..Len(k) /\ DOMAIN k = 1..Len(k)
    BY <1>1 DEF SameShape, Same
  <1>3. dout # 0 => ItemAt(h, i + 1)
    BY <1>1, <1>2 DEF ItemAt, SameShape
  <1>4. SameShape(h, RollOut(h, i, dout))
    BY <1>2, <1>3, RollOutShape
  <1>5. SameShape(k, RollOut(h, i, dout))
    BY <1>1, <1>4, ShapeIs
  <1>6. Tracked(k, Done(RollOut(h, i, dout)))
    BY <1>5, ShapeIsKept, KeptByDone
  <1> QED BY <1>6 DEF Roll, h

LEMMA FillKept ==
    ASSUME NEW k \in Seq(Children), Usable(k), NEW c \in Templates, NEW t \in Int,
           NEW reference \in {"Source", "Sequence", "Fit"}
    PROVE  Tracked(k, Fill(k, c, t, reference))
  <1> DEFINE i == ChildAt(k, t)
  <1>1. c \in ItemRecords /\ c.range.start \in Int /\ c.range.dur \in Int /\ c.range \in Span
    BY TemplateIs, ChildIs, ItemsAreChildren
  <1>2. NULL \in Fillers
    BY DEF Fillers
  <1>3. CASE ~IsGapAt(k, i)
    <2>1. Tracked(k, Refused("NOT_A_GAP", k))
      BY SameIsKept, KeptByRefused DEF Statuses
    <2> QED BY <1>3, <2>1 DEF Fill
  <1>4. CASE IsGapAt(k, i)
    <2>1. /\ i \in 1..Len(k) /\ IsItem(k[i])
      BY <1>4 DEF IsGapAt, IsItem
    <2>2. k[i].range.start \in Int /\ k[i].range.dur \in Int
      <3> HIDE DEF i
      <3> QED BY <2>1, ItemIs
    <2>3. EndExclusive(Places(k)[i]) \in Int
      <3> HIDE DEF i
      <3> QED BY <2>1, PlaceIs DEF EndExclusive
    <2>4. Tracked(k, FillSequence(k, i, c, t))
      <3> DEFINE gap == k[i].range
                 start == Later(c.range.start, gap.start)
                 n == IF EndExclusive(c.range) > EndExclusive(gap) THEN EndExclusive(gap) - start
                      ELSE c.range.dur - (start - c.range.start)
                 rest == EndExclusive(Places(k)[i]) - t
                 x == Shows(c, start, n)
                 r == TimeRange(t, Earlier(n, rest))
      <3>1. FillSequence(k, i, c, t) = Overwrite(k, x, r, TRUE, NULL)
        BY DEF FillSequence
      <3> HIDE DEF i
      <3>2. start \in Int /\ n \in Int /\ rest \in Int
        <4> DEFINE g == c.range
                   e == EndExclusive(Places(k)[i])
        <4>1. /\ g.start \in Int /\ g.dur \in Int /\ gap.start \in Int /\ gap.dur \in Int
              /\ e \in Int
          BY <1>1, <2>2, <2>3
        <4> HIDE DEF g, gap, e
        <4>2. /\ Later(g.start, gap.start) \in Int /\ EndExclusive(g) \in Int
              /\ EndExclusive(gap) \in Int
          BY <4>1 DEF Later, EndExclusive
        <4>3. start \in Int
          BY <4>2 DEF g
        <4> HIDE DEF start
        <4>4. /\ EndExclusive(gap) - start \in Int /\ g.dur - (start - g.start) \in Int
              /\ e - t \in Int
          BY <4>1, <4>2, <4>3
        <4> QED BY <4>3, <4>4 DEF g, e
      <3> HIDE DEF start, n, rest
      <3>3. r.start \in Int /\ r.dur \in Int
        BY <3>2 DEF TimeRange, Earlier
      <3>4. x \in ItemRecords
        BY <1>1, <3>2, ShowsIs
      <3> HIDE DEF r, x
      <3>5. Tracked(k, Overwrite(k, x, r, TRUE, NULL))
        BY <1>2, <3>3, <3>4, OverwriteKept
      <3> QED BY <3>1, <3>5
    <2>5. Tracked(k, FillFit(k, i, c, t))
      <3> DEFINE plain == [Gap(c.range) EXCEPT !.kind = "item", !.warped = TRUE]
                 r == TimeRange(t, EndExclusive(Places(k)[i]) - t)
      <3>1. FillFit(k, i, c, t) = Overwrite(k, plain, r, TRUE, NULL)
        BY DEF FillFit
      <3>2. plain \in ItemRecords
        BY <1>1 DEF Gap, ItemRecords, ItemsOf, Span
      <3> HIDE DEF i
      <3>3. r.start \in Int /\ r.dur \in Int
        BY <2>3 DEF TimeRange
      <3> HIDE DEF r, plain
      <3>4. Tracked(k, Overwrite(k, plain, r, TRUE, NULL))
        BY <1>2, <3>2, <3>3, OverwriteKept
      <3> QED BY <3>1, <3>4
    <2>6. Tracked(k, Overwrite(k, c, TimeRange(t, c.range.dur), TRUE, NULL))
      <3> DEFINE r == TimeRange(t, c.range.dur)
      <3>1. r.start \in Int /\ r.dur \in Int
        BY <1>1 DEF TimeRange
      <3> HIDE DEF r
      <3>2. Tracked(k, Overwrite(k, c, r, TRUE, NULL))
        BY <1>1, <1>2, <3>1, OverwriteKept
      <3> QED BY <3>2 DEF r
    <2>7. \/ Fill(k, c, t, reference) = FillSequence(k, i, c, t)
          \/ Fill(k, c, t, reference) = FillFit(k, i, c, t)
          \/ Fill(k, c, t, reference) = Overwrite(k, c, TimeRange(t, c.range.dur), TRUE, NULL)
      BY <1>4 DEF Fill
    <2> HIDE DEF i
    <2> QED BY <2>4, <2>5, <2>6, <2>7, Zenon
  <1> QED BY <1>3, <1>4

--------------------------------------------------------------------------------
(* Types.                                                                      *)

\* Clients' arguments are what the operators take.
LEMMA ArgumentsAre ==
    /\ \A t \in Times : t \in Int
    /\ \A d \in Deltas : d \in Int
    /\ \A n \in Lengths : n \in Int /\ n > 0
    /\ \A c \in Templates : c \in ItemRecords /\ c \in Children
  <1>1. \A c \in Templates : c \in ItemRecords /\ c \in Children
    BY TemplateIs, ItemsAreChildren
  <1>2. Times \cup Deltas \subseteq Int /\ Lengths \subseteq Nat \ {0}
    BY EditAssumption, Zenon
  <1>3. \A n \in Lengths : n \in Int /\ n > 0
    BY <1>2
  <1>4. (\A t \in Times : t \in Int) /\ \A d \in Deltas : d \in Int
    BY <1>2
  <1> QED BY <1>1, <1>3, <1>4

LEMMA BecomeKeepsTypes ==
    ASSUME TypeOK, NEW outcome, Tracked(kids, outcome), Become(outcome)
    PROVE  TypeOK'
  <1>1. /\ outcome.status \in Statuses /\ outcome.kids \in Seq(Children)
        /\ Len(outcome.kids) <= Len(kids) + 2
    BY DEF Tracked, Kept
  <1>2. /\ kids \in Seq(Children) /\ edits \in Nat /\ Len(kids) <= Capacity + 2 * edits
        /\ Capacity \in Nat /\ Len(kids) \in Nat
    BY EditAssumption DEF TypeOK
  <1>3. /\ kids' = outcome.kids /\ status' = outcome.status /\ edits' = edits + 1
        /\ Usable(outcome.kids)
    BY DEF Become
  <1>4. edits' \in Nat /\ Len(kids') <= Capacity + 2 * edits'
    <2>1. Len(outcome.kids) \in Nat
      BY <1>1
    <2> QED BY <1>1, <1>2, <1>3, <2>1
  <1>5. status' \in Statuses /\ kids' \in Seq(Children) /\ Usable(kids')
    BY <1>1, <1>3
  <1> QED BY <1>4, <1>5 DEF TypeOK, Statuses

LEMMA AppendKeepsTypes ==
    ASSUME TypeOK, NEW c \in Templates \cup {Transition(o) : o \in Offsets}, AppendChild(c)
    PROVE  TypeOK'
  <1>1. /\ kids \in Seq(Children) /\ edits \in Nat /\ Capacity \in Nat /\ Len(kids) \in Nat
        /\ Usable(kids)
    BY EditAssumption DEF TypeOK
  <1>2. /\ edits = 0 /\ Len(kids) < Capacity /\ kids' = Append(kids, c)
        /\ status' = status /\ edits' = edits
    BY DEF AppendChild
  <1>3. c \in Children /\ (IsItem(c) => Duration(c) > 0)
    <2>1. CASE c \in Templates
      <3>1. c \in ItemRecords /\ c.range.dur \in Nat \ {0} /\ c \in Children
        BY <2>1, TemplateIs, ItemsAreChildren
      <3> QED BY <3>1, ChildIs
    <2>2. CASE c \notin Templates
      <3>1. PICK o \in Offsets : c = Transition(o)
        BY <2>2
      <3>2. c.kind = "transition" /\ c \in Children
        BY <3>1, EditAssumption DEF Transition, Children
      <3> QED BY <3>2 DEF IsItem
    <2> QED BY <2>1, <2>2
  <1>4. /\ kids' \in Seq(Children) /\ Len(kids') = Len(kids) + 1
        /\ DOMAIN kids' = 1..(Len(kids) + 1) /\ DOMAIN kids = 1..Len(kids)
        /\ kids'[Len(kids) + 1] = c /\ \A i \in 1..Len(kids) : kids'[i] = kids[i]
    BY <1>1, <1>2, <1>3
  <1>5. Usable(kids')
    <2>1. SUFFICES ASSUME NEW i \in DOMAIN kids', IsItem(kids'[i]) PROVE Duration(kids'[i]) > 0
      BY DEF Usable
    <2>2. i \in 1..Len(kids) \/ i = Len(kids) + 1
      BY <1>1, <1>4
    <2>3. CASE i \in 1..Len(kids)
      <3>1. IsItem(kids[i]) /\ i \in DOMAIN kids
        BY <1>4, <2>1, <2>3
      <3>2. Duration(kids[i]) > 0
        BY <1>1, <3>1 DEF Usable
      <3> QED BY <1>4, <2>3, <3>2
    <2>4. CASE i = Len(kids) + 1
      BY <1>3, <1>4, <2>1, <2>4
    <2> QED BY <2>2, <2>3, <2>4
  <1>6. Len(kids') <= Capacity + 2 * edits'
    BY <1>1, <1>2, <1>4
  <1>7. status' \in Statuses /\ edits' \in Nat
    BY <1>1, <1>2 DEF TypeOK, Statuses
  <1> QED BY <1>4, <1>5, <1>6, <1>7 DEF TypeOK, Statuses

LEMMA StepKeepsTypes == ASSUME TypeOK, Next PROVE TypeOK'
  <1>1. kids \in Seq(Children) /\ Usable(kids) /\ DOMAIN kids = 1..Len(kids)
    BY DEF TypeOK
  <1>2. ASSUME NEW i \in Items(kids) PROVE i \in 1..Len(kids) /\ IsItem(kids[i])
    BY <1>1 DEF Items
  <1>3. ASSUME NEW c \in Templates \cup {Transition(o) : o \in Offsets}, AppendChild(c)
        PROVE  TypeOK'
    BY <1>3, AppendKeepsTypes
  <1>4. ASSUME NEW c \in Templates, NEW t \in Times, NEW n \in Lengths, NEW strip \in BOOLEAN,
               NEW template \in Fillers, DoOverwrite(c, TimeRange(t, n), strip, template)
        PROVE  TypeOK'
    <2> DEFINE r == TimeRange(t, n)
    <2>1. r.start \in Int /\ r.dur \in Int /\ c \in ItemRecords
      BY ArgumentsAre DEF TimeRange
    <2> HIDE DEF r
    <2>2. Tracked(kids, Overwrite(kids, c, r, strip, template))
      BY <1>1, <2>1, OverwriteKept
    <2>3. Become(Overwrite(kids, c, r, strip, template))
      BY <1>4 DEF DoOverwrite, r
    <2> QED BY <2>2, <2>3, BecomeKeepsTypes
  <1>5. ASSUME NEW c \in Templates, NEW t \in Times, NEW strip \in BOOLEAN,
               NEW template \in Fillers, DoInsert(c, t, strip, template)
        PROVE  TypeOK'
    <2>1. Tracked(kids, Insert(kids, c, t, strip, template))
      BY <1>1, ArgumentsAre, InsertKept
    <2> QED BY <1>5, <2>1, BecomeKeepsTypes DEF DoInsert
  <1>6. ASSUME NEW t \in Times, NEW strip \in BOOLEAN, DoSlice(t, strip) PROVE TypeOK'
    <2>1. Tracked(kids, Slice(kids, t, strip))
      BY <1>1, ArgumentsAre, SliceKept
    <2> QED BY <1>6, <2>1, BecomeKeepsTypes DEF DoSlice
  <1>7. ASSUME NEW t \in Times, NEW fill \in BOOLEAN, NEW template \in Fillers,
               DoRemove(t, fill, template)
        PROVE  TypeOK'
    <2>1. Tracked(kids, RemoveAtTime(kids, t, fill, template))
      BY <1>1, ArgumentsAre, RemoveKept
    <2> QED BY <1>7, <2>1, BecomeKeepsTypes DEF DoRemove
  <1>8. ASSUME NEW c \in Templates, NEW t \in Times, NEW reference \in {"Source", "Sequence", "Fit"},
               DoFill(c, t, reference)
        PROVE  TypeOK'
    <2>1. Tracked(kids, Fill(kids, c, t, reference))
      BY <1>1, ArgumentsAre, FillKept
    <2> QED BY <1>8, <2>1, BecomeKeepsTypes DEF DoFill
  <1>9. ASSUME NEW i \in Items(kids), NEW d \in Deltas, NEW e \in Deltas, NEW template \in Fillers,
               DoTrim(i, d, e, template)
        PROVE  TypeOK'
    <2>1. Tracked(kids, Trim(kids, i, d, e, template))
      BY <1>1, <1>2, <1>9, ArgumentsAre, TrimKept DEF DoTrim
    <2> QED BY <1>9, <2>1, BecomeKeepsTypes DEF DoTrim
  <1>10. ASSUME NEW i \in Items(kids), NEW d \in Deltas, DoSlip(i, d) PROVE TypeOK'
    <2>1. Tracked(kids, Slip(kids, i, d))
      BY <1>1, <1>2, ArgumentsAre, SlipKept
    <2> QED BY <1>10, <2>1, BecomeKeepsTypes DEF DoSlip
  <1>11. ASSUME NEW i \in Items(kids), NEW d \in Deltas, DoSlide(i, d) PROVE TypeOK'
    <2>1. Tracked(kids, Slide(kids, i, d))
      BY <1>1, <1>2, <1>11, ArgumentsAre, SlideKept DEF DoSlide
    <2> QED BY <1>11, <2>1, BecomeKeepsTypes DEF DoSlide
  <1>12. ASSUME NEW i \in Items(kids), NEW d \in Deltas, NEW e \in Deltas, DoRipple(i, d, e)
         PROVE  TypeOK'
    <2>1. Tracked(kids, Ripple(kids, i, d, e))
      BY <1>1, <1>2, ArgumentsAre, RippleKept
    <2> QED BY <1>12, <2>1, BecomeKeepsTypes DEF DoRipple
  <1>13. ASSUME NEW i \in Items(kids), NEW d \in Deltas, NEW e \in Deltas, DoRoll(i, d, e)
         PROVE  TypeOK'
    <2>1. Tracked(kids, Roll(kids, i, d, e))
      BY <1>1, <1>2, <1>13, ArgumentsAre, RollKept DEF DoRoll
    <2> QED BY <1>13, <2>1, BecomeKeepsTypes DEF DoRoll
  <1> QED
    BY <1>3, <1>4, <1>5, <1>6, <1>7, <1>8, <1>9, <1>10, <1>11, <1>12, <1>13, Zenon DEF Next

\* Whatever clients and edits make of a track, it is a list of items of at least one
\* frame and of transitions, at most two longer for every edit.
THEOREM TypesHold == Spec => []TypeOK
  <1>1. Init => TypeOK
    <2> SUFFICES ASSUME Init PROVE TypeOK
      OBVIOUS
    <2>1. kids = <<>> /\ status = "OK" /\ edits = 0
      BY DEF Init
    <2>2. kids \in Seq(Children) /\ Len(kids) = 0 /\ DOMAIN kids = {}
      BY <2>1
    <2>3. Usable(kids)
      BY <2>2 DEF Usable
    <2> QED BY <2>1, <2>2, <2>3, EditAssumption DEF TypeOK
  <1>2. TypeOK /\ [Next]_vars => TypeOK'
    <2>1. ASSUME TypeOK, Next PROVE TypeOK'
      BY <2>1, StepKeepsTypes
    <2>2. ASSUME TypeOK, UNCHANGED vars PROVE TypeOK'
      BY <2>2 DEF vars, TypeOK
    <2> QED BY <2>1, <2>2
  <1> QED BY <1>1, <1>2, PTL DEF Spec

--------------------------------------------------------------------------------
(* What media has.                                                             *)

\* An item that shows other frames shows them of the same media.
LEMMA ShowsMedia ==
    ASSUME NEW k \in Seq(Children), NEW i \in 1..Len(k), IsItem(k[i]),
           NEW s \in Int, NEW n \in Int, NEW w, w = Reranged(k, i, s, n)
    PROVE  /\ w[i].range.start = s /\ w[i].range.dur = n /\ Duration(w[i]) = n
           /\ AvailableRange(w[i]) = AvailableRange(k[i])
  <1> DEFINE c == k[i]
             x == Shows(c, s, n)
  <1>1. c \in ItemRecords /\ x \in ItemRecords /\ w[i] = x
    BY ItemsStay, RerangedIs
  <1>2. x.range = TimeRange(s, n) /\ x.kind = c.kind /\ x.media = c.media
    BY <1>1, ShowsIs
  <1>3. IsItem(x)
    BY <1>2 DEF IsItem
  <1>4. AvailableRange(x) = AvailableRange(c)
    BY <1>2 DEF AvailableRange
  <1> HIDE DEF x, c
  <1>5. x.range.start = s /\ x.range.dur = n /\ Duration(x) = n
    BY <1>2, <1>3 DEF TimeRange, Duration
  <1> QED BY <1>1, <1>4, <1>5 DEF c

\* The frames that an item and its media have, as whole numbers.
HasFrames(k, i, s, n, first, all) ==
    /\ s \in Int /\ n \in Int /\ first \in Int /\ all \in Int
    /\ k[i].range.start = s /\ k[i].range.dur = n /\ Duration(k[i]) = n
    /\ AvailableRange(k[i]).start = first /\ AvailableRange(k[i]).dur = all

LEMMA FramesAre ==
    ASSUME NEW k \in Seq(Children), NEW i \in 1..Len(k), IsItem(k[i])
    PROVE  HasFrames(k, i, k[i].range.start, k[i].range.dur, AvailableRange(k[i]).start,
                     AvailableRange(k[i]).dur)
  BY ItemIs DEF HasFrames

LEMMA InMediaIs ==
    ASSUME NEW k, NEW i, NEW s, NEW n, NEW first, NEW all, HasFrames(k, i, s, n, first, all)
    PROVE  /\ InMedia(k[i]) <=> (s >= first /\ s + n <= first + all)
           /\ FromStart(k[i]) <=> s = first
  BY DEF HasFrames, InMedia, FromStart, EndExclusive

LEMMA SlipClamps ==
    ASSUME NEW k \in Seq(Children), NEW i \in 1..Len(k), IsItem(k[i]), NEW d \in Int,
           AvailableRange(k[i]).dur > 0, InMedia(k[i]), NEW x, x = Slip(k, i, d).kids[i]
    PROVE  InMedia(x) /\ Duration(x) = Duration(k[i])
  <1>1. PICK s, n, first, all : HasFrames(k, i, s, n, first, all)
    BY FramesAre, Zenon
  <1> DEFINE start == s + d
             over == start + n - (first + all)
             new == IF all = 0 THEN start
                    ELSE IF start < first THEN first
                    ELSE IF over > 0 THEN start - over
                    ELSE start
             w == [k EXCEPT ![i].range.start = new]
  <1>2. Slip(k, i, d) = Done(w)
    BY <1>1 DEF Slip, HasFrames, EndExclusive
  <1>3. s \in Int /\ n \in Int /\ first \in Int /\ all \in Int /\ k[i].range.dur = n
        /\ Duration(k[i]) = n /\ all > 0
    BY <1>1 DEF HasFrames
  <1>4. s >= first /\ s + n <= first + all
    BY <1>1, InMediaIs
  <1>5. new \in Int /\ new >= first /\ new + n <= first + all
    BY <1>3, <1>4
  <1> HIDE DEF new
  <1>6. w = Reranged(k, i, new, n)
    BY <1>3, <1>5, ExceptStart
  <1> HIDE DEF w
  <1>7. HasFrames(w, i, new, n, first, all)
    BY <1>1, <1>3, <1>5, <1>6, ShowsMedia DEF HasFrames
  <1>8. InMedia(w[i])
    BY <1>5, <1>7, InMediaIs
  <1>9. x = w[i]
    BY <1>2, DoneIs
  <1> QED BY <1>3, <1>7, <1>8, <1>9 DEF HasFrames

LEMMA RippleClamps ==
    ASSUME NEW k \in Seq(Children), NEW i \in 1..Len(k), IsItem(k[i]), NEW d \in Int, d > 0,
           AvailableRange(k[i]).dur > 0, InMedia(k[i]), FromStart(k[i]),
           NEW x, x = Ripple(k, i, 0, d).kids[i]
    PROVE  InMedia(x)
  <1>1. PICK s, n, first, all : HasFrames(k, i, s, n, first, all)
    BY FramesAre, Zenon
  <1>2. s \in Int /\ n \in Int /\ first \in Int /\ all \in Int /\ all > 0
        /\ k[i].range.start = s /\ k[i].range.dur = n
    BY <1>1 DEF HasFrames
  <1>3. s = first /\ s + n <= first + all
    BY <1>1, InMediaIs
  <1> DEFINE out == IF n + d > all THEN all - n ELSE d
             new == n - 0 + out
             w == [k EXCEPT ![i].range = TimeRange(s + 0, new)]
  <1>4. Reach(k[i], d) = out
    BY <1>1, <1>2 DEF Reach, HasFrames
  <1>5. Ripple(k, i, 0, d) = Done(w)
    BY <1>2, <1>4 DEF Ripple, RippleIn
  <1>6. new \in Int /\ s + new <= first + all /\ s + 0 = s
    BY <1>2, <1>3
  <1> HIDE DEF new
  <1>7. w = Reranged(k, i, s, new)
    <2>1. ASSUME NEW a \in Int, NEW b \in Int
          PROVE  [k EXCEPT ![i].range = TimeRange(a, b)] = Reranged(k, i, a, b)
      BY ExceptRange
    <2>2. TimeRange(s + 0, new) = TimeRange(s, new)
      BY <1>6
    <2>3. [k EXCEPT ![i].range = TimeRange(s, new)] = Reranged(k, i, s, new)
      BY <1>2, <1>6, <2>1, Zenon
    <2> QED BY <2>2, <2>3, Zenon
  <1> HIDE DEF w
  <1>8. HasFrames(w, i, s, new, first, all)
    BY <1>1, <1>2, <1>6, <1>7, ShowsMedia DEF HasFrames
  <1>9. InMedia(w[i])
    BY <1>2, <1>3, <1>6, <1>8, InMediaIs
  <1> QED BY <1>5, <1>9, DoneIs

LEMMA SlideClamps ==
    ASSUME NEW k \in Seq(Children), NEW i \in 1..Len(k), IsItem(k[i]), NEW d \in Int,
           Duration(k[i]) > 0, AvailableRange(k[i]).dur > 0, InMedia(k[i]), FromStart(k[i]),
           NEW x, x = Slide(k, i + 1, d).kids[i]
    PROVE  InMedia(x) /\ Duration(x) > 0
  <1>1. PICK s, n, first, all : HasFrames(k, i, s, n, first, all)
    BY FramesAre, Zenon
  <1>2. s \in Int /\ n \in Int /\ first \in Int /\ all \in Int /\ all > 0 /\ n > 0
        /\ k[i].range.start = s /\ k[i].range.dur = n /\ Duration(k[i]) = n
    BY <1>1 DEF HasFrames
  <1>3. s = first /\ s + n <= first + all
    BY <1>1, InMediaIs
  <1> DEFINE reach == IF n + d > all THEN all - n ELSE d
             by == IF d < 0 THEN d ELSE reach
             stays == d = 0 \/ (d < 0 /\ n <= 0 - d)
             w == Stretch(k, i, by)
  <1>4. Reach(k[i], d) = reach
    BY <1>1, <1>2 DEF Reach, HasFrames
  <1>5. i + 1 # 1 /\ (i + 1) - 1 = i
    OBVIOUS
  <1>6. Slide(k, i + 1, d) = IF stays THEN Done(k) ELSE Done(w)
    BY <1>2, <1>4, <1>5 DEF Slide
  <1>7. CASE stays
    BY <1>2, <1>6, <1>7, DoneIs
  <1>8. CASE ~stays
    <2> DEFINE new == n + by
    <2>1. by \in Int /\ new \in Int /\ s + new <= first + all /\ new > 0
      BY <1>2, <1>3, <1>8
    <2> HIDE DEF by
    <2>2. w = Reranged(k, i, s, new)
      <3>1. w = Reranged(k, i, k[i].range.start, k[i].range.dur + by)
        BY <2>1, StretchIs
      <3>2. k[i].range.dur + by = new
        BY <1>2
      <3> QED BY <1>2, <3>1, <3>2, Zenon
    <2>3. Slide(k, i + 1, d) = Done(w)
      BY <1>6, <1>8
    <2> HIDE DEF w, new
    <2>4. HasFrames(w, i, s, new, first, all)
      BY <1>1, <1>2, <2>1, <2>2, ShowsMedia DEF HasFrames
    <2>5. InMedia(w[i]) /\ Duration(w[i]) = new
      <3>1. InMedia(w[i]) <=> (s >= first /\ s + new <= first + all)
        BY <2>4, InMediaIs
      <3>2. Duration(w[i]) = new
        BY <2>4 DEF HasFrames
      <3> QED BY ONLY <1>2, <1>3, <2>1, <3>1, <3>2
    <2>6. x = w[i]
      BY <2>3, DoneIs
    <2> QED BY <2>1, <2>5, <2>6
  <1> QED BY <1>7, <1>8

\* Slipping, rippling and sliding an item that shows what its media has never shows
\* frames that the media has not, for any media, range and distance.
THEOREM MediaClamps == Spec => []ClampedToMedia
  <1>1. TypeOK => ClampedToMedia
    <2> SUFFICES ASSUME TypeOK, NEW i \in Items(kids), NEW d \in Deltas,
                        AvailableRange(kids[i]).dur > 0, InMedia(kids[i])
                 PROVE  /\ LET slipped == Slip(kids, i, d).kids[i]
                           IN  InMedia(slipped) /\ Duration(slipped) = Duration(kids[i])
                        /\ FromStart(kids[i]) /\ d > 0 => InMedia(Ripple(kids, i, 0, d).kids[i])
                        /\ FromStart(kids[i]) /\ i < Len(kids) /\ IsItem(kids[i + 1]) =>
                               LET slid == Slide(kids, i + 1, d).kids[i]
                               IN  InMedia(slid) /\ Duration(slid) > 0
      BY DEF ClampedToMedia
    <2>1. kids \in Seq(Children) /\ DOMAIN kids = 1..Len(kids) /\ Usable(kids)
      BY DEF TypeOK
    <2>2. i \in 1..Len(kids) /\ IsItem(kids[i]) /\ Duration(kids[i]) > 0
      BY <2>1 DEF Items, Usable
    <2>3. d \in Int
      BY ArgumentsAre
    <2>4. /\ InMedia(Slip(kids, i, d).kids[i])
          /\ Duration(Slip(kids, i, d).kids[i]) = Duration(kids[i])
      BY <2>1, <2>2, <2>3, SlipClamps
    <2>5. FromStart(kids[i]) /\ d > 0 => InMedia(Ripple(kids, i, 0, d).kids[i])
      BY <2>1, <2>2, <2>3, RippleClamps
    <2>6. FromStart(kids[i]) =>
              InMedia(Slide(kids, i + 1, d).kids[i]) /\ Duration(Slide(kids, i + 1, d).kids[i]) > 0
      BY <2>1, <2>2, <2>3, SlideClamps
    <2> QED BY <2>4, <2>5, <2>6
  <1> QED BY <1>1, TypesHold, PTL

--------------------------------------------------------------------------------
(* What a track plays.                                                         *)

Frame == {NULL} \cup ((Clips \cup {NULL}) \X Int)
Film == Seq(Frame)

\* A child that lasts for no negative time.
Playable == {c \in Children : Long(c) \in Nat}

LEMMA FramesOfOne ==
    ASSUME NEW c \in Playable
    PROVE  /\ FramesOf(c) \in Film /\ Len(FramesOf(c)) = Long(c)
           /\ IsItem(c) => \A f \in 1..Long(c) :
                  FramesOf(c)[f] = IF c.kind = "gap" THEN NULL ELSE <<c.media, c.range.start + f - 1>>
  <1> DEFINE n == IF IsItem(c) THEN Duration(c) ELSE 0
             frame(f) == IF c.kind = "gap" THEN NULL ELSE <<c.media, c.range.start + f - 1>>
  <1>1. c \in Children /\ Long(c) = n /\ n \in Nat
    BY DEF Playable, Long
  <1>2. FramesOf(c) = [f \in 1..n |-> frame(f)]
    BY DEF FramesOf
  <1>3. ASSUME NEW f \in 1..n PROVE frame(f) \in Frame
    <2>1. IsItem(c) /\ f \in Int
      BY <1>1
    <2>2. c.kind = "gap" \/ c.media \in Clips \cup {NULL}
      BY <1>1, <2>1, ChildIs DEF ItemRecords, ItemsOf
    <2>3. c.range.start \in Int
      BY <1>1, <2>1, ChildIs
    <2>4. c.range.start + f - 1 \in Int
      BY <2>1, <2>3
    <2> QED BY <2>2, <2>4 DEF Frame
  <1> HIDE DEF n, frame
  <1>4. FramesOf(c) \in Film /\ Len(FramesOf(c)) = n
    BY <1>1, <1>2, <1>3 DEF Film
  <1>5. \A f \in 1..n : FramesOf(c)[f] = frame(f)
    BY <1>2
  <1> QED BY <1>1, <1>4, <1>5 DEF frame

\* f[i] is what the first i children of k play.
IsPlaying(f, k) ==
    f \in [0..Len(k) -> Film] /\ f[0] = <<>> /\ \A i \in 1..Len(k) : f[i] = f[i - 1] \o FramesOf(k[i])

LEMMA FilmsAre ==
    ASSUME NEW k \in Seq(Playable)
    PROVE  LET s == [i \in DOMAIN k |-> FramesOf(k[i])]
           IN  /\ s \in Seq(Seq(Frame)) /\ Len(s) = Len(k) /\ FlattenSeq(s) = Frames(k)
               /\ \A f : Joins(f, s, Frame) <=> IsPlaying(f, k)
  <1> DEFINE s == [i \in DOMAIN k |-> FramesOf(k[i])]
  <1>1. DOMAIN k = 1..Len(k) /\ Len(k) \in Nat /\ \A i \in 1..Len(k) : k[i] \in Playable
    OBVIOUS
  <1>2. \A i \in 1..Len(k) : FramesOf(k[i]) \in Seq(Frame)
    BY <1>1, FramesOfOne DEF Film
  <1>3. s \in Seq(Seq(Frame)) /\ Len(s) = Len(k) /\ \A i \in 1..Len(k) : s[i] = FramesOf(k[i])
    BY <1>1, <1>2
  <1>4. FlattenSeq(s) = Frames(k)
    BY DEF Frames
  <1> HIDE DEF s
  <1>5. ASSUME NEW f PROVE Joins(f, s, Frame) <=> IsPlaying(f, k)
    BY <1>3, Zenon DEF Joins, IsPlaying, Film
  <1> QED BY <1>3, <1>4, <1>5 DEF s

LEMMA PlaysOn ==
    ASSUME NEW k \in Seq(Playable)
    PROVE  \E f : IsPlaying(f, k)
  <1> DEFINE s == [i \in DOMAIN k |-> FramesOf(k[i])]
  <1>1. s \in Seq(Seq(Frame)) /\ \A f : Joins(f, s, Frame) <=> IsPlaying(f, k)
    BY FilmsAre
  <1> HIDE DEF s
  <1>2. \E f : Joins(f, s, Frame)
    BY <1>1, JoinsRun
  <1> QED BY <1>1, <1>2, Zenon

LEMMA FramesAtEnd ==
    ASSUME NEW k \in Seq(Playable), NEW f, IsPlaying(f, k)
    PROVE  Frames(k) = f[Len(k)] /\ Frames(k) \in Film
  <1> DEFINE s == [i \in DOMAIN k |-> FramesOf(k[i])]
  <1>1. /\ s \in Seq(Seq(Frame)) /\ Len(s) = Len(k) /\ FlattenSeq(s) = Frames(k)
        /\ Joins(f, s, Frame)
    BY FilmsAre
  <1> HIDE DEF s
  <1>2. FlattenSeq(s) = f[Len(s)] /\ FlattenSeq(s) \in Seq(Frame)
    BY <1>1, FlattenedAtEnd
  <1> QED BY <1>1, <1>2, Zenon DEF Film

\* Lists of playable children are lists of children.
LEMMA PlayableAre ==
    ASSUME NEW k \in Seq(Playable)
    PROVE  k \in Seq(Children) /\ Len(k) \in Nat /\ \A i \in 1..Len(k) : k[i] \in Playable
  <1>1. Playable \subseteq Children
    BY DEF Playable
  <1> QED BY <1>1

\* The first children play for as long as they are laid.
LEMMA PlaysFor ==
    ASSUME NEW k \in Seq(Playable), NEW f, IsPlaying(f, k)
    PROVE  \A i \in 0..Len(k) : Len(f[i]) = Laid(k)[i]
  <1> DEFINE n == Len(k)
             L == Laid(k)
             Q == {i \in 0..n : Len(f[i]) = L[i]}
  <1>1. n \in Nat /\ k \in Seq(Children) /\ \A i \in 1..n : k[i] \in Playable
    BY PlayableAre
  <1>2. L[0] = 0 /\ \A i \in 1..n : L[i] = L[i - 1] + Long(k[i])
    BY <1>1, LaidIs
  <1>3. f \in [0..n -> Film] /\ f[0] = <<>> /\ \A i \in 1..n : f[i] = f[i - 1] \o FramesOf(k[i])
    BY DEF IsPlaying
  <1> HIDE DEF L, n
  <1>4. 0 \in Q
    BY <1>1, <1>2, <1>3
  <1>5. ASSUME NEW j \in 1..n, j - 1 \in Q PROVE j \in Q
    <2> DEFINE x == f[j - 1]
               y == FramesOf(k[j])
    <2>1. x \in Film /\ Len(x) = L[j - 1] /\ j - 1 \in 0..n
      BY <1>1, <1>3, <1>5
    <2>2. y \in Film /\ Len(y) = Long(k[j])
      BY <1>1, FramesOfOne
    <2>3. f[j] = x \o y /\ L[j] = L[j - 1] + Long(k[j])
      BY <1>2, <1>3
    <2> HIDE DEF x, y
    <2>4. IsJoin(x \o y, x, y, Frame)
      BY <2>1, <2>2, JoinIs DEF Film
    <2>5. Len(f[j]) = L[j]
      BY <2>1, <2>2, <2>3, <2>4 DEF IsJoin
    <2> QED BY <2>5
  <1>6. \A j \in 0..n : j \in Q
    <2> HIDE DEF Q
    <2> QED BY <1>1, <1>4, <1>5, Rounds
  <1> QED BY <1>6 DEF L, n

LEMMA FramesAreLong ==
    ASSUME NEW k \in Seq(Playable)
    PROVE  Frames(k) \in Film /\ Len(Frames(k)) = Laid(k)[Len(k)]
  <1>1. PICK f : IsPlaying(f, k)
    BY PlaysOn
  <1>2. Frames(k) = f[Len(k)] /\ Frames(k) \in Film
    BY <1>1, FramesAtEnd
  <1>3. Len(k) \in 0..Len(k)
    BY PlayableAre
  <1>4. Len(f[Len(k)]) = Laid(k)[Len(k)]
    BY <1>1, <1>3, PlaysFor
  <1> QED BY <1>2, <1>4

\* Films and their lengths.
LEMMA FilmIs ==
    ASSUME NEW x \in Film, NEW y \in Film
    PROVE  /\ x \o y \in Film /\ IsJoin(x \o y, x, y, Frame) /\ Len(x \o y) = Len(x) + Len(y)
           /\ Len(x) \in Nat /\ Len(y) \in Nat
           /\ <<>> \o x = x /\ x \o <<>> = x
  <1>1. IsJoin(x \o y, x, y, Frame)
    BY JoinIs DEF Film
  <1>2. x \o y \in Film /\ Len(x \o y) = Len(x) + Len(y)
    BY <1>1 DEF IsJoin, Film
  <1>3. <<>> \o x = x /\ x \o <<>> = x
    BY ConcatEmptySeq, Zenon DEF Film
  <1>4. Len(x) \in Nat /\ Len(y) \in Nat
    BY DEF Film
  <1> QED BY <1>1, <1>2, <1>3, <1>4

GoesOn(a, m, b) == (a \o m) \o b = a \o (m \o b)

LEMMA ListGoesOn ==
    ASSUME NEW T, NEW a \in Seq(T), NEW m \in Seq(T), NEW b \in Seq(T)
    PROVE  GoesOn(a, m, b)
  BY ConcatAssociative DEF GoesOn

LEMMA FilmGoesOn ==
    ASSUME NEW x \in Film, NEW y \in Film, NEW z \in Film
    PROVE  (x \o y) \o z = x \o (y \o z)
  <1>1. x \in Seq(Frame) /\ y \in Seq(Frame) /\ z \in Seq(Frame)
    BY DEF Film
  <1> QED BY <1>1, ConcatAssociative

\* What lists play one after the other.
LEMMA FramesJoin ==
    ASSUME NEW k \in Seq(Playable), NEW l \in Seq(Playable)
    PROVE  Frames(k \o l) = Frames(k) \o Frames(l) /\ k \o l \in Seq(Playable)
  <1> DEFINE m == Len(k)
             n == Len(l)
             u == k \o l
  <1>1. IsJoin(u, k, l, Playable)
    BY JoinIs
  <1> HIDE DEF u
  <1>2. /\ u \in Seq(Playable) /\ Len(u) = m + n /\ m \in Nat /\ n \in Nat
        /\ \A i \in 1..m : u[i] = k[i]
        /\ \A i \in 1..n : u[m + i] = l[i]
    BY <1>1, PlayableAre DEF IsJoin
  <1>3. PICK f : IsPlaying(f, k)
    BY PlaysOn
  <1>4. PICK g : IsPlaying(g, l)
    BY PlaysOn
  <1> HIDE DEF m, n
  <1>5. f \in [0..m -> Film] /\ f[0] = <<>> /\ \A i \in 1..m : f[i] = f[i - 1] \o FramesOf(k[i])
    BY <1>3 DEF IsPlaying, m
  <1>6. g \in [0..n -> Film] /\ g[0] = <<>> /\ \A i \in 1..n : g[i] = g[i - 1] \o FramesOf(l[i])
    BY <1>4 DEF IsPlaying, n
  <1>7. Frames(k) = f[m] /\ Frames(l) = g[n] /\ f[m] \in Film /\ g[n] \in Film
    <2>1. Frames(k) = f[m] /\ Frames(k) \in Film
      BY <1>3, FramesAtEnd DEF m
    <2>2. Frames(l) = g[n] /\ Frames(l) \in Film
      BY <1>4, FramesAtEnd DEF n
    <2> QED BY <2>1, <2>2
  <1> DEFINE a == f[m]
             h == [i \in 0..(m + n) |-> IF i <= m THEN f[i] ELSE a \o g[i - m]]
  <1>8. a \in Film
    BY <1>7
  <1>9. \A i \in 0..m : h[i] = f[i]
    BY <1>2
  <1> HIDE DEF a
  <1>10. \A i \in 1..n : h[m + i] = a \o g[i] /\ g[i] \in Film
    <2> SUFFICES ASSUME NEW i \in 1..n PROVE h[m + i] = a \o g[i] /\ g[i] \in Film
      OBVIOUS
    <2>1. m + i \in 0..(m + n) /\ ~(m + i <= m) /\ (m + i) - m = i /\ i \in 0..n
      BY <1>2
    <2>2. h[m + i] = a \o g[(m + i) - m]
      BY <2>1
    <2>3. h[m + i] = a \o g[i]
      BY <2>1, <2>2, Zenon
    <2> QED BY <1>6, <2>1, <2>3
  <1>11. h \in [0..(m + n) -> Film]
    <2>1. ASSUME NEW i \in 0..(m + n) PROVE h[i] \in Film
      <3>1. CASE i <= m
        <4>1. i \in 0..m
          BY <1>2, <3>1
        <4> QED BY <1>5, <1>9, <4>1
      <3>2. CASE i > m
        <4>1. i - m \in 1..n /\ m + (i - m) = i
          BY <1>2, <3>2
        <4>2. h[m + (i - m)] = a \o g[i - m] /\ g[i - m] \in Film
          BY <1>10, <4>1, Zenon
        <4> HIDE DEF h
        <4>3. a \o g[i - m] \in Film
          BY <1>8, <4>2, FilmIs
        <4> QED BY <4>1, <4>2, <4>3
      <3> QED BY <1>2, <3>1, <3>2
    <2>2. h = [i \in 0..(m + n) |-> h[i]]
      OBVIOUS
    <2> HIDE DEF h
    <2> QED BY <2>1, <2>2
  <1>12. h[0] = <<>>
    BY <1>2, <1>5, <1>9
  <1> HIDE DEF h
  <1>a. ASSUME NEW i \in 1..(m + n) PROVE h[i] = h[i - 1] \o FramesOf(u[i])
    <2>1. CASE i <= m
      <3>1. i \in 1..m /\ i - 1 \in 0..m /\ i \in 0..m
        BY <1>2, <2>1
      <3>2. u[i] = k[i] /\ h[i] = f[i] /\ h[i - 1] = f[i - 1] /\ f[i] = f[i - 1] \o FramesOf(k[i])
        BY <1>2, <1>5, <1>9, <3>1, Zenon
      <3> QED BY <3>2, Zenon
    <2>2. CASE i > m
      <3> DEFINE j == i - m
      <3>1. j \in 1..n /\ m + j = i /\ j - 1 \in 0..n
        BY <1>2, <2>2
      <3> HIDE DEF j
      <3>2. u[i] = l[j] /\ h[i] = a \o g[j] /\ g[j] = g[j - 1] \o FramesOf(l[j])
        BY <1>2, <1>6, <1>10, <3>1, Zenon
      <3>3. h[i - 1] = a \o g[j - 1]
        <4>1. CASE j = 1
          <5>1. i - 1 = m /\ j - 1 = 0 /\ m \in 0..m
            BY <1>2, <3>1, <4>1
          <5>2. h[i - 1] = a /\ g[j - 1] = <<>>
            BY <1>6, <1>9, <5>1, Zenon DEF a
          <5>3. a \o <<>> = a
            BY <1>8, FilmIs
          <5> QED BY <5>2, <5>3, Zenon
        <4>2. CASE j # 1
          <5>1. j - 1 \in 1..n /\ m + (j - 1) = i - 1
            BY <1>2, <3>1, <4>2
          <5> QED BY <1>10, <5>1, Zenon
        <4> QED BY <4>1, <4>2
      <3>4. g[j - 1] \in Film /\ FramesOf(l[j]) \in Film
        <4>1. l[j] \in Playable
          BY <3>1, PlayableAre DEF n
        <4> QED BY <1>6, <3>1, <4>1, FramesOfOne
      <3>5. (a \o g[j - 1]) \o FramesOf(l[j]) = a \o (g[j - 1] \o FramesOf(l[j]))
        BY <1>8, <3>4, FilmGoesOn
      <3> QED BY <3>2, <3>3, <3>5, Zenon
    <2> QED BY <1>2, <2>1, <2>2
  <1>b. IsPlaying(h, u)
    BY <1>2, <1>11, <1>12, <1>a, Zenon DEF IsPlaying
  <1>15. Frames(u) = h[m + n]
    BY <1>2, <1>b, FramesAtEnd
  <1>16. h[m + n] = a \o g[n]
    <2>1. CASE n = 0
      <3>1. m + n = m /\ m \in 0..m /\ a \o <<>> = a
        BY <1>2, <1>8, <2>1, FilmIs
      <3> QED BY <1>6, <1>9, <2>1, <3>1, Zenon DEF a
    <2>2. CASE n # 0
      <3>1. n \in 1..n
        BY <1>2, <2>2
      <3> QED BY <1>10, <3>1, Zenon
    <2> QED BY <2>1, <2>2
  <1> QED BY <1>2, <1>7, <1>15, <1>16, Zenon DEF a, u

LEMMA FramesOfList ==
    ASSUME NEW c \in Playable
    PROVE  Frames(<<c>>) = FramesOf(c) /\ <<c>> \in Seq(Playable) /\ Frames(<<>>) = <<>>
  <1>1. <<c>> \in Seq(Playable) /\ Len(<<c>>) = 1 /\ <<c>>[1] = c
    BY OneIs
  <1>2. PICK f : IsPlaying(f, <<c>>)
    BY <1>1, PlaysOn
  <1>3. f[0] = <<>> /\ f[1] = f[0] \o FramesOf(c) /\ Frames(<<c>>) = f[1]
    <2>1. f[1] = f[0] \o FramesOf(<<c>>[1]) /\ f[0] = <<>>
      <3>1. 1 \in 1..Len(<<c>>) /\ 1 - 1 = 0
        BY <1>1
      <3> QED BY <1>2, <3>1, Zenon DEF IsPlaying
    <2>2. Frames(<<c>>) = f[1]
      BY <1>1, <1>2, FramesAtEnd
    <2> QED BY <1>1, <2>1, <2>2, Zenon
  <1>4. FramesOf(c) \in Film
    BY FramesOfOne
  <1>5. <<>> \o FramesOf(c) = FramesOf(c)
    BY <1>4, FilmIs
  <1>6. Frames(<<>>) = <<>>
    <2>1. <<>> \in Seq(Playable) /\ Len(<<>>) = 0
      OBVIOUS
    <2>2. PICK g : IsPlaying(g, <<>>)
      BY <2>1, PlaysOn
    <2>3. Frames(<<>>) = g[Len(<<>>)]
      BY <2>1, <2>2, FramesAtEnd
    <2>4. g[0] = <<>>
      BY <2>2 DEF IsPlaying
    <2> QED BY <2>1, <2>3, <2>4, Zenon
  <1> QED BY <1>1, <1>3, <1>5, <1>6, Zenon

LEMMA NothingIs ==
    ASSUME NEW n \in Int
    PROVE  /\ Nothing(n) \in Film
           /\ n >= 0 => Len(Nothing(n)) = n
           /\ n <= 0 => Nothing(n) = <<>>
           /\ [i \in 1..n |-> NULL] = Nothing(n)
  <1>1. NULL \in Frame
    BY DEF Frame
  <1>2. CASE n >= 0
    <2>1. Nothing(n) \in Film /\ Len(Nothing(n)) = n
      BY <1>1, <1>2 DEF Nothing, Film
    <2>2. n = 0 => Nothing(n) = <<>>
      BY DEF Nothing
    <2> QED BY <1>2, <2>1, <2>2 DEF Nothing
  <1>3. CASE n < 0
    <2>1. 1..n = {}
      BY <1>3
    <2>2. Nothing(n) = <<>>
      BY <2>1 DEF Nothing
    <2> QED BY <1>3, <2>2 DEF Nothing, Film
  <1> QED BY <1>2, <1>3

\* Of a list and its continuation, the first and the second.
LEMMA JoinIsCut ==
    ASSUME NEW T, NEW x \in Seq(T), NEW y \in Seq(T)
    PROVE  SubSeq(x \o y, 1, Len(x)) = x /\ SubSeq(x \o y, Len(x) + 1, Len(x \o y)) = y
  <1> DEFINE u == x \o y
             m == Len(x)
             n == Len(y)
  <1>1. IsJoin(u, x, y, T)
    BY JoinIs
  <1>2. x \in Seq(T) /\ y \in Seq(T) /\ m \in Nat /\ n \in Nat
    OBVIOUS
  <1> HIDE DEF u
  <1>3. /\ u \in Seq(T) /\ Len(u) = m + n
        /\ \A i \in 1..m : u[i] = x[i]
        /\ \A i \in 1..n : u[m + i] = y[i]
    BY <1>1 DEF IsJoin
  <1> HIDE DEF m, n
  <1>4. /\ 0 \in 0..Len(u) /\ m \in 0..Len(u) /\ Len(u) \in 0..Len(u) /\ 0 <= m /\ m <= Len(u)
        /\ m - 0 = m /\ Len(u) - m = n /\ 0 + 1 = 1 /\ \A i \in Nat : 0 + i = i
    BY <1>2, <1>3
  <1>5. SubSeq(u, 1, m) = x
    <2> DEFINE v == SubSeq(u, 0 + 1, m)
    <2>1. IsPart(v, u, 0, m, T)
      BY <1>3, <1>4, PartIs, Zenon
    <2>2. v = SubSeq(u, 1, m)
      BY <1>4, Zenon
    <2> HIDE DEF v
    <2>3. v \in Seq(T) /\ Len(v) = m /\ \A i \in 1..m : v[i] = u[0 + i]
      BY <1>4, <2>1, Zenon DEF IsPart
    <2>4. \A i \in 1..m : v[i] = x[i]
      <3> SUFFICES ASSUME NEW i \in 1..m PROVE v[i] = x[i]
        OBVIOUS
      <3>1. 0 + i = i
        OBVIOUS
      <3> QED BY <1>3, <2>3, <3>1, Zenon
    <2>5. Len(v) = Len(x)
      BY <2>3 DEF m
    <2>6. v = x
      BY <1>2, <2>3, <2>4, <2>5, SameList DEF m
    <2> QED BY <2>2, <2>6, Zenon
  <1>6. SubSeq(u, m + 1, Len(u)) = y
    <2> DEFINE v == SubSeq(u, m + 1, Len(u))
    <2>1. IsPart(v, u, m, Len(u), T)
      BY <1>3, <1>4, PartIs, Zenon
    <2> HIDE DEF v
    <2>2. v \in Seq(T) /\ Len(v) = n /\ \A i \in 1..n : v[i] = u[m + i]
      BY <1>4, <2>1, Zenon DEF IsPart
    <2>3. \A i \in 1..n : v[i] = y[i]
      BY <1>3, <2>2, Zenon
    <2>4. Len(v) = Len(y)
      BY <2>2 DEF n
    <2>5. v = y
      BY <1>2, <2>2, <2>3, <2>4, SameList DEF n
    <2> QED BY <2>5 DEF v
  <1> QED BY <1>5, <1>6 DEF u, m

LEMMA FilmIsCut ==
    ASSUME NEW x \in Film, NEW y \in Film
    PROVE  SubSeq(x \o y, 1, Len(x)) = x /\ SubSeq(x \o y, Len(x) + 1, Len(x \o y)) = y
  <1>1. x \in Seq(Frame) /\ y \in Seq(Frame)
    BY DEF Film
  <1> QED BY <1>1, JoinIsCut

\* A part of a film replaced.
MiddleReplaced(a, m, b, t, n, new) == Replaced(a \o m \o b, t, n, new) = a \o new \o b

LEMMA ReplacedIs ==
    ASSUME NEW a \in Film, NEW m \in Film, NEW b \in Film, NEW new \in Film,
           NEW t, NEW n, t = Len(a), n = Len(m)
    PROVE  MiddleReplaced(a, m, b, t, n, new)
  <1> DEFINE am == a \o m
             s == am \o b
             none == [i \in 1..(t - Len(s)) |-> NULL]
  <1>1. am \in Film /\ Len(am) = t + n /\ t \in Nat /\ n \in Nat /\ Len(b) \in Nat
    BY FilmIs
  <1> HIDE DEF am
  <1>2. s \in Film /\ Len(s) = t + n + Len(b)
    <2>1. s \in Film /\ Len(s) = Len(am) + Len(b)
      BY <1>1, FilmIs
    <2> QED BY <1>1, <2>1, Zenon
  <1>3. SubSeq(s, t + n + 1, Len(s)) = b
    <2>1. SubSeq(s, Len(am) + 1, Len(s)) = b
      BY <1>1, FilmIsCut
    <2> QED BY <1>1, <2>1, Zenon
  <1> HIDE DEF s
  <1>4. none = <<>>
    <2>1. t - Len(s) \in Int /\ t - Len(s) <= 0
      BY <1>1, <1>2
    <2> QED BY <2>1, NothingIs
  <1> HIDE DEF none
  <1>5. s \o none = s
    BY <1>2, <1>4, FilmIs
  <1>6. SubSeq(s, 1, t) = a
    <2>1. s = a \o (m \o b)
      BY FilmGoesOn DEF am, s
    <2>2. m \o b \in Film
      BY FilmIs
    <2> HIDE DEF s
    <2> QED BY <2>1, <2>2, FilmIsCut
  <1>7. Replaced(s, t, n, new) = SubSeq(s, 1, t) \o new \o SubSeq(s, t + n + 1, Len(s))
    <2>1. Replaced(s, t, n, new) = SubSeq(s \o none, 1, t) \o new
                                       \o SubSeq(s \o none, t + n + 1, Len(s \o none))
      BY DEF Replaced, none
    <2> QED BY <1>5, <2>1, Zenon
  <1>8. s = a \o m \o b
    BY DEF s, am
  <1> QED BY <1>3, <1>6, <1>7, <1>8, Zenon DEF MiddleReplaced

\* What is replaced may reach beyond the end of the film, or be after it.
EndReplaced(a, m, t, n, new) == Replaced(a \o m, t, n, new) = a \o Nothing(t - Len(a)) \o new

LEMMA ReplacedAtEnd ==
    ASSUME NEW a \in Film, NEW m \in Film, NEW new \in Film, NEW n \in Nat, NEW t \in Nat,
           \/ t = Len(a) /\ n >= Len(m)
           \/ t >= Len(a) /\ m = <<>>
    PROVE  EndReplaced(a, m, t, n, new)
  <1> DEFINE s == a \o m
             none == Nothing(t - Len(s))
             gap == Nothing(t - Len(a))
             longer == s \o none
  <1>1. s \in Film /\ Len(s) = Len(a) + Len(m) /\ Len(a) \in Nat /\ Len(m) \in Nat
    BY FilmIs
  <1>2. m = <<>> => s = a /\ Len(m) = 0
    BY FilmIs
  <1>3. none \in Film /\ gap \in Film /\ t - Len(s) \in Int /\ t - Len(a) \in Int
    BY <1>1, NothingIs
  <1> HIDE DEF s
  <1>4. /\ t - Len(s) >= 0 => Len(none) = t - Len(s)
        /\ t - Len(s) <= 0 => none = <<>>
        /\ t - Len(a) <= 0 => gap = <<>>
        /\ none = [i \in 1..(t - Len(s)) |-> NULL]
    BY <1>3, NothingIs
  <1> HIDE DEF none, gap
  <1>5. longer \in Film /\ Len(longer) = Len(s) + Len(none)
    BY <1>1, <1>3, FilmIs
  <1> DEFINE after == m = <<>> /\ t >= Len(a)
  <1>6. ASSUME after PROVE Len(longer) = t /\ none = gap
    <2>1. Len(s) = Len(a) /\ t - Len(s) >= 0 /\ t - Len(a) = t - Len(s)
      <3>1. Len(s) = Len(a)
        BY <1>2, <1>6, Zenon
      <3>2. t >= Len(a)
        BY <1>6, Zenon
      <3> QED BY ONLY <1>1, <3>1, <3>2, t \in Nat
    <2>2. none = gap
      BY <2>1, Zenon DEF none, gap
    <2>3. Len(none) = t - Len(s)
      BY <1>4, <2>1
    <2> HIDE DEF longer
    <2> QED BY ONLY <1>1, <1>5, <2>2, <2>3, t \in Nat
  <1>7. after \/ (t = Len(a) /\ n >= Len(m))
    OBVIOUS
  <1>8. Len(longer) <= t + n /\ Len(longer) \in Nat
    <2>1. CASE after
      <3> HIDE DEF after, longer
      <3> QED BY <1>6, <2>1
    <2>2. CASE t = Len(a) /\ n >= Len(m)
      <3>1. t - Len(s) <= 0
        BY <1>1, <2>2
      <3>2. longer = s
        BY <1>1, <1>4, <3>1, FilmIs
      <3> HIDE DEF longer
      <3> QED BY <1>1, <2>2, <3>2
    <2> QED BY <1>7, <2>1, <2>2
  <1>9. SubSeq(longer, 1, t) = a \o gap
    <2>1. CASE after
      <3>1. Len(longer) = t /\ none = gap
        BY <1>6, <2>1
      <3>2. SubSeq(longer, 1, t) = longer
        <4> HIDE DEF longer
        <4> QED BY <1>5, <3>1 DEF Film
      <3> QED BY <1>2, <2>1, <3>1, <3>2
    <2>2. CASE t = Len(a) /\ n >= Len(m)
      <3>1. t - Len(s) <= 0 /\ t - Len(a) <= 0
        BY <1>1, <2>2
      <3>2. longer = s /\ a \o gap = a
        BY <1>1, <1>4, <3>1, FilmIs
      <3>3. SubSeq(s, 1, t) = a
        BY <2>2, FilmIsCut DEF s
      <3> QED BY <3>2, <3>3, Zenon
    <2> QED BY <1>7, <2>1, <2>2
  <1>10. SubSeq(longer, t + n + 1, Len(longer)) = <<>>
    <2> HIDE DEF longer
    <2>1. longer \in Seq(Frame) /\ t + n + 1 > Len(longer)
      BY <1>5, <1>8 DEF Film
    <2> QED BY <2>1
  <1>11. Replaced(s, t, n, new) = SubSeq(longer, 1, t) \o new \o SubSeq(longer, t + n + 1, Len(longer))
    BY <1>4 DEF Replaced
  <1> HIDE DEF longer
  <1>12. (a \o gap) \o new \in Film
    <2>1. a \o gap \in Film
      BY <1>3, FilmIs
    <2> QED BY <2>1, FilmIs
  <1>13. ((a \o gap) \o new) \o <<>> = (a \o gap) \o new
    BY <1>12, FilmIs
  <1>14. Replaced(s, t, n, new) = (a \o gap) \o new
    BY <1>9, <1>10, <1>11, <1>13, Zenon
  <1> QED BY <1>14, Zenon DEF s, gap, EndReplaced

LEMMA UsableIs ==
    ASSUME NEW k \in Seq(Children), Usable(k)
    PROVE  k \in Seq(Playable)
  <1>1. ASSUME NEW i \in 1..Len(k) PROVE k[i] \in Playable
    <2>1. k[i] \in Children /\ (IsItem(k[i]) => Duration(k[i]) > 0 /\ Duration(k[i]) \in Int)
      BY ChildIs DEF Usable
    <2> QED BY <2>1 DEF Playable, Long
  <1>2. k = [i \in 1..Len(k) |-> k[i]] /\ Len(k) \in Nat
    OBVIOUS
  <1> QED BY <1>1, <1>2

\* What plays before the child at a place, and what after it.
PlaysBefore(k, i) == Frames(Ahead(k, i))
PlaysAfter(k, i) == Frames(Behind(k, i))

\* The child at place i lasts from frame t on for n frames.
Lasts(k, i, t, n) ==
    /\ t \in Nat /\ n \in Nat
    /\ Len(PlaysBefore(k, i)) = t /\ Len(FramesOf(k[i])) = n
    /\ Frames(k) = PlaysBefore(k, i) \o FramesOf(k[i]) \o PlaysAfter(k, i)
    /\ Laid(k)[i - 1] = t

LEMMA SidesPlay ==
    ASSUME NEW k \in Seq(Playable), NEW i \in 1..Len(k)
    PROVE  /\ Ahead(k, i) \in Seq(Playable) /\ Behind(k, i) \in Seq(Playable)
           /\ PlaysBefore(k, i) \in Film /\ PlaysAfter(k, i) \in Film
           /\ k[i] \in Playable /\ FramesOf(k[i]) \in Film
  <1>1. Ahead(k, i) \in Seq(Playable) /\ Behind(k, i) \in Seq(Playable) /\ k[i] \in Playable
    BY SidesAre
  <1>2. PlaysBefore(k, i) \in Film /\ PlaysAfter(k, i) \in Film
    BY <1>1, FramesAreLong DEF PlaysBefore, PlaysAfter
  <1>3. FramesOf(k[i]) \in Film
    BY <1>1, FramesOfOne
  <1> QED BY <1>1, <1>2, <1>3

\* Others play in the place of one child.
LEMMA OthersPlay ==
    ASSUME NEW k \in Seq(Playable), NEW i \in 1..Len(k), NEW m \in Seq(Playable)
    PROVE  /\ Frames(Ahead(k, i) \o m \o Behind(k, i)) = PlaysBefore(k, i) \o Frames(m) \o PlaysAfter(k, i)
           /\ Ahead(k, i) \o m \o Behind(k, i) \in Seq(Playable)
  <1> DEFINE a == Ahead(k, i)
             b == Behind(k, i)
             am == a \o m
  <1>1. a \in Seq(Playable) /\ b \in Seq(Playable)
    BY SidesPlay
  <1> HIDE DEF a, b
  <1>2. Frames(am) = Frames(a) \o Frames(m) /\ am \in Seq(Playable)
    BY <1>1, FramesJoin
  <1> HIDE DEF am
  <1>3. Frames(am \o b) = Frames(am) \o Frames(b) /\ am \o b \in Seq(Playable)
    BY <1>1, <1>2, FramesJoin
  <1> QED BY <1>2, <1>3, Zenon DEF am, a, b, PlaysBefore, PlaysAfter

LEMMA ItemLasts ==
    ASSUME NEW k \in Seq(Playable), NEW i \in 1..Len(k), IsItem(k[i])
    PROVE  Lasts(k, i, Places(k)[i].start, Duration(k[i])) /\ Places(k)[i].dur = Duration(k[i])
  <1> DEFINE a == Ahead(k, i)
             n == Len(k)
             t == Places(k)[i].start
  <1>1. k \in Seq(Children) /\ k[i] \in Playable /\ n \in Nat /\ i - 1 \in 0..n
    BY PlayableAre
  <1>2. t = Laid(k)[i - 1] /\ Places(k)[i].dur = Duration(k[i])
    BY <1>1, PlaceIs
  <1>3. Len(FramesOf(k[i])) = Duration(k[i]) /\ Duration(k[i]) \in Nat
    BY <1>1, FramesOfOne DEF Long, Playable
  <1>4. k = a \o <<k[i]>> \o Behind(k, i)
    BY TakenApart
  <1>5. Frames(k) = PlaysBefore(k, i) \o FramesOf(k[i]) \o PlaysAfter(k, i)
    <2>1. <<k[i]>> \in Seq(Playable) /\ Frames(<<k[i]>>) = FramesOf(k[i])
      BY <1>1, FramesOfList
    <2>2. Frames(a \o <<k[i]>> \o Behind(k, i)) = PlaysBefore(k, i) \o Frames(<<k[i]>>) \o PlaysAfter(k, i)
      BY <2>1, OthersPlay
    <2> QED BY <1>4, <2>1, <2>2, Zenon
  <1>6. Len(PlaysBefore(k, i)) = Laid(k)[i - 1]
    <2>1. /\ a \in Seq(Playable) /\ Len(a) = i - 1 /\ IsPart(a, k, 0, i - 1, Playable)
      BY SidesAre
    <2> HIDE DEF a
    <2>2. Len(Frames(a)) = Laid(a)[i - 1] /\ a \in Seq(Children)
      BY <2>1, FramesAreLong, PlayableAre
    <2> DEFINE longs == [j \in 1..n |-> Long(k[j])]
               shorts == [j \in 1..(i - 1) |-> Long(a[j])]
    <2>3. IsSum(Laid(k), n, longs) /\ IsSum(Laid(a), i - 1, shorts)
      <3>1. IsSum(Laid(k), n, longs)
        BY <1>1, LaidIs
      <3>2. IsSum(Laid(a), Len(a), [j \in 1..Len(a) |-> Long(a[j])])
        BY <2>2, LaidIs
      <3> QED BY <2>1, <3>1, <3>2, Zenon
    <2>4. \A j \in 1..(i - 1) : shorts[j] = longs[j]
      <3> SUFFICES ASSUME NEW j \in 1..(i - 1) PROVE shorts[j] = longs[j]
        OBVIOUS
      <3>1. j \in 1..((i - 1) - 0) /\ 0 + j = j /\ j \in 1..n
        BY <1>1
      <3>2. a[j] = k[0 + j]
        BY <2>1, <3>1, Zenon DEF IsPart
      <3> QED BY <3>1, <3>2
    <2> HIDE DEF longs, shorts, n
    <2>5. \A j \in 0..(i - 1) : Laid(k)[j] = Laid(a)[j]
      BY <1>1, <2>3, <2>4, SumOfPrefix
    <2>6. i - 1 \in 0..(i - 1)
      BY <1>1
    <2> QED BY <2>2, <2>5, <2>6, Zenon DEF PlaysBefore, a
  <1>7. t \in Nat
    <2>1. PlaysBefore(k, i) \in Film
      BY SidesPlay
    <2>2. Len(PlaysBefore(k, i)) \in Nat
      BY <2>1 DEF Film
    <2> QED BY <1>2, <1>6, <2>2, Zenon
  <1> QED BY <1>2, <1>3, <1>5, <1>6, <1>7, Zenon DEF Lasts

LEMMA GapPlays ==
    ASSUME NEW r \in Span, r.dur \in Nat
    PROVE  /\ FramesOf(Gap(r)) = Nothing(r.dur) /\ Gap(r) \in Playable
  <1>1. Gap(r) \in Children /\ Gap(r).kind = "gap" /\ Gap(r).range = r
    BY GapIs, ItemsAreChildren
  <1>2. IsItem(Gap(r)) /\ Duration(Gap(r)) = r.dur
    BY <1>1 DEF IsItem, Duration
  <1> QED BY <1>1, <1>2 DEF FramesOf, Nothing, Playable, Long

\* What remove does to the track.
LEMMA RemovedPlays ==
    ASSUME NEW k \in Seq(Playable), NEW i \in 1..Len(k), IsItem(k[i]),
           NEW t, NEW n, Lasts(k, i, t, n), n = Duration(k[i])
    PROVE  /\ Frames(RemoveItem(k, i, TRUE, NULL)) = Replaced(Frames(k), t, n, Nothing(n))
           /\ Frames(RemoveItem(k, i, FALSE, NULL)) = Replaced(Frames(k), t, n, <<>>)
  <1> DEFINE A == PlaysBefore(k, i)
             M == FramesOf(k[i])
             B == PlaysAfter(k, i)
             x == Gap(k[i].range)
  <1>1. A \in Film /\ B \in Film /\ M \in Film /\ k[i] \in Playable
    BY SidesPlay
  <1>2. Len(A) = t /\ Len(M) = n /\ Frames(k) = A \o M \o B /\ n \in Nat
    BY DEF Lasts
  <1>3. x \in Playable /\ FramesOf(x) = Nothing(n)
    <2>1. k[i] \in Children /\ k[i].range \in Span /\ k[i].range.dur = n
      BY <1>1, ChildIs DEF Playable, Duration
    <2> QED BY <1>2, <2>1, GapPlays
  <1>4. RemoveItem(k, i, TRUE, NULL) = Ahead(k, i) \o <<x>> \o Behind(k, i)
    <2>1. IsExchange([k EXCEPT ![i] = x], k, i, x, Playable)
      BY <1>3, ExchangeIs
    <2>2. RemoveItem(k, i, TRUE, NULL) = [k EXCEPT ![i] = x]
      BY DEF RemoveItem, ReplaceAt
    <2> HIDE DEF x
    <2> QED BY <1>3, <2>1, <2>2, Exchanged
  <1>5. Frames(RemoveItem(k, i, TRUE, NULL)) = A \o Nothing(n) \o B
    <2>1. <<x>> \in Seq(Playable) /\ Frames(<<x>>) = Nothing(n)
      BY <1>3, FramesOfList
    <2> HIDE DEF x
    <2>2. Frames(Ahead(k, i) \o <<x>> \o Behind(k, i)) = A \o Frames(<<x>>) \o B
      BY <2>1, OthersPlay
    <2> QED BY <1>4, <2>1, <2>2, Zenon
  <1>6. Frames(RemoveItem(k, i, FALSE, NULL)) = A \o <<>> \o B
    <2>1. RemoveItem(k, i, FALSE, NULL) = Ahead(k, i) \o Behind(k, i)
      BY RemoveIs DEF RemoveItem
    <2>2. Frames(Ahead(k, i) \o Behind(k, i)) = A \o B
      BY SidesPlay, FramesJoin DEF PlaysBefore, PlaysAfter
    <2>3. A \o <<>> = A
      BY <1>1, FilmIs
    <2> QED BY <2>1, <2>2, <2>3, Zenon
  <1>7. Nothing(n) \in Film /\ <<>> \in Film
    BY <1>2, NothingIs DEF Film
  <1> HIDE DEF A, M, B
  <1>8. ASSUME NEW new \in Film PROVE Replaced(Frames(k), t, n, new) = A \o new \o B
    <2>1. MiddleReplaced(A, M, B, t, n, new)
      BY <1>1, <1>2, ReplacedIs
    <2> QED BY <1>2, <2>1, Zenon DEF MiddleReplaced
  <1>9. /\ Replaced(Frames(k), t, n, Nothing(n)) = A \o Nothing(n) \o B
        /\ Replaced(Frames(k), t, n, <<>>) = A \o <<>> \o B
    BY <1>7, <1>8
  <1> QED BY <1>5, <1>6, <1>9, Zenon

LEMMA RemoveHolds == ASSUME TypeOK PROVE RemoveLeavesHole
  <1> SUFFICES ASSUME NEW t \in Times, FindsItem(kids, t)
               PROVE  LET at == Places(kids)[ChildAt(kids, t)]
                          without(fill) == Frames(RemoveAtTime(kids, t, fill, NULL).kids)
                      IN  /\ without(TRUE) = Replaced(Frames(kids), at.start, at.dur, Nothing(at.dur))
                          /\ without(FALSE) = Replaced(Frames(kids), at.start, at.dur, <<>>)
    BY DEF RemoveLeavesHole
  <1> DEFINE i == ChildAt(kids, t)
             at == Places(kids)[i]
  <1>1. kids \in Seq(Children) /\ kids \in Seq(Playable) /\ t \in Int
    BY UsableIs, ArgumentsAre DEF TypeOK
  <1>2. i \in 1..Len(kids) /\ IsItem(kids[i])
    BY <1>1, FoundItem
  <1> HIDE DEF i
  <1>3. Lasts(kids, i, at.start, Duration(kids[i])) /\ at.dur = Duration(kids[i])
    BY <1>1, <1>2, ItemLasts
  <1> HIDE DEF at
  <1>4. /\ Frames(RemoveItem(kids, i, TRUE, NULL)) = Replaced(Frames(kids), at.start, at.dur, Nothing(at.dur))
        /\ Frames(RemoveItem(kids, i, FALSE, NULL)) = Replaced(Frames(kids), at.start, at.dur, <<>>)
    BY <1>1, <1>2, <1>3, RemovedPlays
  <1>5. \A fill : RemoveAtTime(kids, t, fill, NULL).kids = RemoveItem(kids, i, fill, NULL)
    BY DEF RemoveAtTime, Done, i
  <1> QED BY <1>4, <1>5 DEF i, at

LEMMA CutIs ==
    ASSUME NEW T, NEW p \in Seq(T), NEW b \in Seq(T), NEW x \in T
    PROVE  InsertAt(p \o b, Len(p) + 1, x) = p \o <<x>> \o b
  <1> DEFINE s == p \o b
  <1>1. SubSeq(s, 1, Len(p)) = p /\ SubSeq(s, Len(p) + 1, Len(s)) = b
    BY JoinIsCut
  <1>2. InsertAt(s, Len(p) + 1, x) = SubSeq(s, 1, (Len(p) + 1) - 1) \o <<x>> \o SubSeq(s, Len(p) + 1, Len(s))
    BY InsertIs DEF Ahead
  <1>3. (Len(p) + 1) - 1 = Len(p)
    OBVIOUS
  <1> HIDE DEF s
  <1> QED BY <1>1, <1>2, <1>3, Zenon DEF s

\* The frames that an item shows.
LEMMA ShownFrames ==
    ASSUME NEW c \in ItemRecords, NEW s \in Int, NEW n \in Nat
    PROVE  /\ Shows(c, s, n) \in Playable /\ IsItem(Shows(c, s, n)) /\ Duration(Shows(c, s, n)) = n
           /\ FramesOf(Shows(c, s, n)) \in Film /\ Len(FramesOf(Shows(c, s, n))) = n
           /\ \A f \in 1..n : FramesOf(Shows(c, s, n))[f] =
                  IF c.kind = "gap" THEN NULL ELSE <<c.media, s + f - 1>>
  <1> DEFINE x == Shows(c, s, n)
  <1>1. /\ x \in ItemRecords /\ x \in Children /\ x.range = TimeRange(s, n) /\ x.kind = c.kind
        /\ x.media = c.media
    BY ShowsIs, ItemsAreChildren
  <1> HIDE DEF x
  <1>2. IsItem(x)
    BY <1>1, ChildIs
  <1>3. x.range.start = s /\ x.range.dur = n /\ Duration(x) = n
    BY <1>1, <1>2 DEF Duration, TimeRange
  <1>4. Long(x) = n /\ x \in Playable
    BY <1>1, <1>2, <1>3 DEF Long, Playable
  <1>5. /\ FramesOf(x) \in Film /\ Len(FramesOf(x)) = n
        /\ \A f \in 1..n : FramesOf(x)[f] = IF x.kind = "gap" THEN NULL ELSE <<x.media, x.range.start + f - 1>>
    BY <1>2, <1>4, FramesOfOne
  <1>6. \A f \in 1..n : FramesOf(x)[f] = IF c.kind = "gap" THEN NULL ELSE <<c.media, s + f - 1>>
    BY <1>1, <1>3, <1>5
  <1> QED BY <1>2, <1>3, <1>4, <1>5, <1>6, Zenon DEF x

\* An item that is split shows the same.
SplitsAt(c, s, p, q) ==
    FramesOf(Shows(c, s, p + q)) = FramesOf(Shows(c, s, p)) \o FramesOf(Shows(c, s + p, q))

LEMMA SplitShows ==
    ASSUME NEW c \in ItemRecords, NEW s \in Int, NEW p \in Nat, NEW q \in Nat
    PROVE  SplitsAt(c, s, p, q)
  <1> DEFINE u == FramesOf(Shows(c, s, p + q))
             x == FramesOf(Shows(c, s, p))
             y == FramesOf(Shows(c, s + p, q))
             frame(f) == IF c.kind = "gap" THEN NULL ELSE <<c.media, f>>
  <1>1. p + q \in Nat /\ s + p \in Int
    OBVIOUS
  <1>2. u \in Film /\ Len(u) = p + q /\ \A f \in 1..(p + q) : u[f] = frame(s + f - 1)
    BY <1>1, ShownFrames
  <1>3. x \in Film /\ Len(x) = p /\ \A f \in 1..p : x[f] = frame(s + f - 1)
    BY ShownFrames
  <1>4. y \in Film /\ Len(y) = q /\ \A f \in 1..q : y[f] = frame((s + p) + f - 1)
    BY <1>1, ShownFrames
  <1> HIDE DEF u, x, y, frame
  <1>5. \A f \in 1..p : u[f] = x[f]
    <2>1. \A f \in 1..p : f \in 1..(p + q)
      OBVIOUS
    <2> QED BY <1>2, <1>3, <2>1, Zenon
  <1>6. ASSUME NEW f \in 1..q PROVE u[p + f] = y[f]
    <2>1. p + f \in 1..(p + q) /\ s + (p + f) - 1 = (s + p) + f - 1
      OBVIOUS
    <2>2. u[p + f] = frame(s + (p + f) - 1) /\ y[f] = frame((s + p) + f - 1)
      BY <1>2, <1>4, <2>1, Zenon
    <2> QED BY <2>1, <2>2, Zenon
  <1>7. IsJoin(u, x, y, Frame)
    BY <1>2, <1>3, <1>4, <1>5, <1>6 DEF IsJoin, Film
  <1>8. u = x \o y
    BY <1>3, <1>4, <1>7, JoinOnce DEF Film
  <1> QED BY <1>8 DEF u, x, y, SplitsAt

LEMMA ShowsItself ==
    ASSUME NEW c \in ItemRecords
    PROVE  Shows(c, c.range.start, c.range.dur) = c /\ c.range.start \in Int /\ Duration(c) = c.range.dur
  <1>1. c.range \in Span /\ IsItem(c)
    BY ItemsAreChildren, ChildIs
  <1>2. c.range = TimeRange(c.range.start, c.range.dur) /\ c.range.start \in Int
    BY <1>1, RangeIs
  <1>3. [c EXCEPT !.range = c.range] = c
    BY DEF ItemRecords, ItemsOf
  <1> QED BY <1>1, <1>2, <1>3 DEF Shows, Duration

\* Of an item of n frames, the first p and the others.
LEMMA SplitPlays ==
    ASSUME NEW c \in ItemRecords, NEW n \in Nat, Duration(c) = n, NEW p \in 0..n
    PROVE  FramesOf(c) = FramesOf(Shows(c, c.range.start, p)) \o FramesOf(Shows(c, c.range.start + p, n - p))
  <1>1. Shows(c, c.range.start, n) = c /\ c.range.start \in Int
    BY ShowsItself
  <1>2. p \in Nat /\ n - p \in Nat /\ p + (n - p) = n
    OBVIOUS
  <1>3. FramesOf(Shows(c, c.range.start, p + (n - p))) =
            FramesOf(Shows(c, c.range.start, p)) \o FramesOf(Shows(c, c.range.start + p, n - p))
    BY <1>1, <1>2, SplitShows DEF SplitsAt
  <1> QED BY <1>1, <1>2, <1>3, Zenon

\* Four films one after the other, however they are grouped.
Regrouped(a, m, n, b) ==
    (a \o m) \o n \o b = a \o (m \o n) \o b /\ a \o m \o (n \o b) = a \o (m \o n) \o b

LEMMA FourFilms ==
    ASSUME NEW a \in Film, NEW m \in Film, NEW n \in Film, NEW b \in Film
    PROVE  Regrouped(a, m, n, b)
  <1>1. (a \o m) \o n = a \o (m \o n)
    BY FilmGoesOn
  <1>2. a \o m \in Film
    BY FilmIs
  <1>3. (a \o m) \o (n \o b) = ((a \o m) \o n) \o b
    BY <1>2, FilmGoesOn
  <1> QED BY <1>1, <1>3, Zenon DEF Regrouped

LEMMA TwoPlay ==
    ASSUME NEW x \in Playable, NEW y \in Playable
    PROVE  <<x>> \o <<y>> \in Seq(Playable) /\ Frames(<<x>> \o <<y>>) = FramesOf(x) \o FramesOf(y)
  <1>1. /\ <<x>> \in Seq(Playable) /\ Frames(<<x>>) = FramesOf(x)
        /\ <<y>> \in Seq(Playable) /\ Frames(<<y>>) = FramesOf(y)
    BY FramesOfList
  <1>2. Frames(<<x>> \o <<y>>) = Frames(<<x>>) \o Frames(<<y>>) /\ <<x>> \o <<y>> \in Seq(Playable)
    BY <1>1, FramesJoin
  <1> QED BY <1>1, <1>2, Zenon

\* An item that shows others, in its place.
LEMMA RerangedPlays ==
    ASSUME NEW k \in Seq(Playable), NEW i \in 1..Len(k), IsItem(k[i]), NEW s \in Int, NEW n \in Nat
    PROVE  /\ Reranged(k, i, s, n) = Ahead(k, i) \o <<Shows(k[i], s, n)>> \o Behind(k, i)
           /\ Reranged(k, i, s, n) \in Seq(Playable)
           /\ Frames(Reranged(k, i, s, n)) =
                  PlaysBefore(k, i) \o FramesOf(Shows(k[i], s, n)) \o PlaysAfter(k, i)
  <1> DEFINE x == Shows(k[i], s, n)
             w == Reranged(k, i, s, n)
  <1>1. k \in Seq(Children) /\ k[i] \in ItemRecords
    BY PlayableAre, ItemIs
  <1>2. IsExchange(w, k, i, x, Children)
    BY <1>1, RerangedIs
  <1>3. x \in Playable /\ x \in Children
    BY <1>1, ShownFrames DEF Playable
  <1> HIDE DEF x, w
  <1>4. w = Ahead(k, i) \o <<x>> \o Behind(k, i)
    BY <1>1, <1>2, <1>3, Exchanged
  <1>5. <<x>> \in Seq(Playable) /\ Frames(<<x>>) = FramesOf(x)
    BY <1>3, FramesOfList
  <1>6. /\ Frames(Ahead(k, i) \o <<x>> \o Behind(k, i)) = PlaysBefore(k, i) \o Frames(<<x>>) \o PlaysAfter(k, i)
        /\ Ahead(k, i) \o <<x>> \o Behind(k, i) \in Seq(Playable)
    BY <1>5, OthersPlay
  <1> QED BY <1>4, <1>5, <1>6, Zenon DEF x, w

\* A child put in after the one at place i, which shows other frames.
LEMMA InsertedPlays ==
    ASSUME NEW k \in Seq(Playable), NEW i \in 1..Len(k), NEW x \in Playable, NEW y \in Playable,
           NEW w, w = Ahead(k, i) \o <<x>> \o Behind(k, i)
    PROVE  /\ InsertAt(w, i + 1, y) = Ahead(k, i) \o (<<x>> \o <<y>>) \o Behind(k, i)
           /\ Frames(InsertAt(w, i + 1, y)) =
                  PlaysBefore(k, i) \o (FramesOf(x) \o FramesOf(y)) \o PlaysAfter(k, i)
  <1> DEFINE a == Ahead(k, i)
             b == Behind(k, i)
             p == a \o <<x>>
             m == <<x>> \o <<y>>
  <1>1. a \in Seq(Playable) /\ b \in Seq(Playable) /\ Len(a) = i - 1 /\ i \in Int
    BY SidesAre
  <1> HIDE DEF a, b
  <1>2. <<x>> \in Seq(Playable) /\ <<y>> \in Seq(Playable) /\ Len(<<x>>) = 1
    BY OneIs
  <1>3. p \in Seq(Playable) /\ Len(p) = i
    <2>1. IsJoin(p, a, <<x>>, Playable)
      BY <1>1, <1>2, JoinIs
    <2> HIDE DEF p
    <2> QED BY <1>1, <1>2, <2>1 DEF IsJoin
  <1>4. (a \o <<x>>) \o <<y>> = a \o m
    BY <1>1, <1>2, ConcatAssociative
  <1> HIDE DEF p
  <1>5. InsertAt(p \o b, Len(p) + 1, y) = p \o <<y>> \o b
    BY <1>1, <1>3, CutIs
  <1>6. InsertAt(w, i + 1, y) = a \o m \o b
    BY <1>3, <1>4, <1>5, Zenon DEF p, a, b
  <1>7. m \in Seq(Playable) /\ Frames(m) = FramesOf(x) \o FramesOf(y)
    BY TwoPlay
  <1> HIDE DEF m
  <1>8. Frames(Ahead(k, i) \o m \o Behind(k, i)) = PlaysBefore(k, i) \o Frames(m) \o PlaysAfter(k, i)
    BY <1>7, OthersPlay
  <1> QED BY <1>6, <1>7, <1>8, Zenon DEF a, b, m

\* What a trim of a tail does to the track.
LEMMA TrimmedPlays ==
    ASSUME NEW k \in Seq(Playable), NEW i \in 1..Len(k), IsItem(k[i]), NEW d \in Int, d < 0,
           0 - d < Duration(k[i]), i < Len(k), ~IsGapAt(k, i + 1),
           NEW t, NEW n, Lasts(k, i, t, n), n = Duration(k[i])
    PROVE  Frames(Trim(k, i, 0, d, NULL).kids) = Replaced(Frames(k), t + n + d, 0 - d, Nothing(0 - d))
  <1> DEFINE A == PlaysBefore(k, i)
             B == PlaysAfter(k, i)
             c == k[i]
             s == c.range.start
             x == Shows(c, s, n + d)
             rest == Shows(c, s + (n + d), n - (n + d))
             y == Gap(TimeRange(0, 0 - d))
             w == Stretch(k, i, d)
             M == FramesOf(x)
             R == FramesOf(rest)
  <1>1. A \in Film /\ B \in Film /\ k \in Seq(Children) /\ c \in ItemRecords
    BY SidesPlay, PlayableAre, ItemIs
  <1>2. t \in Nat /\ n \in Nat /\ Len(A) = t /\ Frames(k) = A \o FramesOf(c) \o B
    BY DEF Lasts
  <1>3. s \in Int /\ n = c.range.dur
    BY <1>1, ShowsItself
  <1>4. n + d \in 0..n /\ n - (n + d) = 0 - d /\ n + d \in Nat /\ 0 - d \in Nat /\ s + (n + d) \in Int
    <2>1. d \in Int /\ d < 0 /\ 0 - d < n
      OBVIOUS
    <2>2. n \in Nat /\ s \in Int
      BY <1>2, <1>3
    <2> HIDE DEF s
    <2> QED BY ONLY <2>1, <2>2
  <1>5. FramesOf(c) = M \o R
    <2> HIDE DEF c, s
    <2> QED BY <1>1, <1>2, <1>4, SplitPlays DEF c, s
  <1>6. M \in Film /\ Len(M) = n + d /\ x \in Playable
    BY <1>1, <1>3, <1>4, ShownFrames
  <1>7. R \in Film /\ Len(R) = 0 - d
    <2>1. R \in Film /\ Len(R) = n - (n + d)
      <3> HIDE DEF c, s
      <3>1. n - (n + d) \in Nat
        BY <1>4
      <3> QED BY <1>1, <1>4, <3>1, ShownFrames
    <2> QED BY <1>4, <2>1, Zenon
  <1>8. FramesOf(y) = Nothing(0 - d) /\ y \in Playable
    <2>1. TimeRange(0, 0 - d) \in Span /\ TimeRange(0, 0 - d).dur = 0 - d
      BY <1>4 DEF TimeRange, Span
    <2> QED BY <1>4, <2>1, GapPlays
  <1>9. w = Ahead(k, i) \o <<x>> \o Behind(k, i)
    <2>1. w = Reranged(k, i, s, c.range.dur + d)
      BY <1>1, StretchIs
    <2>2. Reranged(k, i, s, n + d) = Ahead(k, i) \o <<x>> \o Behind(k, i)
      BY <1>3, <1>4, RerangedPlays
    <2> QED BY <1>3, <2>1, <2>2, Zenon
  <1>10. Trim(k, i, 0, d, NULL).kids = InsertAt(w, i + 1, y)
    <2>1. TrimHead(k, i, 0) = k
      BY <1>1, TrimHeadIs
    <2>2. TrimTail(k, i, d, NULL) = InsertAt(w, i + 1, y)
      <3>1. ~(d = 0) /\ ~(i = Len(k)) /\ ~(d > 0)
        OBVIOUS
      <3> HIDE DEF w, y
      <3>2. TrimTail(k, i, d, NULL) = InsertAt(Stretch(k, i, d), i + 1, Filler(NULL, 0 - d))
        BY <3>1, Zenon DEF TrimTail
      <3>3. Filler(NULL, 0 - d) = y
        BY DEF Filler, y
      <3> QED BY <3>2, <3>3, Zenon DEF w
    <2> QED BY <2>1, <2>2, Zenon DEF Trim, Done
  <1> HIDE DEF x, y, w, M, R, A, B, rest
  <1>11. Frames(InsertAt(w, i + 1, y)) = A \o (FramesOf(x) \o FramesOf(y)) \o B
    BY <1>6, <1>8, <1>9, InsertedPlays DEF A, B
  <1> DEFINE N == Nothing(0 - d)
             AM == A \o M
  <1>12. N \in Film
    BY <1>4, NothingIs
  <1>13. AM \in Film /\ Len(AM) = t + n + d
    <2>1. AM \in Film /\ Len(AM) = Len(A) + Len(M)
      BY <1>1, <1>6, FilmIs
    <2> HIDE DEF AM
    <2> DEFINE am == Len(AM)
    <2>2. am = t + (n + d)
      BY <1>2, <1>6, <2>1, Zenon
    <2> HIDE DEF am
    <2>3. am = t + n + d
      BY ONLY <1>2, <2>2, d \in Int
    <2> QED BY <2>1, <2>3 DEF am
  <1>14. A \o (M \o R) \o B = AM \o R \o B /\ A \o (M \o N) \o B = AM \o N \o B
    <2> HIDE DEF N
    <2>1. Regrouped(A, M, R, B) /\ Regrouped(A, M, N, B)
      BY <1>1, <1>6, <1>7, <1>12, FourFilms
    <2> QED BY <2>1, Zenon DEF Regrouped
  <1> HIDE DEF AM, N
  <1>15. Replaced(AM \o R \o B, t + n + d, 0 - d, N) = AM \o N \o B
    <2> DEFINE from == t + n + d
               long == 0 - d
    <2>1. from = Len(AM) /\ long = Len(R)
      BY <1>7, <1>13
    <2> HIDE DEF from, long
    <2>2. MiddleReplaced(AM, R, B, from, long, N)
      BY <1>1, <1>7, <1>12, <1>13, <2>1, ReplacedIs
    <2> QED BY <2>2, Zenon DEF MiddleReplaced, from, long
  <1> QED BY <1>2, <1>5, <1>8, <1>10, <1>11, <1>14, <1>15, Zenon DEF M, N

LEMMA TrimHolds == ASSUME TypeOK PROVE TrimLeavesHole
  <1> SUFFICES ASSUME NEW i \in Items(kids), NEW d \in Deltas, d < 0, 0 - d < Duration(kids[i]),
                      i < Len(kids), ~IsGapAt(kids, i + 1)
               PROVE  Frames(Trim(kids, i, 0, d, NULL).kids)
                          = Replaced(Frames(kids), EndExclusive(Places(kids)[i]) + d, 0 - d, Nothing(0 - d))
    BY DEF TrimLeavesHole
  <1> DEFINE at == Places(kids)[i]
             n == Duration(kids[i])
  <1>1. kids \in Seq(Children) /\ kids \in Seq(Playable) /\ d \in Int
    BY UsableIs, ArgumentsAre DEF TypeOK
  <1>2. i \in 1..Len(kids) /\ IsItem(kids[i])
    BY <1>1 DEF Items
  <1>3. Lasts(kids, i, at.start, n) /\ at.dur = n
    BY <1>1, <1>2, ItemLasts
  <1>4. EndExclusive(at) = at.start + n
    BY <1>3 DEF EndExclusive
  <1> HIDE DEF at
  <1>5. Frames(Trim(kids, i, 0, d, NULL).kids) = Replaced(Frames(kids), at.start + n + d, 0 - d, Nothing(0 - d))
    BY <1>1, <1>2, <1>3, TrimmedPlays
  <1> QED BY <1>4, <1>5, Zenon DEF at

\* What is on the sides of a change stays.
LEMMA SidesStay ==
    ASSUME NEW T, NEW s \in Seq(T), NEW i \in 1..Len(s), NEW x \in T, NEW w, IsExchange(w, s, i, x, T),
           NEW j \in 1..Len(s)
    PROVE  /\ j <= i => Ahead(w, j) = Ahead(s, j)
           /\ j >= i => Behind(w, j) = Behind(s, j)
  <1> DEFINE n == Len(s)
  <1>1. w \in Seq(T) /\ Len(w) = n /\ n \in Nat /\ \A m \in 1..n : m # i => w[m] = s[m]
    BY DEF IsExchange
  <1>2. j \in 1..Len(w) /\ i \in Int /\ j \in Int
    BY <1>1
  <1>3. IsPart(Ahead(s, j), s, 0, j - 1, T) /\ IsPart(Behind(s, j), s, j, n, T)
    BY SidesAre
  <1>4. IsPart(Ahead(w, j), w, 0, j - 1, T) /\ IsPart(Behind(w, j), w, j, n, T)
    BY <1>1, <1>2, SidesAre
  <1> HIDE DEF n
  <1>5. ASSUME j <= i PROVE Ahead(w, j) = Ahead(s, j)
    <2> DEFINE u == Ahead(w, j)
               v == Ahead(s, j)
               m == (j - 1) - 0
    <2>1. /\ u \in Seq(T) /\ Len(u) = m /\ \A l \in 1..m : 0 + l \in 1..Len(w) /\ u[l] = w[0 + l]
      BY <1>4, Zenon DEF IsPart
    <2>2. /\ v \in Seq(T) /\ Len(v) = m /\ \A l \in 1..m : v[l] = s[0 + l]
      BY <1>3, Zenon DEF IsPart
    <2>3. \A l \in 1..m : 0 + l # i
      BY <1>2, <1>5
    <2> HIDE DEF u, v, m
    <2>4. \A l \in 1..m : u[l] = v[l]
      BY <1>1, <2>1, <2>2, <2>3, Zenon
    <2>5. u = v
      BY <2>1, <2>2, <2>4, SameList
    <2> QED BY <2>5 DEF u, v
  <1>6. ASSUME j >= i PROVE Behind(w, j) = Behind(s, j)
    <2> DEFINE u == Behind(w, j)
               v == Behind(s, j)
               m == n - j
    <2>1. /\ u \in Seq(T) /\ Len(u) = m /\ \A l \in 1..m : j + l \in 1..Len(w) /\ u[l] = w[j + l]
      BY <1>4, Zenon DEF IsPart
    <2>2. /\ v \in Seq(T) /\ Len(v) = m /\ \A l \in 1..m : v[l] = s[j + l]
      BY <1>3, Zenon DEF IsPart
    <2>3. \A l \in 1..m : j + l # i
      BY <1>2, <1>6
    <2> HIDE DEF u, v, m
    <2>4. \A l \in 1..m : u[l] = v[l]
      BY <1>1, <2>1, <2>2, <2>3, Zenon
    <2>5. u = v
      BY <2>1, <2>2, <2>4, SameList
    <2> QED BY <2>5 DEF u, v
  <1> QED BY <1>5, <1>6

LEMMA AheadGrows ==
    ASSUME NEW T, NEW s \in Seq(T), NEW i \in 2..Len(s)
    PROVE  Ahead(s, i) = Ahead(s, i - 1) \o <<s[i - 1]>>
  <1> DEFINE u == Ahead(s, i)
             a == Ahead(s, i - 1)
             x == <<s[i - 1]>>
             m == i - 2
  <1>1. /\ i \in 1..Len(s) /\ i - 1 \in 1..Len(s) /\ m \in Nat /\ (i - 1) - 1 = m /\ m - 0 = m
        /\ (i - 1) - 0 = m + 1 /\ i - 1 = m + 1
    OBVIOUS
  <1>2. IsPart(u, s, 0, i - 1, T) /\ IsPart(a, s, 0, (i - 1) - 1, T) /\ a \in Seq(T) /\ s[i - 1] \in T
    BY <1>1, SidesAre
  <1>3. x \in Seq(T) /\ Len(x) = 1 /\ x[1] = s[i - 1]
    BY <1>2, OneIs
  <1> HIDE DEF u, a, x, m
  <1>4. /\ u \in Seq(T) /\ Len(u) = m + 1 /\ \A l \in 1..(m + 1) : u[l] = s[0 + l]
    BY <1>1, <1>2, Zenon DEF IsPart
  <1>5. /\ Len(a) = m /\ \A l \in 1..m : a[l] = s[0 + l]
    BY <1>1, <1>2, Zenon DEF IsPart
  <1>6. \A l \in 1..m : u[l] = a[l]
    <2>1. \A l \in 1..m : l \in 1..(m + 1)
      BY <1>1
    <2> QED BY <1>4, <1>5, <2>1, Zenon
  <1>7. u[m + 1] = x[1]
    <2>1. m + 1 \in 1..(m + 1) /\ 0 + (m + 1) = m + 1
      BY <1>1
    <2> QED BY <1>1, <1>3, <1>4, <2>1, Zenon
  <1>8. IsJoin(u, a, x, T)
    <2>1. \A l \in 1..1 : u[m + l] = x[l]
      BY <1>7
    <2> QED BY <1>3, <1>4, <1>5, <1>6, <2>1, Zenon DEF IsJoin
  <1>9. u = a \o x
    BY <1>2, <1>3, <1>8, JoinOnce
  <1> QED BY <1>9 DEF u, a, x

\* What is before a child and what it plays is before the next one.
LEMMA BeforeGrows ==
    ASSUME NEW k \in Seq(Playable), NEW i \in 2..Len(k)
    PROVE  PlaysBefore(k, i) = PlaysBefore(k, i - 1) \o FramesOf(k[i - 1])
  <1> DEFINE a == Ahead(k, i - 1)
             c == k[i - 1]
  <1>1. i - 1 \in 1..Len(k)
    OBVIOUS
  <1>2. a \in Seq(Playable) /\ c \in Playable
    BY <1>1, SidesPlay
  <1>3. Ahead(k, i) = a \o <<c>>
    BY AheadGrows
  <1> HIDE DEF a, c
  <1>4. <<c>> \in Seq(Playable) /\ Frames(<<c>>) = FramesOf(c)
    BY <1>2, FramesOfList
  <1>5. Frames(a \o <<c>>) = Frames(a) \o Frames(<<c>>)
    BY <1>2, <1>4, FramesJoin
  <1> QED BY <1>3, <1>4, <1>5, Zenon DEF a, c, PlaysBefore

\* The film u begins with the film p and ends with the film b, with n frames between.
Encloses(u, p, n, b) ==
    /\ SubSeq(u, 1, Len(p)) = p
    /\ SubSeq(u, Len(p) + n + 1, Len(u)) = b
    /\ Len(u) = Len(p) + n + Len(b)

LEMMA FilmEncloses ==
    ASSUME NEW p \in Film, NEW m \in Film, NEW b \in Film, NEW n, n = Len(m)
    PROVE  Encloses(p \o m \o b, p, n, b)
  <1> DEFINE pm == p \o m
             mb == m \o b
             u == pm \o b
  <1>1. pm \in Film /\ Len(pm) = Len(p) + n /\ mb \in Film
    BY FilmIs
  <1>2. u = p \o mb
    BY FilmGoesOn
  <1> HIDE DEF pm, mb
  <1>3. SubSeq(u, Len(pm) + 1, Len(u)) = b /\ Len(u) = Len(pm) + Len(b)
    BY <1>1, FilmIsCut, FilmIs
  <1>4. SubSeq(p \o mb, 1, Len(p)) = p
    BY <1>1, FilmIsCut
  <1>5. SubSeq(u, 1, Len(p)) = p
    BY <1>2, <1>4, Zenon
  <1>6. p \o m \o b = u
    BY DEF pm
  <1> HIDE DEF u
  <1> QED BY <1>1, <1>3, <1>5, <1>6, Zenon DEF Encloses

\* The two items that a roll changes.
LEMMA RollInIs ==
    ASSUME NEW k \in Seq(Playable), NEW i \in 2..Len(k), IsItem(k[i]), IsItem(k[i - 1]),
           NEW d \in Int, d # 0, 0 - d < Duration(k[i - 1]), 0 - d <= k[i].range.start,
           AvailableRange(k[i]).dur > 0 => k[i].range.start + d >= AvailableRange(k[i]).start
    PROVE  RollIn(k, i, d) =
               Reranged(Reranged(k, i - 1, k[i - 1].range.start, Duration(k[i - 1]) + d),
                        i, k[i].range.start + d, Duration(k[i]) - d)
  <1> DEFINE r == k[i].range
             a == AvailableRange(k[i])
             p == Duration(k[i - 1])
             back == IF 0 - d > r.start THEN 0 - r.start ELSE d
             in == RollBack(k, i, back)
             start == IF a.dur # 0 /\ r.start + in < a.start THEN a.start ELSE r.start + in
             w == Stretch(k, i - 1, d)
  <1>1. k \in Seq(Children) /\ i \in 1..Len(k) /\ i - 1 \in 1..Len(k) /\ i > 1 /\ i - 1 # i
    BY PlayableAre
  <1>2. /\ r.start \in Int /\ r.dur \in Int /\ a.start \in Int /\ a.dur \in Nat
        /\ Duration(k[i]) = r.dur
    <2>1. k[i] \in Children
      BY <1>1
    <2> QED BY <1>1, <2>1, ItemIs, AvailableIs, ChildIs, ShowsItself DEF Span
  <1>3. p \in Int /\ p = k[i - 1].range.dur
    BY <1>1, ItemIs, ShowsItself
  <1>4. back = d
    BY <1>2
  <1>5. in = d
    <2>1. ~(p < 0 - d)
      BY <1>3
    <2> HIDE DEF back, p
    <2> QED BY <1>4, <2>1 DEF RollBack, p
  <1> HIDE DEF in, back
  <1>6. start = r.start + d
    BY <1>2, <1>5
  <1> HIDE DEF start
  <1>7. RollIn(k, i, d) = [w EXCEPT ![i].range = FromStartEnd(start, EndExclusive(r))]
    <2>1. RollIn(k, i, d) = [Stretch(k, i - 1, in) EXCEPT ![i].range = FromStartEnd(start, EndExclusive(r))]
      BY <1>1 DEF RollIn, in, back, start
    <2> QED BY <1>5, <2>1, Zenon
  <1>8. FromStartEnd(start, EndExclusive(r)) = TimeRange(r.start + d, r.dur - d)
    <2>1. EndExclusive(r) - start = r.dur - d
      BY <1>2, <1>6 DEF EndExclusive
    <2> QED BY <1>6, <2>1 DEF FromStartEnd
  <1>9. w = Reranged(k, i - 1, k[i - 1].range.start, p + d)
    <2> HIDE DEF p
    <2>1. w = Reranged(k, i - 1, k[i - 1].range.start, k[i - 1].range.dur + d)
      BY <1>1, StretchIs
    <2> QED BY <1>3, <2>1, Zenon
  <1>10. w \in Seq(Children) /\ i \in 1..Len(w) /\ w[i] = k[i]
    <2>1. k[i - 1].range.start \in Int /\ p + d \in Int
      BY <1>1, <1>3, ItemIs
    <2> HIDE DEF w, p
    <2>2. w \in Seq(Children) /\ Len(w) = Len(k) /\ w[i] = k[i]
      BY <1>1, <1>9, <2>1, RerangedIs, Unmoved
    <2> QED BY <1>1, <2>2
  <1> HIDE DEF w
  <1>11. [w EXCEPT ![i].range = TimeRange(r.start + d, r.dur - d)] = Reranged(w, i, r.start + d, r.dur - d)
    <2>1. r.start + d \in Int /\ r.dur - d \in Int /\ IsItem(w[i])
      BY <1>2, <1>10
    <2> HIDE DEF r
    <2>2. ASSUME NEW first \in Int, NEW long \in Int
          PROVE  [w EXCEPT ![i].range = TimeRange(first, long)] = Reranged(w, i, first, long)
      <3>1. w \in Seq(Children) /\ i \in 1..Len(w) /\ IsItem(w[i])
        BY <1>10, <2>1, Zenon
      <3> QED BY ONLY <3>1, first \in Int, long \in Int, ExceptRange
    <2> QED BY <2>1, <2>2, Zenon
  <1> QED BY <1>2, <1>7, <1>8, <1>9, <1>11, Zenon

\* What a roll of a head does to the track.
LEMMA RolledPlays ==
    ASSUME NEW k \in Seq(Playable), NEW i \in 2..Len(k), IsItem(k[i]), IsItem(k[i - 1]),
           NEW d \in Int, NEW m \in Nat, NEW n \in Nat, m = Duration(k[i - 1]), n = Duration(k[i]),
           d <= n, 0 - d <= m,
           NEW w, w = Reranged(Reranged(k, i - 1, k[i - 1].range.start, m + d), i, k[i].range.start + d, n - d)
    PROVE  /\ Encloses(Frames(k), PlaysBefore(k, i - 1), m + n, PlaysAfter(k, i))
           /\ Encloses(Frames(w), PlaysBefore(k, i - 1), m + n, PlaysAfter(k, i))
  <1> DEFINE j == i - 1
             c == k[j]
             e == k[i]
             s == c.range.start
             t == e.range.start + d
             p == m + d
             q == n - d
             P == PlaysBefore(k, j)
             B == PlaysAfter(k, i)
             X == FramesOf(c)
             Y == FramesOf(e)
             x == Shows(c, s, p)
             y == Shows(e, t, q)
             X2 == FramesOf(x)
             Y2 == FramesOf(y)
             k1 == Reranged(k, j, s, p)
  <1>1. /\ j \in 1..Len(k) /\ i \in 1..Len(k) /\ k \in Seq(Children) /\ j <= i /\ j # i /\ j <= j /\ i >= j
        /\ i >= i
    BY PlayableAre
  <1>2. c \in ItemRecords /\ e \in ItemRecords /\ s \in Int /\ t \in Int
    <2>1. IsItem(k[j]) /\ IsItem(k[i])
      OBVIOUS
    <2> HIDE DEF j
    <2>2. c \in ItemRecords /\ c.range.start \in Int
      BY <1>1, <2>1, ItemIs
    <2>3. e \in ItemRecords /\ e.range.start \in Int
      BY <1>1, <2>1, ItemIs
    <2> HIDE DEF c, e
    <2>4. e.range.start + d \in Int
      BY <2>3
    <2> QED BY <2>2, <2>3, <2>4, Zenon
  <1>3. P \in Film /\ B \in Film /\ X \in Film /\ Y \in Film /\ e \in Playable
    BY <1>1, SidesPlay
  <1>4. Len(X) = m /\ Len(Y) = n
    BY <1>1, ItemLasts DEF Lasts
  <1>5. p \in Nat /\ q \in Nat /\ p + q = m + n
    BY ONLY m \in Nat, n \in Nat, d \in Int, d <= n, 0 - d <= m
  <1>6. w = Reranged(k1, i, t, q) /\ IsItem(c) /\ IsItem(e)
    OBVIOUS
  <1> HIDE DEF c, e, s, t, p, q
  <1>7. x \in Playable /\ x \in Children /\ X2 \in Film /\ Len(X2) = p
    BY <1>2, <1>5, ShownFrames DEF Playable
  <1>8. Y2 \in Film /\ Len(Y2) = q
    BY <1>2, <1>5, ShownFrames
  <1>9. Frames(k) = (P \o X) \o Y \o B
    <2>1. Frames(k) = PlaysBefore(k, i) \o Y \o B
      BY <1>1, <1>6, ItemLasts DEF Lasts, e
    <2>2. PlaysBefore(k, i) = P \o X
      BY BeforeGrows DEF c
    <2> QED BY <2>1, <2>2, Zenon
  <1>10. IsExchange(k1, k, j, x, Children) /\ k1 \in Seq(Playable) /\ Len(k1) = Len(k)
    <2> HIDE DEF j
    <2>1. k1 \in Seq(Playable)
      BY <1>1, <1>2, <1>5, <1>6, RerangedPlays DEF c
    <2>2. p \in Int
      BY <1>5
    <2>3. IsExchange(Reranged(k, j, s, p), k, j, Shows(k[j], s, p), Children)
      BY <1>1, <1>2, <1>6, <2>2, RerangedIs DEF c
    <2> QED BY <2>1, <2>3, Zenon DEF IsExchange, c
  <1> HIDE DEF x, y, k1, X2, Y2, X, Y, P, B
  <1>11. k1[j] = x /\ k1[i] = e
    BY <1>1, <1>10, Zenon DEF IsExchange, e
  <1>12. Ahead(k1, j) = Ahead(k, j) /\ Behind(k1, i) = Behind(k, i)
    <2> HIDE DEF j
    <2>1. Ahead(k1, j) = Ahead(k, j)
      BY ONLY <1>1, <1>7, <1>10, SidesStay
    <2>2. Behind(k1, i) = Behind(k, i)
      BY <1>1, <1>7, <1>10, SidesStay
    <2> QED BY <2>1, <2>2
  <1>13. PlaysBefore(k1, i) = P \o X2 /\ PlaysAfter(k1, i) = B
    <2>1. i \in 2..Len(k1)
      BY <1>10
    <2>2. PlaysBefore(k1, i) = PlaysBefore(k1, j) \o FramesOf(k1[j])
      BY <1>10, <2>1, BeforeGrows
    <2> QED BY <1>11, <1>12, <2>2, Zenon DEF PlaysBefore, PlaysAfter, X2, P, B
  <1>14. Frames(w) = (P \o X2) \o Y2 \o B
    <2>1. i \in 1..Len(k1) /\ IsItem(k1[i])
      BY <1>1, <1>6, <1>10, <1>11
    <2>2. Frames(Reranged(k1, i, t, q)) =
              PlaysBefore(k1, i) \o FramesOf(Shows(k1[i], t, q)) \o PlaysAfter(k1, i)
      BY <1>2, <1>5, <1>10, <2>1, RerangedPlays
    <2> QED BY <1>6, <1>11, <1>13, <2>2, Zenon DEF y, Y2
  <1> HIDE DEF j
  <1> DEFINE XY == X \o Y
             XY2 == X2 \o Y2
  <1>15. XY \in Film /\ Len(XY) = m + n
    BY <1>3, <1>4, FilmIs
  <1>16. XY2 \in Film /\ Len(XY2) = m + n
    <2>1. XY2 \in Film /\ Len(XY2) = Len(X2) + Len(Y2)
      BY <1>7, <1>8, FilmIs
    <2> QED BY <1>5, <1>7, <1>8, <2>1, Zenon
  <1>17. Regrouped(P, X, Y, B) /\ Regrouped(P, X2, Y2, B)
    BY <1>3, <1>7, <1>8, FourFilms
  <1>18. Frames(k) = P \o XY \o B /\ Frames(w) = P \o XY2 \o B
    BY <1>9, <1>14, <1>17, Zenon DEF Regrouped
  <1> DEFINE all == m + n
  <1>19. all = Len(XY) /\ all = Len(XY2)
    BY <1>15, <1>16
  <1> HIDE DEF XY, XY2, all
  <1>20. Encloses(P \o XY \o B, P, all, B) /\ Encloses(P \o XY2 \o B, P, all, B)
    BY <1>3, <1>15, <1>16, <1>19, FilmEncloses
  <1> QED BY <1>18, <1>20, Zenon DEF all, P, B, j

LEMMA RollHolds == ASSUME TypeOK PROVE RollStaysBetween
  <1> SUFFICES ASSUME NEW i \in Items(kids), NEW d \in Deltas,
                      i > 1, IsItem(kids[i - 1]), d < Duration(kids[i]), 0 - d < Duration(kids[i - 1]),
                      0 - d <= kids[i].range.start,
                      AvailableRange(kids[i]).dur > 0 => kids[i].range.start + d >= AvailableRange(kids[i]).start
               PROVE  LET before == Frames(kids)
                          after == Frames(Roll(kids, i, d, 0).kids)
                          from == Places(kids)[i - 1].start
                          to == EndExclusive(Places(kids)[i])
                      IN  /\ Len(after) = Len(before)
                          /\ SubSeq(after, 1, from) = SubSeq(before, 1, from)
                          /\ SubSeq(after, to + 1, Len(after)) = SubSeq(before, to + 1, Len(before))
    BY DEF RollStaysBetween
  <1> DEFINE from == Places(kids)[i - 1].start
             to == EndExclusive(Places(kids)[i])
             m == Duration(kids[i - 1])
             n == Duration(kids[i])
             P == PlaysBefore(kids, i - 1)
             B == PlaysAfter(kids, i)
             w == Reranged(Reranged(kids, i - 1, kids[i - 1].range.start, m + d), i,
                           kids[i].range.start + d, n - d)
  <1>1. kids \in Seq(Children) /\ kids \in Seq(Playable) /\ d \in Int
    BY UsableIs, ArgumentsAre DEF TypeOK
  <1>2. i \in 1..Len(kids) /\ IsItem(kids[i]) /\ i - 1 \in 1..Len(kids) /\ i \in 2..Len(kids)
    BY <1>1 DEF Items
  <1>3. Lasts(kids, i - 1, from, m) /\ Lasts(kids, i, Places(kids)[i].start, n) /\ Places(kids)[i].dur = n
    BY <1>1, <1>2, ItemLasts
  <1>4. from \in Nat /\ m \in Nat /\ n \in Nat /\ Len(P) = from
    BY <1>3 DEF Lasts
  <1>5. to = from + m + n
    <2>1. to = Places(kids)[i].start + n /\ Places(kids)[i].start = Laid(kids)[i - 1]
      BY <1>3, Zenon DEF EndExclusive, Lasts
    <2>2. PlaysBefore(kids, i) = P \o FramesOf(kids[i - 1]) /\ Len(PlaysBefore(kids, i)) = Places(kids)[i].start
      BY <1>1, <1>2, <1>3, BeforeGrows DEF Lasts
    <2>3. P \in Film /\ FramesOf(kids[i - 1]) \in Film
      BY <1>1, <1>2, SidesPlay
    <2>4. Len(P \o FramesOf(kids[i - 1])) = Len(P) + Len(FramesOf(kids[i - 1]))
      BY <2>3, FilmIs
    <2>5. Len(FramesOf(kids[i - 1])) = m
      BY <1>3 DEF Lasts
    <2> HIDE DEF from, to, m, n, P
    <2>6. Places(kids)[i].start = from + m
      BY <1>4, <2>2, <2>4, <2>5, Zenon
    <2> QED BY <2>1, <2>6, Zenon
  <1>6. Encloses(Frames(kids), P, m + n, B) /\ Encloses(Frames(w), P, m + n, B)
    <2>1. d <= n /\ 0 - d <= m
      BY <1>1, <1>4
    <2> QED BY <1>1, <1>2, <1>4, <2>1, RolledPlays
  <1>7. Roll(kids, i, d, 0).kids = RollIn(kids, i, d)
    BY DEF Roll, RollOut, Done
  <1>8. CASE d = 0
    <2>1. RollIn(kids, i, d) = kids
      BY <1>8 DEF RollIn
    <2> QED BY <1>7, <2>1
  <1>9. CASE d # 0
    <2>1. RollIn(kids, i, d) = w
      BY <1>1, <1>2, <1>9, RollInIs
    <2> HIDE DEF w, P, B, from, to, m, n
    <2>2. from + (m + n) + 1 = to + 1
      BY <1>4, <1>5
    <2>3. /\ SubSeq(Frames(kids), 1, from) = P /\ SubSeq(Frames(w), 1, from) = P
          /\ SubSeq(Frames(kids), from + (m + n) + 1, Len(Frames(kids))) = B
          /\ SubSeq(Frames(w), from + (m + n) + 1, Len(Frames(w))) = B
          /\ Len(Frames(kids)) = Len(Frames(w))
      BY <1>4, <1>6, Zenon DEF Encloses
    <2> QED BY <1>7, <2>1, <2>2, <2>3, Zenon DEF from, to
  <1> QED BY <1>8, <1>9

--------------------------------------------------------------------------------
(* Tracks of items only.                                                       *)

\* Item i lasts from the i-th cut to the next.
Cuts(k, L, n) ==
    /\ n \in Nat /\ L \in [0..n -> Nat] /\ L[0] = 0 /\ EndOf(k) = L[n]
    /\ \A i, j \in 0..n : i <= j => L[i] <= L[j]
    /\ \A i \in 1..n : /\ IsItem(k[i]) /\ L[i - 1] < L[i] /\ Duration(k[i]) = L[i] - L[i - 1]
                       /\ Places(k)[i].start = L[i - 1] /\ Places(k)[i].dur = L[i] - L[i - 1]
                       /\ EndExclusive(Places(k)[i]) = L[i]

LEMMA CutsAre ==
    ASSUME NEW k \in Seq(Children), Usable(k), OnlyItems(k)
    PROVE  /\ Cuts(k, Laid(k), Len(k)) /\ k \in Seq(Playable)
           /\ SortedRanges(Places(k), Len(k))
  <1> DEFINE L == Laid(k)
             n == Len(k)
             longs == [i \in 1..n |-> Long(k[i])]
  <1>1. n \in Nat /\ \A i \in 1..n : k[i] \in Children /\ IsItem(k[i]) /\ Duration(k[i]) > 0
    BY DEF OnlyItems, Items, Usable
  <1>2. /\ IsSum(L, n, longs) /\ L \in [0..n -> Int] /\ L[0] = 0
        /\ \A i \in 1..n : L[i] = L[i - 1] + Long(k[i])
    BY LaidIs
  <1>3. \A i \in 1..n : Long(k[i]) = Duration(k[i]) /\ Long(k[i]) \in Nat
    BY <1>1, ChildIs DEF Long
  <1>4. longs \in [1..n -> Nat]
    BY <1>3
  <1>5. \A i \in 1..n : /\ Places(k)[i].start = L[i - 1] /\ Places(k)[i].dur = Duration(k[i])
    BY <1>1, PlaceIs
  <1>6. EndOf(k) = L[n]
    BY EndIs
  <1> HIDE DEF L, n, longs
  <1>7. (\A i \in 1..n : L[i - 1] <= L[i]) /\ (\A i \in 0..n : L[i] \in Nat)
    BY <1>1, <1>2, <1>4, SumsGrow
  <1>8. \A i, j \in 0..n : i <= j => L[i] <= L[j]
    BY <1>1, <1>2, <1>7, NeverFalls
  <1>9. L \in [0..n -> Nat]
    BY <1>2, <1>7
  <1>10. ASSUME NEW i \in 1..n
         PROVE  /\ IsItem(k[i]) /\ L[i - 1] < L[i] /\ Duration(k[i]) = L[i] - L[i - 1]
                /\ Places(k)[i].start = L[i - 1] /\ Places(k)[i].dur = L[i] - L[i - 1]
                /\ EndExclusive(Places(k)[i]) = L[i]
    <2>1. i - 1 \in 0..n /\ i \in 0..n
      BY <1>1
    <2>2. L[i - 1] \in Nat /\ L[i] \in Nat
      BY <1>7, <2>1, Zenon
    <2>3. L[i] = L[i - 1] + Duration(k[i]) /\ Duration(k[i]) > 0 /\ Duration(k[i]) \in Nat
      BY <1>1, <1>2, <1>3
    <2>4. Places(k)[i].start = L[i - 1] /\ Places(k)[i].dur = Duration(k[i])
      BY <1>5
    <2>5. EndExclusive(Places(k)[i]) = L[i - 1] + Duration(k[i])
      BY <2>4, Zenon DEF EndExclusive
    <2>6. IsItem(k[i])
      BY <1>1
    <2> QED BY ONLY <2>2, <2>3, <2>4, <2>5, <2>6
  <1>11. Cuts(k, L, n)
    BY <1>1, <1>2, <1>6, <1>8, <1>9, <1>10, Zenon DEF Cuts
  <1>12. SortedRanges(Places(k), n)
    <2> SUFFICES ASSUME NEW i \in 1..n, NEW j \in 1..n, i <= j
                 PROVE  /\ Places(k)[i].start <= Places(k)[j].start
                        /\ EndExclusive(Places(k)[i]) <= EndExclusive(Places(k)[j])
      BY DEF SortedRanges
    <2>1. i - 1 \in 0..n /\ j - 1 \in 0..n /\ i \in 0..n /\ j \in 0..n /\ i - 1 <= j - 1
      BY <1>1
    <2>2. L[i - 1] <= L[j - 1] /\ L[i] <= L[j]
      BY <1>8, <2>1
    <2> QED BY <1>10, <2>2
  <1> QED BY <1>11, <1>12, UsableIs DEF L, n

\* A range of frames of one item finds that item.
LEMMA FoundAlone ==
    ASSUME NEW k \in Seq(Children), Usable(k), OnlyItems(k), NEW i \in 1..Len(k),
           NEW r, r.start \in Int, r.dur \in Int, r.dur > 0,
           Laid(k)[i - 1] <= r.start, EndExclusive(r) <= Laid(k)[i]
    PROVE  ItemsIn(k, r) = <<i>>
  <1> DEFINE L == Laid(k)
             n == Len(k)
             all == Indices(k)
             at == {j \in 1..Len(all) : Intersects(Places(k)[j], r)}
             found == AllIn(all, Places(k), r)
  <1>1. Cuts(k, L, n) /\ SortedRanges(Places(k), n)
    BY CutsAre
  <1>2. LookedUp(all, Places(k), Places(k)) /\ Len(all) = n /\ n \in Nat
    BY PlacesMapped
  <1>3. all \in Seq(1..n) /\ \A j \in 1..n : all[j] = j
    BY <1>2, IndicesAre
  <1>4. ItemsIn(k, r) = found
    BY FoundIs DEF ChildrenIn
  <1> HIDE DEF all, L, n
  <1>5. \A j \in 1..n : /\ Places(k)[j].start = L[j - 1] /\ Places(k)[j].dur = L[j] - L[j - 1]
                        /\ EndExclusive(Places(k)[j]) = L[j] /\ L[j - 1] < L[j]
                        /\ L[j - 1] \in Nat /\ L[j] \in Nat
    <2> SUFFICES ASSUME NEW j \in 1..n
                 PROVE  /\ Places(k)[j].start = L[j - 1] /\ Places(k)[j].dur = L[j] - L[j - 1]
                        /\ EndExclusive(Places(k)[j]) = L[j] /\ L[j - 1] < L[j]
                        /\ L[j - 1] \in Nat /\ L[j] \in Nat
      OBVIOUS
    <2>1. j - 1 \in 0..n /\ j \in 0..n
      BY <1>2
    <2>2. L \in [0..n -> Nat]
      BY <1>1 DEF Cuts
    <2>3. L[j - 1] \in Nat /\ L[j] \in Nat
      BY <2>1, <2>2
    <2> QED BY <1>1, <2>3, Zenon DEF Cuts
  <1>6. \A j \in 1..Len(all) : Places(k)[j].dur > 0
    <2>1. \A a, b \in Nat : a < b => b - a > 0
      OBVIOUS
    <2> QED BY <1>2, <1>5, <2>1
  <1>7. FindsAll(all, Places(k), Places(k), r)
    BY <1>1, <1>2, <1>6, AllInFinds
  <1>8. i \in 1..n /\ i \in Int /\ L[i - 1] <= r.start /\ EndExclusive(r) <= L[i]
    BY <1>2 DEF L, n
  <1>9. EndExclusive(r) = r.start + r.dur
    BY DEF EndExclusive
  <1>10. at = {i}
    <2>1. ASSUME NEW j \in 1..n PROVE Intersects(Places(k)[j], r) <=> j = i
      <3>1. Intersects(Places(k)[j], r) <=> (L[j - 1] < EndExclusive(r) /\ L[j] > r.start)
        BY <1>5 DEF Intersects
      <3>2. CASE j = i
        <4>1. L[i - 1] \in Nat /\ L[i] \in Nat
          BY <1>5, <1>8
        <4> QED BY <1>8, <1>9, <3>1, <3>2, <4>1
      <3>3. CASE j < i
        <4>1. j \in 0..n /\ i - 1 \in 0..n /\ j <= i - 1
          BY <1>2, <1>8, <3>3
        <4>2. L[j] <= L[i - 1] /\ L[j] \in Nat /\ L[i - 1] \in Nat
          BY <1>1, <1>5, <1>8, <4>1 DEF Cuts
        <4>3. ~(L[j] > r.start)
          BY ONLY <1>8, <4>2, r.start \in Int
        <4> QED BY <3>1, <3>3, <4>3
      <3>4. CASE j > i
        <4>1. i \in 0..n /\ j - 1 \in 0..n /\ i <= j - 1
          BY <1>2, <1>8, <3>4
        <4>2. L[i] <= L[j - 1] /\ L[i] \in Nat /\ L[j - 1] \in Nat
          BY <1>1, <1>5, <1>8, <4>1 DEF Cuts
        <4>3. EndExclusive(r) \in Int
          BY <1>9
        <4>4. ~(L[j - 1] < EndExclusive(r))
          BY ONLY <1>8, <4>2, <4>3
        <4> QED BY <3>1, <3>4, <4>4
      <3> QED BY <1>8, <3>2, <3>3, <3>4
    <2>2. \A j : j \in at <=> (j \in 1..n /\ j = i)
      BY <1>2, <2>1
    <2> QED BY <1>8, <2>2
  <1>11. Min(at) = i /\ Max(at) = i
    <2>1. Min({i}) = i /\ Max({i}) = i
      BY <1>8 DEF Min, Max
    <2> QED BY <1>10, <2>1, Zenon
  <1>12. found = SubSeq(all, i, i)
    BY <1>7, <1>10, <1>11 DEF FindsAll
  <1>13. SubSeq(all, i, i) = <<i>>
    <2> DEFINE u == SubSeq(all, i, i)
               v == <<i>>
               h == i - 1
    <2>1. h \in 0..Len(all) /\ i \in 0..Len(all) /\ h <= i /\ h + 1 = i /\ i - h = 1
      BY <1>2, <1>8
    <2>2. v \in Seq(1..n) /\ Len(v) = 1 /\ v[1] = i
      BY <1>8, OneIs
    <2> HIDE DEF h, v
    <2>3. IsPart(SubSeq(all, h + 1, i), all, h, i, 1..n)
      BY <1>3, <2>1, PartIs
    <2>4. u = SubSeq(all, h + 1, i)
      BY <2>1, Zenon
    <2> HIDE DEF u
    <2>5. u \in Seq(1..n) /\ Len(u) = 1 /\ \A j \in 1..1 : u[j] = all[h + j]
      BY <2>1, <2>3, <2>4, Zenon DEF IsPart
    <2>6. u[1] = i
      BY <1>3, <1>8, <2>1, <2>5
    <2>7. u = v
      BY <2>2, <2>5, <2>6, SameList
    <2> QED BY <2>7 DEF u, v
  <1> QED BY <1>4, <1>12, <1>13

--------------------------------------------------------------------------------
(* What overwrite and fill do to the track.                                    *)

\* Of n frames from t on, those before x, m frames from x on, and those after them.
Stretches(t, n, x, m, first, second) ==
    /\ first \in Nat /\ second \in Nat /\ m + second \in Nat /\ first \in 0..n
    /\ n - first = m + second /\ first + m + second = n /\ t + first = x

LEMMA ThreeStretches ==
    ASSUME NEW t \in Nat, NEW n \in Nat, NEW x \in Int, NEW m \in Nat, t <= x, x + m <= t + n,
           NEW first, first = x - t, NEW second, second = n - m - first
    PROVE  Stretches(t, n, x, m, first, second)
  BY DEF Stretches

\* A part of an item that may be empty.
PlaysPart(p, c, s, n) == p \in Seq(Playable) /\ Frames(p) = FramesOf(Shows(c, s, n))

LEMMA PartPlays ==
    ASSUME NEW c \in ItemRecords, NEW s \in Int, NEW n \in Nat,
           NEW p, p = IF n = 0 THEN <<>> ELSE <<Shows(c, s, n)>>
    PROVE  PlaysPart(p, c, s, n)
  <1> DEFINE x == Shows(c, s, n)
  <1>1. x \in Playable /\ FramesOf(x) \in Film /\ Len(FramesOf(x)) = n
    BY ShownFrames
  <1>2. <<x>> \in Seq(Playable) /\ Frames(<<x>>) = FramesOf(x) /\ Frames(<<>>) = <<>>
    BY <1>1, FramesOfList
  <1>3. n = 0 => FramesOf(x) = <<>>
    BY <1>1, EmptySeq, Zenon DEF Film
  <1>4. <<>> \in Seq(Playable)
    OBVIOUS
  <1> HIDE DEF x
  <1>5. CASE n = 0
    BY <1>2, <1>3, <1>4, <1>5 DEF x, PlaysPart
  <1>6. CASE n # 0
    BY <1>2, <1>6 DEF x, PlaysPart
  <1> QED BY <1>5, <1>6

\* In the track u, P and then M play where in k there are n frames of item i; P is what
\* is before the item and its first frames, and Q what is left of it and what is after it.
Splits(k, i, t, n, P, M, Q) ==
    /\ P \in Film /\ M \in Film /\ Q \in Film /\ Len(P) = t /\ Len(M) = n
    /\ Frames(k) = P \o M \o Q
    /\ \E h \in Film, e \in Film :
           /\ P = PlaysBefore(k, i) \o h /\ Q = e \o PlaysAfter(k, i)
           /\ Len(h) + n + Len(e) = Duration(k[i])

NewPlaysWithin(k, i, c, r, new) ==
    \E P, M, Q : /\ Splits(k, i, r.start, r.dur, P, M, Q)
                 /\ Frames(OverwriteWithin(k, i, c, r)) = P \o FramesOf(new) \o Q

LEMMA WithinPlays ==
    ASSUME NEW k \in Seq(Playable), NEW i \in 1..Len(k), IsItem(k[i]), NEW c \in ItemRecords,
           NEW r, r.start \in Int, r.dur \in Nat,
           Places(k)[i].start <= r.start, r.start + r.dur <= Places(k)[i].start + Duration(k[i]),
           NEW new, new = IF r.dur < c.range.dur /\ ~(k[i].kind = "gap" /\ c.warped)
                          THEN Shows(c, k[i].range.start, r.dur) ELSE c,
           new \in Playable
    PROVE  NewPlaysWithin(k, i, c, r, new)
  <1> DEFINE old == k[i]
             t == Places(k)[i].start
             n == Duration(old)
             first == r.start - t
             m == r.dur
             second == n - m - first
             s == old.range.start
             p == IF first = 0 THEN <<>> ELSE <<Shows(old, s, first)>>
             q == IF second = 0 THEN <<>> ELSE <<Shows(old, s + first + m, second)>>
             a == Ahead(k, i)
             b == Behind(k, i)
             A == PlaysBefore(k, i)
             B == PlaysAfter(k, i)
             F == FramesOf(Shows(old, s, first))
             M == FramesOf(Shows(old, s + first, m))
             S == FramesOf(Shows(old, s + first + m, second))
             R == FramesOf(Shows(old, s + first, m + second))
             N == FramesOf(new)
  <1>1. A \in Film /\ B \in Film /\ a \in Seq(Playable) /\ b \in Seq(Playable) /\ k \in Seq(Children)
    BY SidesPlay, PlayableAre
  <1>2. old \in ItemRecords /\ s \in Int /\ n = old.range.dur
    BY <1>1, ItemIs, ShowsItself
  <1>3. Lasts(k, i, t, n)
    BY ItemLasts
  <1>4. t \in Nat /\ n \in Nat /\ Len(A) = t /\ Frames(k) = A \o FramesOf(old) \o B
    BY <1>3 DEF Lasts
  <1>5. /\ first \in Nat /\ second \in Nat /\ m \in Nat /\ m + second \in Nat /\ first \in 0..n
        /\ n - first = m + second /\ first + m + second = n /\ t + first = r.start
    <2>1. t <= r.start /\ r.start + r.dur <= t + n
      OBVIOUS
    <2>2. t \in Nat /\ n \in Nat
      BY <1>4
    <2> DEFINE x == r.start
    <2>3. first = x - t /\ second = n - m - first /\ t <= x /\ x + m <= t + n /\ x \in Int /\ m \in Nat
      BY <2>1
    <2> HIDE DEF t, n, first, second, m, x
    <2>4. Stretches(t, n, x, m, first, second)
      BY <2>2, <2>3, ThreeStretches
    <2> QED BY <2>3, <2>4, Zenon DEF Stretches, x
  <1>6. OverwriteWithin(k, i, c, r) = a \o p \o <<new>> \o q \o b
    BY DEF OverwriteWithin, Ahead, Behind
  <1> HIDE DEF old, t, n, first, m, second, s
  <1>7. s + first \in Int /\ s + first + m \in Int
    BY <1>2, <1>5
  <1>8. F \in Film /\ Len(F) = first /\ M \in Film /\ Len(M) = m /\ S \in Film /\ Len(S) = second
    BY <1>2, <1>5, <1>7, ShownFrames
  <1>9. p \in Seq(Playable) /\ Frames(p) = F
    <2>1. p = IF first = 0 THEN <<>> ELSE <<Shows(old, s, first)>>
      OBVIOUS
    <2> HIDE DEF p
    <2>2. PlaysPart(p, old, s, first)
      BY <1>2, <1>5, <2>1, PartPlays
    <2> QED BY <2>2, Zenon DEF PlaysPart, F
  <1>10. q \in Seq(Playable) /\ Frames(q) = S
    <2>1. q = IF second = 0 THEN <<>> ELSE <<Shows(old, s + first + m, second)>>
      OBVIOUS
    <2> DEFINE x == s + first + m
    <2>2. x \in Int
      BY <1>7
    <2> HIDE DEF q, x
    <2>3. q = IF second = 0 THEN <<>> ELSE <<Shows(old, x, second)>>
      BY <2>1 DEF x
    <2>4. PlaysPart(q, old, x, second)
      BY <1>2, <1>5, <2>2, <2>3, PartPlays
    <2> QED BY <2>4, Zenon DEF PlaysPart, S, x
  <1>11. <<new>> \in Seq(Playable) /\ Frames(<<new>>) = N /\ N \in Film
    BY FramesOfList, FramesOfOne
  <1>12. FramesOf(old) = F \o R /\ R = M \o S
    <2>1. FramesOf(old) = F \o FramesOf(Shows(old, s + first, n - first))
      <3>1. Duration(old) = n /\ s = old.range.start
        BY DEF n, s
      <3>2. FramesOf(old) = FramesOf(Shows(old, old.range.start, first))
                                \o FramesOf(Shows(old, old.range.start + first, n - first))
        BY <1>2, <1>4, <1>5, <3>1, SplitPlays
      <3> QED BY <3>1, <3>2, Zenon
    <2>2. R = M \o S
      <3> DEFINE x == s + first
      <3>1. x \in Int
        BY <1>7
      <3> HIDE DEF x
      <3>2. SplitsAt(old, x, m, second)
        BY <1>2, <1>5, <3>1, SplitShows
      <3> QED BY <3>2, Zenon DEF SplitsAt, x, R, M, S
    <2> QED BY <1>5, <2>1, <2>2, Zenon
  <1> HIDE DEF p, q, a, b, A, B, F, M, S, R, N
  <1>13. Frames(k) = (A \o F) \o M \o (S \o B)
    <2>1. M \o S \in Film
      BY <1>8, FilmIs
    <2>2. A \o F \in Film
      BY <1>1, <1>8, FilmIs
    <2>3. Regrouped(A, F, M \o S, B)
      BY <1>1, <1>8, <2>1, FourFilms
    <2>4. Regrouped(A \o F, M, S, B)
      BY <1>1, <1>8, <2>2, FourFilms
    <2> QED BY <1>4, <1>12, <2>3, <2>4, Zenon DEF Regrouped
  <1>14. Frames(a \o p \o <<new>> \o q \o b) = (A \o F) \o N \o (S \o B)
    <2> DEFINE ap == a \o p
               apn == ap \o <<new>>
               all == apn \o q
    <2>1. Frames(ap) = A \o F /\ ap \in Seq(Playable)
      <3>1. Frames(ap) = Frames(a) \o Frames(p) /\ ap \in Seq(Playable)
        BY <1>1, <1>9, FramesJoin
      <3> QED BY <1>9, <3>1, Zenon DEF A, a, PlaysBefore
    <2> HIDE DEF ap
    <2>2. Frames(apn) = (A \o F) \o N /\ apn \in Seq(Playable)
      <3>1. Frames(apn) = Frames(ap) \o Frames(<<new>>) /\ apn \in Seq(Playable)
        BY <1>11, <2>1, FramesJoin
      <3> QED BY <1>11, <2>1, <3>1, Zenon
    <2> HIDE DEF apn
    <2>3. Frames(all) = (A \o F) \o N \o S /\ all \in Seq(Playable)
      <3>1. Frames(all) = Frames(apn) \o Frames(q) /\ all \in Seq(Playable)
        BY <1>10, <2>2, FramesJoin
      <3> QED BY <1>10, <2>2, <3>1, Zenon
    <2> HIDE DEF all
    <2>4. Frames(all \o b) = (A \o F) \o N \o S \o B
      <3>1. Frames(all \o b) = Frames(all) \o Frames(b)
        BY <1>1, <2>3, FramesJoin
      <3> QED BY <2>3, <3>1, Zenon DEF B, b, PlaysAfter
    <2>5. ((A \o F) \o N) \o S \o B = ((A \o F) \o N) \o (S \o B)
      <3> DEFINE u == (A \o F) \o N
      <3>1. u \in Film
        <4>1. A \o F \in Film
          BY <1>1, <1>8, FilmIs
        <4> QED BY <1>11, <4>1, FilmIs
      <3> HIDE DEF u
      <3>2. (u \o S) \o B = u \o (S \o B)
        BY <1>1, <1>8, <3>1, FilmGoesOn
      <3> QED BY <3>2 DEF u
    <2> QED BY <2>4, <2>5, Zenon DEF all, apn, ap
  <1> DEFINE P == A \o F
             Q == S \o B
  <1>15. P \in Film /\ Q \in Film /\ Len(P) = r.start
    <2>1. P \in Film /\ Len(P) = Len(A) + Len(F) /\ Q \in Film
      BY <1>1, <1>8, FilmIs
    <2> QED BY <1>4, <1>5, <1>8, <2>1, Zenon
  <1>16. Splits(k, i, r.start, r.dur, P, M, Q)
    <2>1. Len(F) + r.dur + Len(S) = Duration(k[i]) /\ Len(M) = r.dur
      BY <1>5, <1>8 DEF m, n, old
    <2>2. \E h \in Film, e \in Film :
              /\ P = PlaysBefore(k, i) \o h /\ Q = e \o PlaysAfter(k, i)
              /\ Len(h) + r.dur + Len(e) = Duration(k[i])
      BY <1>8, <2>1, Zenon DEF A, B
    <2> QED BY <1>8, <1>13, <1>15, <2>1, <2>2, Zenon DEF Splits
  <1> HIDE DEF P, Q
  <1>17. Frames(OverwriteWithin(k, i, c, r)) = P \o N \o Q
    BY <1>6, <1>14, Zenon DEF P, Q
  <1> QED BY <1>16, <1>17, Zenon DEF N, NewPlaysWithin

FiveGrouped(a, m, n, l, b) == (a \o m) \o n \o (l \o b) = a \o (m \o n \o l) \o b

LEMMA FiveFilms ==
    ASSUME NEW a \in Film, NEW m \in Film, NEW n \in Film, NEW l \in Film, NEW b \in Film
    PROVE  FiveGrouped(a, m, n, l, b)
  <1> DEFINE mn == m \o n
  <1>1. mn \in Film /\ l \o b \in Film
    BY FilmIs
  <1>2. Regrouped(a, m, n, l \o b)
    BY <1>1, FourFilms
  <1> HIDE DEF mn
  <1>3. Regrouped(a, mn, l, b)
    BY <1>1, FourFilms
  <1>4. (a \o m) \o n \o (l \o b) = a \o mn \o (l \o b)
    BY <1>2, Zenon DEF Regrouped, mn
  <1>5. a \o mn \o (l \o b) = a \o (mn \o l) \o b
    BY <1>3, Zenon DEF Regrouped
  <1> QED BY <1>4, <1>5, Zenon DEF mn, FiveGrouped

\* Overwriting a range inside one item of a track of items.
LEMMA OverwriteAlone ==
    ASSUME NEW k \in Seq(Children), Usable(k), OnlyItems(k), NEW i \in 1..Len(k), NEW c, NEW template,
           NEW r, r.start \in Int, r.dur \in Int, r.dur > 0,
           Places(k)[i].start <= r.start, EndExclusive(r) <= EndExclusive(Places(k)[i])
    PROVE  Overwrite(k, c, r, TRUE, template) = Done(OverwriteWithin(k, i, c, r))
  <1> DEFINE L == Laid(k)
             n == Len(k)
             bare == WithoutTransitions(k, r)
             found == ItemsIn(k, r)
             at == Places(k)[i]
             after == Done(OverwriteWithin(k, i, c, r))
  <1>1. Cuts(k, L, n)
    BY CutsAre
  <1>2. bare = k
    BY WithoutIs
  <1>3. at.start = L[i - 1] /\ EndExclusive(at) = L[i] /\ L[i] <= L[n] /\ EndOf(k) = L[n]
            /\ L[i - 1] \in Nat /\ L[i] \in Nat /\ L[n] \in Nat
    <2>1. i \in 1..n /\ i \in 0..n /\ n \in 0..n /\ i <= n /\ i - 1 \in 0..n /\ L \in [0..n -> Nat]
      <3>1. n \in Nat /\ L \in [0..n -> Nat]
        BY <1>1, Zenon DEF Cuts
      <3> QED BY <3>1
    <2>2. L[i - 1] \in Nat /\ L[i] \in Nat /\ L[n] \in Nat
      BY <2>1
    <2> QED BY <1>1, <2>1, <2>2, Zenon DEF Cuts
  <1>4. EndExclusive(r) = r.start + r.dur
    BY DEF EndExclusive
  <1>5. L[i - 1] <= r.start /\ EndExclusive(r) <= L[i]
    BY <1>3
  <1>6. found = <<i>>
    BY <1>5, FoundAlone
  <1>7. ~(r.start >= EndOf(k)) /\ ~(r.start < 0 /\ EndExclusive(r) < 0)
    <2> DEFINE s == r.start
               m == r.dur
               e == EndExclusive(r)
    <2>1. s \in Int /\ m \in Int /\ m > 0 /\ e = s + m
      BY <1>4
    <2> HIDE DEF s, m, e, L
    <2>2. ~(s >= L[n]) /\ ~(e < 0)
      BY <1>3, <1>5, <2>1 DEF s, e
    <2> QED BY <1>3, <2>2, Zenon DEF s, e
  <1>8. OverwriteItems(k, c, r) = after
    <2>1. Len(found) = 1 /\ found[1] = i /\ found # <<>>
      BY <1>6
    <2>2. Holds(Places(k)[i], r)
      BY DEF Holds
    <2> QED BY <2>1, <2>2 DEF OverwriteItems
  <1> HIDE DEF bare, after
  <1> QED BY <1>2, <1>7, <1>8, Zenon DEF Overwrite, bare, after

\* What an item shows, it shows as fast as before.
LEMMA ShowsWarped ==
    ASSUME NEW c \in ItemRecords, NEW s, NEW n PROVE Shows(c, s, n).warped = c.warped
  BY DEF Shows, ItemRecords, ItemsOf

\* Up to frame t and from frame end on, two films are one.
SameOutside(u, w, t, end) ==
    /\ Len(w) = Len(u) /\ SubSeq(w, 1, t) = SubSeq(u, 1, t)
    /\ SubSeq(w, end + 1, Len(w)) = SubSeq(u, end + 1, Len(u))

\* A part of an item that is overwritten with as many frames.
LEMMA OverwrittenStays ==
    ASSUME NEW k \in Seq(Playable), NEW i \in 1..Len(k), IsItem(k[i]), NEW c \in ItemRecords, ~c.warped,
           NEW r, r.start \in Int, r.dur \in Nat, r.dur <= c.range.dur,
           Places(k)[i].start <= r.start, r.start + r.dur <= Places(k)[i].start + Duration(k[i])
    PROVE  SameOutside(Frames(k), Frames(OverwriteWithin(k, i, c, r)), r.start,
                       Places(k)[i].start + Duration(k[i]))
  <1> DEFINE old == k[i]
             n == Duration(old)
             A == PlaysBefore(k, i)
             B == PlaysAfter(k, i)
             w == OverwriteWithin(k, i, c, r)
             new == IF r.dur < c.range.dur /\ ~(old.kind = "gap" /\ c.warped)
                        THEN Shows(c, old.range.start, r.dur) ELSE c
             m == r.dur
  <1>1. A \in Film /\ B \in Film /\ FramesOf(old) \in Film /\ old \in Playable /\ k \in Seq(Children)
    BY SidesPlay, PlayableAre
  <1>2. Lasts(k, i, Places(k)[i].start, n)
    BY ItemLasts
  <1>3. Encloses(Frames(k), A, n, B)
    <2>1. Len(FramesOf(old)) = n /\ Frames(k) = A \o FramesOf(old) \o B
      BY <1>2, Zenon DEF Lasts
    <2> HIDE DEF A, B, n
    <2>2. Encloses(A \o FramesOf(old) \o B, A, n, B)
      BY <1>1, <2>1, FilmEncloses
    <2> QED BY <2>1, <2>2, Zenon
  <1>4. new \in Playable /\ IsItem(new) /\ Long(new) = m
    <2>1. c \in Children /\ IsItem(c) /\ c.range.dur \in Int /\ Long(c) = c.range.dur
      <3>1. c \in Children
        BY ItemsAreChildren
      <3> QED BY <3>1, ChildIs
    <2>2. old \in ItemRecords /\ old.range.start \in Int
      BY <1>1, ItemIs, ShowsItself
    <2>3. CASE r.dur < c.range.dur
      <3>1. new = Shows(c, old.range.start, r.dur)
        BY <2>3
      <3>2. new \in Playable /\ IsItem(new) /\ Duration(new) = m
        BY <2>2, <3>1, ShownFrames
      <3> QED BY <3>2 DEF Long
    <2>4. CASE ~(r.dur < c.range.dur)
      <3>1. new = c /\ r.dur = c.range.dur
        BY <2>1, <2>4
      <3>2. c \in Playable
        BY <2>1, <3>1 DEF Playable
      <3> QED BY <2>1, <3>1, <3>2
    <2> QED BY <2>3, <2>4
  <1>5. PICK P, M, Q : Splits(k, i, r.start, r.dur, P, M, Q) /\ Frames(w) = P \o FramesOf(new) \o Q
    <2> DEFINE x == new
    <2>1. x = new
      OBVIOUS
    <2>2. x \in Playable
      BY <1>4
    <2>3. x = IF r.dur < c.range.dur /\ ~(k[i].kind = "gap" /\ c.warped)
                  THEN Shows(c, k[i].range.start, r.dur) ELSE c
      OBVIOUS
    <2> HIDE DEF x, new, w
    <2>4. NewPlaysWithin(k, i, c, r, x)
      BY <2>2, <2>3, WithinPlays
    <2> QED BY <2>1, <2>4, Zenon DEF w, NewPlaysWithin
  <1> DEFINE N == FramesOf(new)
  <1>6. N \in Film /\ Len(N) = m
    <2> HIDE DEF new
    <2> QED BY <1>4, FramesOfOne
  <1>7. PICK h \in Film, e \in Film : P = A \o h /\ Q = e \o B /\ Len(h) + m + Len(e) = n
    BY <1>5, Zenon DEF Splits
  <1> HIDE DEF A, B, n, w, new, N, m
  <1> DEFINE he == h \o N
             hNe == he \o e
  <1>8. he \in Film /\ hNe \in Film /\ Len(hNe) = n
    <2>1. he \in Film /\ Len(he) = Len(h) + Len(N)
      BY <1>6, <1>7, FilmIs
    <2> HIDE DEF he
    <2>2. hNe \in Film /\ Len(hNe) = Len(he) + Len(e)
      BY <1>7, <2>1, FilmIs
    <2> QED BY <1>6, <1>7, <2>1, <2>2, Zenon
  <1>9. Frames(w) = A \o hNe \o B
    <2>1. (A \o h) \o N \o (e \o B) = A \o hNe \o B
      <3>1. FiveGrouped(A, h, N, e, B)
        BY <1>1, <1>6, <1>7, FiveFilms
      <3> QED BY <3>1, Zenon DEF FiveGrouped
    <2>2. Frames(w) = (A \o h) \o N \o (e \o B)
      <3> HIDE DEF he, hNe
      <3> QED BY <1>5, <1>7, Zenon DEF N
    <2> QED BY <2>1, <2>2, Zenon
  <1>10. Encloses(Frames(w), A, n, B)
    <2> HIDE DEF hNe
    <2>1. Encloses(A \o hNe \o B, A, n, B)
      BY <1>1, <1>8, FilmEncloses
    <2> QED BY <1>9, <2>1, Zenon
  <1>11. Encloses(Frames(k), P, r.dur, Q) /\ Encloses(Frames(w), P, r.dur, Q) /\ Len(P) = r.start
    <2>1. P \in Film /\ M \in Film /\ Q \in Film /\ Len(P) = r.start /\ Len(M) = r.dur
              /\ Frames(k) = P \o M \o Q /\ Frames(w) = P \o N \o Q
      BY <1>5, Zenon DEF Splits, N
    <2>2. Encloses(P \o M \o Q, P, r.dur, Q) /\ Encloses(P \o N \o Q, P, r.dur, Q)
      BY <1>6, <2>1, FilmEncloses DEF m
    <2> QED BY <2>1, <2>2, Zenon
  <1>12. Len(A) = Places(k)[i].start
    BY <1>2, Zenon DEF Lasts, A
  <1> QED BY <1>3, <1>10, <1>11, <1>12, Zenon DEF Encloses, SameOutside, n, w, old

\* What fill by Sequence puts into the gap, and where.
FillsWith(k, i, c, t) ==
    \E x, r :
        /\ x \in ItemRecords /\ Fill(k, c, t, "Sequence") = Overwrite(k, x, r, TRUE, NULL)
        /\ ~x.warped /\ r.start = t /\ r.dur \in Nat /\ r.dur > 0 /\ r.dur <= x.range.dur
        /\ Places(k)[i].start <= t /\ t + r.dur <= EndExclusive(Places(k)[i])

LEMMA FilledIs ==
    ASSUME NEW k \in Seq(Children), Usable(k), OnlyItems(k), NEW c \in Templates, NEW t \in Int,
           NEW i, i = ChildAt(k, t), IsGapAt(k, i), Intersects(c.range, k[i].range)
    PROVE  FillsWith(k, i, c, t)
  <1> DEFINE gap == k[i].range
             at == Places(k)[i]
             start == Later(c.range.start, gap.start)
             n == IF EndExclusive(c.range) > EndExclusive(gap) THEN EndExclusive(gap) - start
                  ELSE c.range.dur - (start - c.range.start)
             rest == EndExclusive(at) - t
             x == Shows(c, start, n)
             m == Earlier(n, rest)
             r == TimeRange(t, m)
  <1>1. i \in 1..Len(k) /\ k[i] \in Children /\ IsItem(k[i]) /\ k[i].kind = "gap"
    BY DEF IsGapAt, IsItem
  <1>2. gap.start \in Int /\ gap.dur \in Int /\ gap.dur > 0
    <2>1. i \in DOMAIN k
      BY DEF IsGapAt
    <2>2. Duration(k[i]) > 0
      BY <1>1, <2>1 DEF Usable
    <2> QED BY <1>1, <2>2, ChildIs
  <1>3. c \in ItemRecords /\ c.range.start \in Int /\ c.range.dur \in Nat /\ c.range.dur > 0 /\ ~c.warped
    BY TemplateIs
  <1>4. /\ at.start \in Int /\ at.dur \in Int /\ at.start <= t /\ t < EndExclusive(at)
        /\ EndExclusive(at) = at.start + at.dur
    <2>1. ContainsTime(at, t)
      <3>1. i # 0
        BY <1>1
      <3> QED BY <3>1, ChildAtIs
    <2> QED BY <1>1, <2>1, PlaceIs DEF ContainsTime, EndExclusive
  <1>5. start \in Int /\ n \in Int /\ n > 0
    <2> DEFINE cs == c.range.start
               cd == c.range.dur
               gs == gap.start
               gd == gap.dur
    <2>1. EndExclusive(c.range) = cs + cd /\ EndExclusive(gap) = gs + gd
      BY DEF EndExclusive
    <2>2. cs < gs + gd /\ cs + cd > gs
      BY <2>1 DEF Intersects
    <2>3. start = IF cs <= gs THEN gs ELSE cs
      BY DEF Later
    <2> DEFINE ce == EndExclusive(c.range)
               ge == EndExclusive(gap)
    <2>4. n = IF ce > ge THEN ge - start ELSE cd - (start - cs)
      OBVIOUS
    <2>5. cs \in Int /\ cd \in Int /\ cd > 0 /\ gs \in Int /\ gd \in Int /\ gd > 0
      BY <1>2, <1>3
    <2>6. ce = cs + cd /\ ge = gs + gd
      BY <2>1
    <2> HIDE DEF cs, cd, gs, gd, ce, ge, start, n
    <2>7. start \in Int
      BY <2>3, <2>5
    <2> QED BY <2>2, <2>3, <2>4, <2>5, <2>6, <2>7
  <1>6. Fill(k, c, t, "Sequence") = Overwrite(k, x, r, TRUE, NULL)
    BY DEF Fill, FillSequence
  <1>7. x \in ItemRecords /\ ~x.warped /\ x.range.dur = n
    <2> HIDE DEF start, n
    <2>1. x \in ItemRecords /\ x.range = TimeRange(start, n)
      BY <1>3, <1>5, ShowsIs
    <2>2. x.warped = c.warped
      BY <1>3, ShowsWarped
    <2> QED BY <1>3, <2>1, <2>2 DEF TimeRange
  <1>8. r.start = t /\ r.dur = m
    BY DEF TimeRange
  <1>9. m \in Nat /\ m > 0 /\ m <= n /\ t + m <= EndExclusive(at)
    <2> HIDE DEF start, n, at
    <2>1. rest \in Int /\ rest > 0 /\ t + rest = EndExclusive(at)
      BY <1>4
    <2> HIDE DEF rest
    <2>2. m = IF n <= rest THEN n ELSE rest
      BY DEF Earlier
    <2>3. EndExclusive(at) \in Int
      BY <1>4
    <2> HIDE DEF m
    <2> QED BY <1>5, <2>1, <2>2, <2>3
  <1> HIDE DEF x, r, m, n
  <1>10. /\ Fill(k, c, t, "Sequence") = Overwrite(k, x, r, TRUE, NULL)
         /\ ~x.warped /\ r.start = t /\ r.dur \in Nat /\ r.dur > 0 /\ r.dur <= x.range.dur
         /\ Places(k)[i].start <= t /\ t + r.dur <= EndExclusive(Places(k)[i])
    BY <1>4, <1>6, <1>7, <1>8, <1>9, Zenon
  <1> QED BY <1>7, <1>10, Zenon DEF FillsWith

LEMMA FillHolds == ASSUME TypeOK PROVE FillStaysInGap
  <1> SUFFICES ASSUME NEW c \in Templates, NEW t \in Times, OnlyItems(kids),
                      IsGapAt(kids, ChildAt(kids, t)), Intersects(c.range, kids[ChildAt(kids, t)].range)
               PROVE  SameOutside(Frames(kids), Frames(Fill(kids, c, t, "Sequence").kids), t,
                                  EndExclusive(Places(kids)[ChildAt(kids, t)]))
    BY DEF FillStaysInGap, SameOutside
  <1> DEFINE i == ChildAt(kids, t)
             at == Places(kids)[i]
  <1>1. kids \in Seq(Children) /\ kids \in Seq(Playable) /\ Usable(kids) /\ t \in Int
    BY UsableIs, ArgumentsAre DEF TypeOK
  <1>2. i \in 1..Len(kids) /\ IsItem(kids[i])
    BY <1>1 DEF IsGapAt, IsItem
  <1>3. Lasts(kids, i, at.start, Duration(kids[i])) /\ at.dur = Duration(kids[i])
    BY <1>1, <1>2, ItemLasts
  <1>4. EndExclusive(at) = at.start + Duration(kids[i]) /\ at.start \in Nat /\ Duration(kids[i]) \in Nat
    BY <1>3, Zenon DEF EndExclusive, Lasts
  <1>5. PICK x, r :
               /\ x \in ItemRecords /\ Fill(kids, c, t, "Sequence") = Overwrite(kids, x, r, TRUE, NULL)
               /\ ~x.warped /\ r.start = t /\ r.dur \in Nat /\ r.dur > 0 /\ r.dur <= x.range.dur
               /\ at.start <= t /\ t + r.dur <= EndExclusive(at)
    <2>1. i = ChildAt(kids, t) /\ IsGapAt(kids, i) /\ Intersects(c.range, kids[i].range)
      OBVIOUS
    <2> HIDE DEF i
    <2>2. FillsWith(kids, i, c, t)
      BY <1>1, <2>1, FilledIs
    <2> QED BY <2>2, Zenon DEF FillsWith, at
  <1> DEFINE w == OverwriteWithin(kids, i, x, r)
  <1> HIDE DEF i, at, w
  <1>6. EndExclusive(r) = t + r.dur
    BY <1>5 DEF EndExclusive
  <1>7. Overwrite(kids, x, r, TRUE, NULL) = Done(w)
    <2>1. r.start \in Int /\ r.dur \in Int /\ r.dur > 0 /\ at.start <= r.start
              /\ EndExclusive(r) <= EndExclusive(at)
      BY <1>1, <1>5, <1>6
    <2> QED BY <1>1, <1>2, <2>1, OverwriteAlone DEF at, w
  <1>8. SameOutside(Frames(kids), Frames(w), r.start, at.start + Duration(kids[i]))
    <2>1. r.start \in Int /\ r.dur \in Nat /\ at.start <= r.start
              /\ r.start + r.dur <= at.start + Duration(kids[i])
      BY <1>1, <1>4, <1>5
    <2> QED BY <1>1, <1>2, <1>5, <2>1, OverwrittenStays DEF at, w
  <1>9. Fill(kids, c, t, "Sequence").kids = w
    BY <1>5, <1>7, DoneIs, Zenon
  <1> QED BY <1>4, <1>5, <1>8, <1>9, Zenon DEF at, i

\* Removing, filling a gap, trimming a tail and rolling a head change nothing outside what
\* they are about, after any edits of any track.
THEOREM RestStays == Spec => []RestStaysInPlace
  <1>1. TypeOK => RestStaysInPlace
    BY RemoveHolds, FillHolds, TrimHolds, RollHolds DEF RestStaysInPlace
  <1> QED BY <1>1, TypesHold, PTL

--------------------------------------------------------------------------------
(* What slice does to the track.                                               *)

\* A new child between two parts of a track.
LEMMA ChildInserted ==
    ASSUME NEW T, NEW p \in Seq(T), NEW b \in Seq(T), NEW x \in T, NEW n, n = Len(p)
    PROVE  InsertChild(p \o b, n, x) = p \o <<x>> \o b
  <1> DEFINE s == p \o b
             w == InsertChild(s, n, x)
  <1>1. /\ s \in Seq(T) /\ Len(s) = Len(p) + Len(b) /\ Len(p) \in Nat /\ Len(b) \in Nat
    <2>1. IsJoin(s, p, b, T)
      BY JoinIs
    <2> QED BY <2>1 DEF IsJoin
  <1>2. n \in Int
    BY <1>1
  <1>3. IsInserted(w, s, n, x, T)
    BY <1>1, <1>2, InsertChildIs
  <1>4. CASE b = <<>>
    <2>1. s = p /\ Len(s) = n
      BY <1>1, <1>4, ConcatEmptySeq
    <2> HIDE DEF s, w
    <2>2. w = s \o <<x>>
      <3>1. n >= Len(s)
        BY <1>2, <2>1
      <3> QED BY <1>3, <3>1 DEF IsInserted
    <2>3. p \o <<x>> \o b = p \o <<x>>
      <3> DEFINE v == p \o <<x>>
      <3>1. v \in Seq(T)
        OBVIOUS
      <3> HIDE DEF v
      <3>2. v \o <<>> = v
        BY <3>1, ConcatEmptySeq
      <3> QED BY <1>4, <3>2 DEF v
    <2> QED BY <2>1, <2>2, <2>3, Zenon DEF w, s
  <1>5. CASE b # <<>>
    <2>1. Len(b) # 0
      BY <1>5, EmptySeq, Zenon
    <2>2. n \in 0..(Len(s) - 1) /\ n + 1 = Len(p) + 1
      <3> DEFINE l == Len(b)
                 m == Len(p)
      <3>1. m \in Nat /\ l \in Nat /\ l # 0 /\ Len(s) = m + l /\ n = m
        BY <1>1, <2>1
      <3> HIDE DEF l, m, s
      <3>2. n \in 0..(Len(s) - 1) /\ n + 1 = m + 1
        BY ONLY <3>1
      <3> QED BY <3>2 DEF m
    <2> HIDE DEF s, w
    <2>3. w = InsertAt(s, n + 1, x)
      BY <1>3, <2>2, Zenon DEF IsInserted
    <2>4. InsertAt(p \o b, Len(p) + 1, x) = p \o <<x>> \o b
      BY CutIs
    <2> QED BY <2>2, <2>3, <2>4, Zenon DEF s, w
  <1> QED BY <1>4, <1>5

\* An item begins where what is before it ends.
BeginsAt(w, t) == \E j \in Items(w) : Places(w)[j].start = t

LEMMA ItemBegins ==
    ASSUME NEW p \in Seq(Playable), NEW y \in Playable, IsItem(y), NEW b \in Seq(Playable),
           NEW w, w = p \o (<<y>> \o b), NEW t, t = Len(Frames(p))
    PROVE  BeginsAt(w, t)
  <1> DEFINE l == <<y>> \o b
             j == Len(p) + 1
  <1>1. l \in Seq(Playable) /\ Len(l) = 1 + Len(b) /\ l[1] = y
    <2>1. <<y>> \in Seq(Playable) /\ Len(<<y>>) = 1 /\ <<y>>[1] = y
      BY OneIs
    <2> DEFINE one == <<y>>
    <2> HIDE DEF one
    <2>2. IsJoin(one \o b, one, b, Playable) /\ one \in Seq(Playable) /\ Len(one) = 1 /\ one[1] = y
      BY <2>1, JoinIs DEF one
    <2>3. 1 \in 1..Len(one)
      BY <2>2
    <2> QED BY <2>2, <2>3 DEF IsJoin, one
  <1> HIDE DEF l
  <1>2. IsJoin(w, p, l, Playable) /\ w \in Seq(Playable)
    BY <1>1, JoinIs DEF l, IsJoin
  <1>3. /\ Len(p) \in Nat /\ Len(b) \in Nat /\ Len(w) = Len(p) + (1 + Len(b)) /\ j \in 1..Len(w)
        /\ w[j] = y /\ j - 1 = Len(p)
    <2>1. Len(p) \in Nat /\ Len(b) \in Nat
      OBVIOUS
    <2>2. Len(w) = Len(p) + (1 + Len(b)) /\ \A i \in 1..Len(l) : w[Len(p) + i] = l[i]
      BY <1>1, <1>2, Zenon DEF IsJoin
    <2> DEFINE m == Len(p)
               n == Len(b)
    <2>3. m \in Nat /\ n \in Nat /\ Len(w) = m + (1 + n) /\ Len(l) = 1 + n
      BY <1>1, <2>1, <2>2
    <2> HIDE DEF m, n
    <2>4. m + 1 \in 1..Len(w) /\ (m + 1) - 1 = m /\ 1 \in 1..Len(l)
      BY <2>3
    <2>5. w[m + 1] = y
      BY <1>1, <2>2, <2>4 DEF m
    <2> QED BY <2>1, <2>2, <2>4, <2>5 DEF m
  <1>4. Ahead(w, j) = p
    <2>1. SubSeq(w, 1, Len(p)) = p
      BY <1>1, JoinIsCut DEF l
    <2> QED BY <1>3, <2>1, Zenon DEF Ahead
  <1> HIDE DEF j
  <1>5. IsItem(w[j])
    BY <1>3
  <1>6. Lasts(w, j, Places(w)[j].start, Duration(w[j]))
    BY <1>2, <1>3, <1>5, ItemLasts
  <1>7. Places(w)[j].start = t
    BY <1>4, <1>6, Zenon DEF Lasts, PlaysBefore
  <1>8. j \in Items(w)
    BY <1>2, <1>3, <1>5 DEF Items
  <1> QED BY <1>7, <1>8, Zenon DEF BeginsAt

\* Transitions play nothing, and so what is before and after one is all that plays.
LEMMA NothingBetween ==
    ASSUME NEW k \in Seq(Playable), NEW i \in 1..Len(k), i < Len(k), ~IsItem(k[i + 1])
    PROVE  PlaysAfter(k, i) = PlaysAfter(k, i + 1)
  <1> DEFINE j == i + 1
             b == Behind(k, i)
             c == Behind(k, j)
             x == <<k[j]>>
  <1>1. j \in 1..Len(k) /\ j \in 2..Len(k) /\ j - 1 = i
    OBVIOUS
  <1>2. b \in Seq(Playable) /\ c \in Seq(Playable) /\ k[j] \in Playable
    BY <1>1, SidesPlay
  <1>3. x \in Seq(Playable) /\ Frames(x) = FramesOf(k[j]) /\ FramesOf(k[j]) \in Film
    BY <1>2, FramesOfList, FramesOfOne
  <1>4. FramesOf(k[j]) = <<>>
    <2>1. Len(FramesOf(k[j])) = Long(k[j])
      BY <1>2, FramesOfOne
    <2>2. Long(k[j]) = 0
      BY DEF Long
    <2>3. FramesOf(k[j]) \in Seq(Frame)
      BY <1>3 DEF Film
    <2> QED BY <2>1, <2>2, <2>3, EmptySeq, Zenon
  <1>5. b = x \o c
    <2> DEFINE m == Len(k)
    <2>1. IsPart(b, k, i, m, Playable) /\ IsPart(c, k, j, m, Playable)
      BY <1>1, SidesAre
    <2>2. IsJoin(b, x, c, Playable)
      <3>1. m \in Nat /\ i \in Int /\ j = i + 1 /\ j <= m
        BY <1>1
      <3>2. Len(b) = m - i /\ Len(c) = m - j /\ b \in Seq(Playable)
        BY <2>1, Zenon DEF IsPart
      <3>3. Len(x) = 1 /\ x[1] = k[j]
        BY OneIs
      <3> HIDE DEF b, c, x, m, j
      <3>4. Len(b) = Len(x) + Len(c)
        BY <3>1, <3>2, <3>3
      <3>5. \A q \in 1..Len(x) : b[q] = x[q]
        <4>1. 1 \in 1..(m - i)
          BY <3>1
        <4>2. b[1] = k[i + 1]
          BY <2>1, <4>1 DEF IsPart
        <4> QED BY <3>1, <3>3, <4>2
      <3>6. \A q \in 1..Len(c) : b[Len(x) + q] = c[q]
        <4> SUFFICES ASSUME NEW q \in 1..Len(c) PROVE b[1 + q] = c[q]
          BY <3>3
        <4>1. q \in 1..(m - j) /\ 1 + q \in 1..(m - i) /\ i + (1 + q) = j + q
          BY <3>1, <3>2
        <4>2. c[q] = k[j + q] /\ b[1 + q] = k[i + (1 + q)]
          BY <2>1, <4>1, Zenon DEF IsPart
        <4> QED BY <4>1, <4>2, Zenon
      <3> QED BY <3>2, <3>4, <3>5, <3>6, Zenon DEF IsJoin
    <2> HIDE DEF b, c, x
    <2> QED BY <1>2, <1>3, <2>2, JoinOnce
  <1>6. Frames(x \o c) = Frames(x) \o Frames(c) /\ Frames(c) \in Film
    <2> HIDE DEF x, c
    <2> QED BY <1>2, <1>3, FramesJoin, FramesAreLong
  <1>7. <<>> \o Frames(c) = Frames(c)
    BY <1>6, FilmIs
  <1> QED BY <1>3, <1>4, <1>5, <1>6, <1>7, Zenon DEF PlaysAfter

\* The track after a slice: what was ahead, the two parts, and what plays on as before.
SlicedInto(k, i, t, p, y) ==
    \E b \in Seq(Playable) :
        SliceItem(k, i, t, TRUE) = Done(p \o <<y>> \o b) /\ Frames(b) = PlaysAfter(k, i)

LEMMA SlicedIs ==
    ASSUME NEW k \in Seq(Playable), NEW i \in 1..Len(k), IsItem(k[i]), NEW t \in Int,
           i - 1 \notin CutBy(k, i, t),
           NEW n \in Nat, n = t - Places(k)[i].start, n # 0, NEW m \in Nat, m = Duration(k[i]) - n,
           NEW x, x = Shows(k[i], k[i].range.start, n), NEW y, y = Shows(k[i], k[i].range.start + n, m),
           NEW p, p = Ahead(k, i) \o <<x>>
    PROVE  SlicedInto(k, i, t, p, y)
  <1> DEFINE cut == CutBy(k, i, t)
             w == Reranged(k, i, k[i].range.start, n)
             cutItem == [k EXCEPT ![i].range.dur = n]
             before == IF i + 1 \in cut THEN RemoveAt(cutItem, i + 1) ELSE cutItem
             bare == IF i - 1 \in cut THEN RemoveAt(before, i - 1) ELSE before
             b == IF i + 1 \in cut THEN Behind(k, i + 1) ELSE Behind(k, i)
  <1>1. k \in Seq(Children) /\ k[i] \in ItemRecords /\ k[i].range.start \in Int /\ Len(k) \in Nat
            /\ k[i].range.start + n \in Int
    BY PlayableAre, ItemIs
  <1>2. x \in Playable /\ y \in Playable
    BY <1>1, ShownFrames
  <1>3. cutItem = w
    <2>1. ASSUME NEW a \in Int PROVE [k EXCEPT ![i].range.dur = a] = Reranged(k, i, k[i].range.start, a)
      BY ONLY <1>1, i \in 1..Len(k), IsItem(k[i]), a \in Int, ExceptDur
    <2>2. n \in Int
      OBVIOUS
    <2> QED BY <1>1, <2>1, <2>2, Zenon
  <1>4. w = Ahead(k, i) \o <<x>> \o Behind(k, i) /\ w \in Seq(Playable)
    BY <1>1, RerangedPlays
  <1>5. Ahead(k, i) \in Seq(Playable) /\ Behind(k, i) \in Seq(Playable) /\ Len(Ahead(k, i)) = i - 1
    BY SidesAre
  <1>6. p \in Seq(Playable) /\ Len(p) = i
    <2>1. <<x>> \in Seq(Playable) /\ Len(<<x>>) = 1
      BY <1>2, OneIs
    <2> DEFINE one == <<x>>
    <2> HIDE DEF one
    <2>2. IsJoin(Ahead(k, i) \o one, Ahead(k, i), one, Playable)
      BY <1>5, <2>1, JoinIs DEF one
    <2>3. p \in Seq(Playable) /\ Len(p) = Len(Ahead(k, i)) + Len(one)
      BY <2>2, Zenon DEF IsJoin, one
    <2>4. (i - 1) + 1 = i
      OBVIOUS
    <2> QED BY <1>5, <2>1, <2>3, <2>4, Zenon DEF one
  <1>7. IsExchange(w, k, i, x, Playable)
    <2>1. IsExchange(w, k, i, x, Children) /\ w \in Seq(Playable)
      BY <1>1, <1>4, RerangedIs
    <2> QED BY <2>1, Zenon DEF IsExchange
  <1>8. SliceItem(k, i, t, TRUE) = Done(InsertChild(bare, i, y))
    <2> HIDE DEF bare
    <2>1. bare = LET before_ == IF i + 1 \in CutBy(k, i, t) THEN RemoveAt([k EXCEPT ![i].range.dur = n], i + 1)
                                ELSE [k EXCEPT ![i].range.dur = n]
                 IN  IF i - 1 \in CutBy(k, i, t) THEN RemoveAt(before_, i - 1) ELSE before_
      BY DEF bare
    <2> QED BY <2>1 DEF SliceItem
  <1>9. bare = before
    OBVIOUS
  <1>10. bare = p \o b /\ b \in Seq(Playable) /\ Frames(b) = PlaysAfter(k, i)
    <2>1. CASE i + 1 \notin cut
      <3>1. before = w /\ b = Behind(k, i)
        BY <1>3, <2>1
      <3> QED BY <1>4, <1>5, <1>9, <3>1 DEF PlaysAfter
    <2>2. CASE i + 1 \in cut
      <3> DEFINE j == i + 1
      <3>1. j \in 1..Len(k) /\ j \in 2..Len(k) /\ j - 1 = i /\ ~IsItem(k[j]) /\ i < Len(k) /\ j >= i
        BY <1>1, <2>2 DEF CutBy
      <3>2. before = RemoveAt(w, j) /\ b = Behind(k, j)
        BY <1>3, <2>2
      <3>3. Frames(b) = PlaysAfter(k, i)
        BY <3>1, <3>2, NothingBetween DEF PlaysAfter
      <3>4. b \in Seq(Playable)
        BY <3>1, <3>2, SidesPlay
      <3>5. RemoveAt(w, j) = Ahead(w, j) \o Behind(w, j)
        BY RemoveIs, Zenon
      <3>6. w \in Seq(Playable) /\ Len(w) = Len(k) /\ w[i] = x
        BY <1>7, Zenon DEF IsExchange
      <3>7. Ahead(w, j) = Ahead(w, i) \o <<w[i]>>
        <4>1. j \in 2..Len(w)
          BY <3>1, <3>6
        <4> HIDE DEF w
        <4>2. Ahead(w, j) = Ahead(w, j - 1) \o <<w[j - 1]>>
          BY <3>6, <4>1, AheadGrows
        <4> QED BY <3>1, <4>2, Zenon
      <3> HIDE DEF w, j
      <3>8. Ahead(w, i) = Ahead(k, i) /\ Behind(w, j) = Behind(k, j)
        <4>1. i <= i /\ j >= i /\ i \in 1..Len(k) /\ j \in 1..Len(k)
          BY <3>1
        <4>2. ASSUME NEW q \in 1..Len(k)
              PROVE  (q <= i => Ahead(w, q) = Ahead(k, q)) /\ (q >= i => Behind(w, q) = Behind(k, q))
          BY ONLY <1>2, <1>7, k \in Seq(Playable), i \in 1..Len(k), q \in 1..Len(k), SidesStay
        <4> QED BY <4>1, <4>2, Zenon
      <3>9. before = p \o b
        BY <3>2, <3>5, <3>6, <3>7, <3>8, Zenon
      <3> QED BY <1>9, <3>3, <3>4, <3>9
    <2> QED BY <2>1, <2>2
  <1> HIDE DEF bare, b
  <1>11. InsertChild(p \o b, i, y) = p \o <<y>> \o b
    BY ONLY <1>2, <1>6, <1>10, ChildInserted
  <1>12. SliceItem(k, i, t, TRUE) = Done(p \o <<y>> \o b)
    BY <1>8, <1>10, <1>11, Zenon
  <1> QED BY <1>10, <1>12, Zenon DEF SlicedInto

\* Both parts play what the item did, and the second begins at the cut.
LEMMA SlicedPlays ==
    ASSUME NEW k \in Seq(Playable), NEW i \in 1..Len(k), IsItem(k[i]), NEW t \in Int,
           i - 1 \notin CutBy(k, i, t), ContainsTime(Places(k)[i], t),
           NEW w, w = SliceItem(k, i, t, TRUE).kids
    PROVE  Frames(w) = Frames(k) /\ BeginsAt(w, t)
  <1> DEFINE at == Places(k)[i]
             c == k[i]
             s == c.range.start
             l == Duration(c)
             n == t - at.start
             m == l - n
             x == Shows(c, s, n)
             y == Shows(c, s + n, m)
             p == Ahead(k, i) \o <<x>>
             A == PlaysBefore(k, i)
             B == PlaysAfter(k, i)
  <1>1. Lasts(k, i, at.start, l) /\ at.dur = l
    BY ItemLasts
  <1>2. /\ at.start \in Nat /\ l \in Nat /\ Len(A) = at.start /\ Frames(k) = A \o FramesOf(c) \o B
    BY <1>1, Zenon DEF Lasts
  <1>3. n \in Nat /\ n < l /\ m \in Nat /\ n \in 0..l /\ at.start + n = t
    <2>1. at.start <= t /\ t < at.start + l
      BY <1>1 DEF ContainsTime, EndExclusive
    <2> QED BY <1>2, <2>1
  <1>4. c \in ItemRecords /\ s \in Int /\ k \in Seq(Children) /\ Ahead(k, i) \in Seq(Playable)
            /\ A \in Film /\ B \in Film
    BY PlayableAre, ItemIs, SidesPlay
  <1>5. CASE n = 0
    <2>1. SliceItem(k, i, t, TRUE) = Done(k)
      BY <1>5 DEF SliceItem
    <2>2. w = k
      BY <2>1, DoneIs
    <2>3. i \in Items(w)
      <3>1. i \in DOMAIN k
        OBVIOUS
      <3> QED BY <2>2, <3>1, Zenon DEF Items
    <2>4. Places(w)[i].start = t
      <3>1. at.start = t
        <4> DEFINE a == at.start
        <4> HIDE DEF n, a
        <4>1. a \in Nat /\ n = 0 /\ a + n = t
          BY <1>2, <1>3, <1>5 DEF a
        <4>2. a = t
          BY ONLY <4>1
        <4> QED BY <4>2 DEF a
      <3> QED BY <2>2, <3>1
    <2> QED BY <2>2, <2>3, <2>4, Zenon DEF BeginsAt
  <1>6. CASE n # 0
    <2>1. SlicedInto(k, i, t, p, y)
      <3>1. n = t - Places(k)[i].start /\ m = Duration(k[i]) - n /\ x = Shows(k[i], k[i].range.start, n)
                /\ y = Shows(k[i], k[i].range.start + n, m) /\ p = Ahead(k, i) \o <<x>>
        OBVIOUS
      <3> HIDE DEF n, m, x, y, p
      <3> QED BY <1>3, <1>6, <3>1, SlicedIs
    <2>2. PICK b \in Seq(Playable) :
              SliceItem(k, i, t, TRUE) = Done(p \o <<y>> \o b) /\ Frames(b) = B
      BY <2>1, Zenon DEF SlicedInto
    <2>3. w = p \o <<y>> \o b
      BY <2>2, DoneIs, Zenon
    <2>4. x \in Playable /\ y \in Playable /\ IsItem(y) /\ FramesOf(x) \in Film /\ FramesOf(y) \in Film
              /\ Len(FramesOf(x)) = n
      <3>1. s + n \in Int
        BY <1>3, <1>4
      <3> HIDE DEF c, n, m, s
      <3> QED BY <1>3, <1>4, <3>1, ShownFrames
    <2>5. FramesOf(c) = FramesOf(x) \o FramesOf(y)
      <3>1. Duration(c) = l /\ s = c.range.start
        OBVIOUS
      <3> HIDE DEF c, n, s, l
      <3>2. FramesOf(c) = FramesOf(Shows(c, c.range.start, n)) \o FramesOf(Shows(c, c.range.start + n, l - n))
        BY <1>2, <1>3, <1>4, <3>1, SplitPlays
      <3> QED BY <3>1, <3>2, Zenon
    <2>6. Frames(p) = A \o FramesOf(x) /\ p \in Seq(Playable)
      <3>1. <<x>> \in Seq(Playable) /\ Frames(<<x>>) = FramesOf(x)
        BY <2>4, FramesOfList
      <3> HIDE DEF x
      <3>2. Frames(p) = Frames(Ahead(k, i)) \o Frames(<<x>>) /\ p \in Seq(Playable)
        BY <1>4, <3>1, FramesJoin
      <3> QED BY <3>1, <3>2, Zenon DEF PlaysBefore
    <2>7. <<y>> \in Seq(Playable) /\ Frames(<<y>>) = FramesOf(y)
      BY <2>4, FramesOfList
    <2> HIDE DEF p, x, y, A, B, c, n, m, s, l
    <2> DEFINE one == <<y>>
               py == p \o one
    <2> HIDE DEF one
    <2>8. Frames(py) = Frames(p) \o Frames(one) /\ py \in Seq(Playable)
      BY <2>6, <2>7, FramesJoin DEF one
    <2> HIDE DEF py
    <2>9. Frames(py \o b) = Frames(py) \o Frames(b)
      BY <2>2, <2>8, FramesJoin
    <2>10. Frames(w) = (A \o FramesOf(x)) \o FramesOf(y) \o B
      BY <2>2, <2>3, <2>6, <2>7, <2>8, <2>9, Zenon DEF py, one
    <2>11. (A \o FramesOf(x)) \o FramesOf(y) = A \o (FramesOf(x) \o FramesOf(y))
      BY <1>4, <2>4, FilmGoesOn
    <2>12. Frames(w) = Frames(k)
      BY <1>2, <2>5, <2>10, <2>11, Zenon
    <2>13. BeginsAt(w, t)
      <3>1. (p \o one) \o b = p \o (one \o b)
        <4>1. one \in Seq(Playable)
          BY <2>7 DEF one
        <4>2. b \in Seq(Playable)
          OBVIOUS
        <4>3. GoesOn(p, one, b)
          BY ONLY <2>6, <4>1, <4>2, ListGoesOn
        <4> QED BY <4>3, Zenon DEF GoesOn
      <3>2. w = p \o (<<y>> \o b)
        BY <2>3, <3>1, Zenon DEF one
      <3>3. t = Len(Frames(p))
        <4>1. Len(A \o FramesOf(x)) = Len(A) + Len(FramesOf(x))
          BY <1>4, <2>4, FilmIs
        <4> QED BY <1>2, <1>3, <2>4, <2>6, <4>1, Zenon
      <3> QED BY <2>2, <2>4, <2>6, <3>2, <3>3, ItemBegins
    <2> QED BY <2>12, <2>13
  <1> QED BY <1>5, <1>6

LEMMA SliceHolds == ASSUME TypeOK PROVE SlicePlaysTheSame
  <1> SUFFICES ASSUME NEW t \in Times, FindsItem(kids, t),
                      ChildAt(kids, t) - 1 \notin CutBy(kids, ChildAt(kids, t), t)
               PROVE  /\ Frames(Slice(kids, t, TRUE).kids) = Frames(kids)
                      /\ \E j \in Items(Slice(kids, t, TRUE).kids) :
                             Places(Slice(kids, t, TRUE).kids)[j].start = t
    BY DEF SlicePlaysTheSame
  <1> DEFINE i == ChildAt(kids, t)
             w == SliceItem(kids, i, t, TRUE).kids
  <1>1. kids \in Seq(Children) /\ kids \in Seq(Playable) /\ t \in Int
    BY UsableIs, ArgumentsAre DEF TypeOK
  <1>2. i \in 1..Len(kids) /\ IsItem(kids[i]) /\ ContainsTime(Places(kids)[i], t)
    BY <1>1, FoundItem
  <1>3. Slice(kids, t, TRUE) = SliceItem(kids, i, t, TRUE)
    BY DEF Slice
  <1> HIDE DEF i
  <1>4. w = SliceItem(kids, i, t, TRUE).kids /\ i - 1 \notin CutBy(kids, i, t)
    BY DEF i
  <1> HIDE DEF w
  <1>5. Frames(w) = Frames(kids) /\ BeginsAt(w, t)
    BY <1>1, <1>2, <1>4, SlicedPlays
  <1> QED BY <1>3, <1>4, <1>5, Zenon DEF BeginsAt

\* A cut changes nothing of what the track plays, and puts the start of an item at its time.
THEOREM SlicesPlayTheSame == Spec => []SlicePlaysTheSame
  <1>1. TypeOK => SlicePlaysTheSame
    BY SliceHolds
  <1> QED BY <1>1, TypesHold, PTL

--------------------------------------------------------------------------------
(* What insert does to the track.                                              *)

LEMMA TemplatePlays ==
    ASSUME NEW c \in Templates
    PROVE  /\ c \in ItemRecords /\ c \in Playable /\ IsItem(c) /\ ~c.warped
           /\ FramesOf(c) \in Film /\ Len(FramesOf(c)) = Duration(c)
           /\ Duration(c) \in Nat /\ Duration(c) > 0 /\ Duration(c) = c.range.dur
  <1>1. c \in ItemRecords /\ c.range.dur \in Nat /\ c.range.dur > 0 /\ ~c.warped
    BY TemplateIs
  <1>2. c \in Children
    BY <1>1, ItemsAreChildren
  <1>3. IsItem(c) /\ Duration(c) = c.range.dur /\ Long(c) = c.range.dur
    BY <1>1, <1>2, ChildIs
  <1>4. c \in Playable
    BY <1>1, <1>2, <1>3 DEF Playable
  <1>5. FramesOf(c) \in Film /\ Len(FramesOf(c)) = Long(c)
    BY <1>4, FramesOfOne
  <1> QED BY <1>1, <1>3, <1>4, <1>5

\* Before the end of a track of items, a child contains the time.
LEMMA SomeChildAt ==
    ASSUME NEW k \in Seq(Children), Usable(k), OnlyItems(k), NEW t \in Nat, t < EndOf(k)
    PROVE  FindsItem(k, t)
  <1> DEFINE L == Laid(k)
             n == Len(k)
             all == Indices(k)
             S == {j \in 0..n : t < L[j]}
             at == {i \in 1..Len(all) : ContainsTime(Places(k)[i], t)}
  <1>1. Cuts(k, L, n) /\ SortedRanges(Places(k), n)
    BY CutsAre
  <1>2. n \in Nat /\ L \in [0..n -> Nat] /\ L[0] = 0 /\ EndOf(k) = L[n]
    BY <1>1, Zenon DEF Cuts
  <1>3. LookedUp(all, Places(k), Places(k)) /\ Len(all) = n
    BY PlacesMapped
  <1>4. \A j \in 1..n : all[j] = j
    BY <1>2, <1>3, IndicesAre
  <1> HIDE DEF L, n, all
  <1>5. S \in SUBSET Nat /\ n \in S
    BY <1>2
  <1>6. PICK m \in S : \A j \in S : m <= j
    BY <1>5, SmallestNat
  <1>7. m \in 1..n /\ L[m - 1] <= t /\ t < L[m]
    <2>1. m \in 0..n /\ t < L[m]
      BY <1>6
    <2>2. m # 0
      BY <1>2, <2>1
    <2>3. m \in 1..n /\ m - 1 \in 0..n /\ m - 1 < m
      BY <1>2, <2>1, <2>2
    <2>4. m - 1 \notin S
      BY <1>6, <2>3
    <2>5. L[m - 1] \in Nat
      BY <1>2, <2>3
    <2>6. ~(t < L[m - 1])
      BY <2>3, <2>4
    <2> QED BY <2>1, <2>3, <2>5, <2>6
  <1>8. ContainsTime(Places(k)[m], t)
    <2>1. Places(k)[m].start = L[m - 1] /\ EndExclusive(Places(k)[m]) = L[m]
      BY <1>1, <1>7, Zenon DEF Cuts
    <2> QED BY <1>7, <2>1, Zenon DEF ContainsTime
  <1>9. m \in at
    BY <1>3, <1>7, <1>8
  <1>10. at \in SUBSET Nat /\ at # {}
    <2>1. \A q \in 1..Len(all) : q \in Nat
      BY <1>2, <1>3
    <2> QED BY <1>9, <2>1
  <1>11. Min(at) \in at
    BY <1>10, MinOfNats
  <1>12. ChildAt(k, t) = all[Min(at)]
    <2>1. FindsFirst(all, Places(k), Places(k), t, 0)
      BY <1>3, FirstAtFinds
    <2>2. SortedRanges(Places(k), Len(all))
      BY <1>1, <1>3, Zenon
    <2> QED BY <1>10, <2>1, <2>2 DEF FindsFirst, ChildAt, all
  <1>13. Min(at) \in 1..n
    BY <1>3, <1>11
  <1>14. ChildAt(k, t) \in 1..n
    BY <1>4, <1>12, <1>13
  <1>15. IsItem(k[ChildAt(k, t)])
    BY <1>1, <1>14, Zenon DEF Cuts
  <1>16. ChildAt(k, t) # 0
    BY <1>2, <1>14
  <1> QED BY <1>15, <1>16 DEF FindsItem

\* Nothing is found from the end on.
LEMMA NoChildAfter ==
    ASSUME NEW k \in Seq(Children), Usable(k), OnlyItems(k), NEW t \in Int, t >= EndOf(k)
    PROVE  ~FindsItem(k, t)
  <1> DEFINE L == Laid(k)
             n == Len(k)
             i == ChildAt(k, t)
  <1> SUFFICES ASSUME FindsItem(k, t) PROVE FALSE
    OBVIOUS
  <1>1. Cuts(k, L, n)
    BY CutsAre
  <1>2. i \in 1..n /\ ContainsTime(Places(k)[i], t)
    BY FoundItem
  <1> HIDE DEF i, L, n
  <1>3. t < EndExclusive(Places(k)[i]) /\ EndExclusive(Places(k)[i]) = L[i]
    BY <1>1, <1>2, Zenon DEF ContainsTime, Cuts
  <1>4. n \in Nat /\ L \in [0..n -> Nat] /\ EndOf(k) = L[n] /\ \A a, b \in 0..n : a <= b => L[a] <= L[b]
    BY <1>1, Zenon DEF Cuts
  <1>5. i \in 0..n /\ n \in 0..n /\ i <= n
    BY <1>2, <1>4
  <1>6. L[i] <= L[n] /\ L[i] \in Nat /\ L[n] \in Nat
    BY <1>4, <1>5
  <1> QED BY <1>3, <1>4, <1>6

\* The new frames come after the first t, and everything is longer by them.
RoomMade(u, w, t, new) ==
    Len(w) = Len(u) + Len(new) /\ SubSeq(w, 1, t + Len(new)) = SubSeq(u, 1, t) \o new

LEMMA RoomIsMade ==
    ASSUME NEW p \in Film, NEW new \in Film, NEW r \in Film, NEW s \in Film, Len(s) = Len(r),
           NEW t, t = Len(p)
    PROVE  RoomMade(p \o r, p \o new \o s, t, new)
  <1> DEFINE pn == p \o new
             u == p \o r
             w == pn \o s
  <1>1. pn \in Film /\ Len(pn) = Len(p) + Len(new)
    BY FilmIs
  <1> HIDE DEF pn
  <1>2. Len(w) = Len(pn) + Len(s) /\ Len(u) = Len(p) + Len(r)
    BY <1>1, FilmIs
  <1>3. SubSeq(w, 1, Len(pn)) = pn /\ SubSeq(u, 1, Len(p)) = p
    BY <1>1, FilmIsCut
  <1>4. Len(p) \in Nat /\ Len(new) \in Nat /\ Len(r) \in Nat
    BY FilmIs
  <1> HIDE DEF u, w
  <1>5. Len(w) = Len(u) + Len(new)
    BY <1>1, <1>2, <1>4
  <1> QED BY <1>1, <1>3, <1>5, Zenon DEF RoomMade, u, w, pn

PutBetween(p, new, r, t) == Replaced(p \o r, t, 0, new) = p \o new \o r

LEMMA RoomBetween ==
    ASSUME NEW p \in Film, NEW new \in Film, NEW r \in Film, NEW t, t = Len(p)
    PROVE  PutBetween(p, new, r, t)
  <1> DEFINE none == <<>>
  <1>1. none \in Film /\ Len(none) = 0
    BY DEF Film
  <1>2. p \o none = p
    BY FilmIs
  <1> HIDE DEF none
  <1> DEFINE n == Len(none)
  <1>3. n = Len(none) /\ n = 0
    BY <1>1
  <1> HIDE DEF n
  <1>4. MiddleReplaced(p, none, r, t, n, new)
    BY <1>1, <1>3, ReplacedIs
  <1> QED BY <1>2, <1>3, <1>4, Zenon DEF PutBetween, MiddleReplaced

\* Appended to a track that ends at t.
LEMMA AppendedPlays ==
    ASSUME NEW k \in Seq(Playable), NEW c \in Playable, NEW t, t = Len(Frames(k))
    PROVE  /\ Frames(Append(k, c)) = Frames(k) \o FramesOf(c)
           /\ RoomMade(Frames(k), Frames(Append(k, c)), t, FramesOf(c))
           /\ Frames(Append(k, c)) = Replaced(Frames(k), t, 0, FramesOf(c))
  <1> DEFINE u == Frames(k)
             F == FramesOf(c)
             none == <<>>
  <1>1. u \in Film /\ F \in Film
    BY FramesAreLong, FramesOfOne
  <1>2. Append(k, c) = k \o <<c>>
    OBVIOUS
  <1>3. Frames(Append(k, c)) = u \o F
    <2>1. <<c>> \in Seq(Playable) /\ Frames(<<c>>) = F
      BY FramesOfList
    <2>2. Frames(k \o <<c>>) = Frames(k) \o Frames(<<c>>)
      BY <2>1, FramesJoin
    <2> QED BY <1>2, <2>1, <2>2, Zenon
  <1>4. none \in Film /\ u \o none = u /\ (u \o F) \o none = u \o F
    <2>1. none \in Film
      BY DEF Film
    <2>2. u \o F \in Film
      BY <1>1, FilmIs
    <2> HIDE DEF u, F
    <2> QED BY <1>1, <2>1, <2>2, FilmIs
  <1> HIDE DEF u, F, none
  <1>5. RoomMade(u \o none, u \o F \o none, t, F)
    <2>1. Len(none) = Len(none) /\ t = Len(u)
      BY DEF u
    <2> QED BY <1>1, <1>4, <2>1, RoomIsMade, Zenon
  <1>6. Replaced(u \o none, t, 0, F) = u \o F \o none
    <2>1. u \in Film /\ F \in Film /\ none \in Film /\ t = Len(u)
      BY <1>1, <1>4 DEF u
    <2>2. PutBetween(u, F, none, t)
      BY <2>1, RoomBetween
    <2> QED BY <2>2, Zenon DEF PutBetween
  <1> QED BY <1>3, <1>4, <1>5, <1>6, Zenon DEF u, F

OneByOne(x, y, z) == <<x, y, z>> = <<x>> \o <<y>> \o <<z>>

LEMMA ThreeAre ==
    ASSUME NEW T, NEW x \in T, NEW y \in T, NEW z \in T
    PROVE  OneByOne(x, y, z)
  <1> DEFINE m == <<x, y, z>>
             a == <<x>>
             b == <<y>>
             c == <<z>>
             u == a \o b \o c
  <1>1. m \in Seq(T) /\ Len(m) = 3 /\ m[1] = x /\ m[2] = y /\ m[3] = z
    OBVIOUS
  <1>2. /\ a \in Seq(T) /\ Len(a) = 1 /\ a[1] = x /\ b \in Seq(T) /\ Len(b) = 1 /\ b[1] = y
        /\ c \in Seq(T) /\ Len(c) = 1 /\ c[1] = z
    BY OneIs
  <1> HIDE DEF a, b, c, m
  <1>3. InARow(u, a, b, c, T) /\ u \in Seq(T)
    BY <1>2, ThreeParts
  <1> HIDE DEF u
  <1>4. /\ Len(u) = 1 + 1 + 1 /\ \A j \in 1..1 : u[j] = a[j]
        /\ \A j \in 1..1 : u[1 + j] = b[j]
        /\ \A j \in 1..1 : u[1 + 1 + j] = c[j]
    BY <1>2, <1>3, Zenon DEF InARow
  <1>5. Len(u) = 3 /\ u[1] = x /\ u[2] = y /\ u[3] = z
    BY <1>2, <1>4
  <1>6. m = u
    <2>1. \A j \in 1..3 : m[j] = u[j]
      <3>1. \A j \in 1..3 : j = 1 \/ j = 2 \/ j = 3
        OBVIOUS
      <3> QED BY <1>1, <1>5, <3>1, Zenon
    <2> QED BY <1>1, <1>3, <1>5, <2>1, SameList
  <1> QED BY <1>6, Zenon DEF m, u, a, b, c, OneByOne

\* At the start of an item nothing is split.
MadeRoom(k, t, w, new, boundary) ==
    RoomMade(Frames(k), Frames(w), t, new) /\ (boundary => Frames(w) = Replaced(Frames(k), t, 0, new))

\* Inserted before the item that begins at t.
LEMMA InsertedBefore ==
    ASSUME NEW k \in Seq(Playable), NEW i \in 1..Len(k), IsItem(k[i]), NEW c \in Playable,
           NEW w, w = InsertChild(k, i - 1, c), NEW t, t = Places(k)[i].start
    PROVE  MadeRoom(k, t, w, FramesOf(c), TRUE)
  <1> DEFINE a == Ahead(k, i)
             b == Behind(k, i)
             x == <<k[i]>>
             xb == x \o b
             A == PlaysBefore(k, i)
             B == PlaysAfter(k, i)
             M == FramesOf(k[i])
             MB == M \o B
             N == FramesOf(c)
             ac == a \o <<c>>
  <1>1. /\ a \in Seq(Playable) /\ b \in Seq(Playable) /\ Len(a) = i - 1
        /\ A \in Film /\ B \in Film /\ M \in Film /\ k[i] \in Playable /\ N \in Film
    BY SidesAre, SidesPlay, FramesOfOne
  <1>2. Lasts(k, i, t, Duration(k[i]))
    BY ItemLasts
  <1>3. Len(A) = t /\ Frames(k) = A \o M \o B
    BY <1>2, Zenon DEF Lasts
  <1>4. x \in Seq(Playable) /\ Frames(x) = M
    BY <1>1, FramesOfList
  <1>5. k = a \o x \o b
    BY TakenApart
  <1>6. <<c>> \in Seq(Playable) /\ Frames(<<c>>) = N
    BY FramesOfList
  <1> HIDE DEF a, b, x, A, B, M, N
  <1>7. k = a \o xb /\ xb \in Seq(Playable) /\ Frames(xb) = MB
    <2>1. GoesOn(a, x, b)
      BY <1>1, <1>4, ListGoesOn
    <2>2. xb \in Seq(Playable) /\ Frames(xb) = Frames(x) \o Frames(b)
      BY ONLY <1>1, <1>4, FramesJoin
    <2> QED BY <1>4, <1>5, <2>1, <2>2, Zenon DEF B, b, PlaysAfter, GoesOn
  <1>8. MB \in Film /\ Frames(k) = A \o MB
    <2>1. MB \in Film
      BY <1>1, FilmIs
    <2>2. (A \o M) \o B = A \o (M \o B)
      BY <1>1, FilmGoesOn
    <2> QED BY <1>3, <2>1, <2>2, Zenon
  <1> HIDE DEF xb, MB
  <1>9. w = a \o <<c>> \o xb
    <2> DEFINE n == i - 1
    <2>1. n = Len(a)
      BY <1>1
    <2> HIDE DEF n
    <2>2. InsertChild(a \o xb, n, c) = a \o <<c>> \o xb
      <3>1. c \in Playable
        OBVIOUS
      <3> QED BY ONLY <1>1, <1>7, <2>1, <3>1, ChildInserted
    <2> QED BY <1>7, <2>2, Zenon DEF n
  <1>10. Frames(w) = A \o N \o MB
    <2> DEFINE one == <<c>>
    <2> HIDE DEF one
    <2>1. Frames(a \o one) = Frames(a) \o Frames(one) /\ a \o one \in Seq(Playable)
      BY <1>1, <1>6, FramesJoin DEF one
    <2> HIDE DEF ac
    <2>2. ac = a \o one
      BY DEF ac, one
    <2>3. Frames(ac \o xb) = Frames(ac) \o Frames(xb)
      BY <1>7, <2>1, <2>2, FramesJoin
    <2> QED BY <1>6, <1>7, <1>9, <2>1, <2>2, <2>3, Zenon DEF one, A, a, PlaysBefore
  <1>11. RoomMade(A \o MB, A \o N \o MB, t, N)
    <2>1. Len(MB) = Len(MB) /\ t = Len(A)
      BY <1>3
    <2> QED BY <1>1, <1>8, <2>1, RoomIsMade, Zenon
  <1>12. PutBetween(A, N, MB, t)
    BY <1>1, <1>3, <1>8, RoomBetween
  <1> QED BY <1>8, <1>10, <1>11, <1>12, Zenon DEF PutBetween, N, MadeRoom

\* Inserted into an item, which is split.
LEMMA InsertedWithin ==
    ASSUME NEW k \in Seq(Playable), NEW i \in 1..Len(k), IsItem(k[i]), NEW c \in Playable,
           NEW t \in Int, ContainsTime(Places(k)[i], t), Places(k)[i].start # t, IsItem(c),
           NEW w, w = InsertInto(k, i, c, t)
    PROVE  RoomMade(Frames(k), Frames(w), t, FramesOf(c))
  <1> DEFINE at == Places(k)[i]
             old == k[i]
             s == old.range.start
             l == Duration(old)
             first == t - at.start
             rest == EndExclusive(at) - t
             from == s + t + Duration(c)
             x == Shows(old, s, first)
             y == Shows(old, from, rest)
             z == Shows(old, s + first, rest)
             A == PlaysBefore(k, i)
             B == PlaysAfter(k, i)
             X == FramesOf(x)
             Y == FramesOf(y)
             Z == FramesOf(z)
             N == FramesOf(c)
  <1>1. Lasts(k, i, at.start, l) /\ at.dur = l
    BY ItemLasts
  <1>2. at.start \in Nat /\ l \in Nat /\ Len(A) = at.start /\ Frames(k) = A \o FramesOf(old) \o B
            /\ EndExclusive(at) = at.start + l
    BY <1>1, Zenon DEF Lasts, EndExclusive
  <1>3. first \in Nat /\ first # 0 /\ rest \in Nat /\ first \in 0..l /\ rest = l - first
            /\ at.start + first = t
    <2>1. at.start <= t /\ t < at.start + l /\ at.start # t
      BY <1>2 DEF ContainsTime
    <2> QED BY <1>2, <2>1
  <1>4. old \in ItemRecords /\ s \in Int /\ k \in Seq(Children) /\ Ahead(k, i) \in Seq(Playable)
            /\ Behind(k, i) \in Seq(Playable) /\ A \in Film /\ B \in Film /\ N \in Film
    BY PlayableAre, ItemIs, SidesPlay, FramesOfOne
  <1>5. from \in Int /\ s + first \in Int
    <2>1. Duration(c) \in Int
      BY PlayableAre, ChildIs DEF Playable
    <2> QED BY <1>3, <1>4, <2>1
  <1>6. w = Ahead(k, i) \o <<x, c, y>> \o Behind(k, i)
    BY <1>3 DEF InsertInto, Ahead, Behind
  <1>7. FramesOf(old) = X \o Z
    <2>1. Duration(old) = l /\ s = old.range.start
      OBVIOUS
    <2> HIDE DEF old, first, rest, s, l
    <2>2. FramesOf(old) = FramesOf(Shows(old, old.range.start, first))
                              \o FramesOf(Shows(old, old.range.start + first, l - first))
      BY <1>2, <1>3, <1>4, <2>1, SplitPlays
    <2> QED BY <1>3, <2>1, <2>2, Zenon
  <1> HIDE DEF old, first, rest, from, s, l
  <1>8. /\ x \in Playable /\ y \in Playable /\ X \in Film /\ Y \in Film /\ Z \in Film
        /\ Len(X) = first /\ Len(Y) = rest /\ Len(Z) = rest
    BY <1>3, <1>4, <1>5, ShownFrames
  <1> HIDE DEF x, y, z, X, Y, Z, N, A, B
  <1> DEFINE m == <<x, c, y>>
             p == A \o X
             q == Y \o B
             r == Z \o B
  <1>9. m \in Seq(Playable) /\ Frames(m) = X \o N \o Y
    <2>1. m = (<<x>> \o <<c>>) \o <<y>>
      <3>1. c \in Playable
        OBVIOUS
      <3>2. OneByOne(x, c, y)
        BY <1>8, <3>1, ThreeAre
      <3> QED BY <3>2, Zenon DEF OneByOne
    <2>2. <<x>> \o <<c>> \in Seq(Playable) /\ Frames(<<x>> \o <<c>>) = X \o N
      BY <1>8, TwoPlay DEF X, N
    <2>3. <<y>> \in Seq(Playable) /\ Frames(<<y>>) = Y
      BY <1>8, FramesOfList DEF Y
    <2> DEFINE xc == <<x>> \o <<c>>
               one == <<y>>
    <2> HIDE DEF xc, one
    <2>4. Frames(xc \o one) = Frames(xc) \o Frames(one) /\ xc \o one \in Seq(Playable)
      BY <2>2, <2>3, FramesJoin DEF xc, one
    <2> QED BY <2>1, <2>2, <2>3, <2>4, Zenon DEF xc, one
  <1> HIDE DEF m
  <1>10. Frames(w) = A \o (X \o N \o Y) \o B
    <2>1. Frames(Ahead(k, i) \o m \o Behind(k, i)) = PlaysBefore(k, i) \o Frames(m) \o PlaysAfter(k, i)
      BY <1>9, OthersPlay
    <2> QED BY <1>6, <1>9, <2>1, Zenon DEF m, A, B
  <1>11. p \in Film /\ q \in Film /\ r \in Film /\ Len(p) = t /\ Len(q) = Len(r)
    <2>1. p \in Film /\ q \in Film /\ r \in Film /\ Len(p) = Len(A) + Len(X)
              /\ Len(q) = Len(Y) + Len(B) /\ Len(r) = Len(Z) + Len(B)
      BY <1>4, <1>8, FilmIs
    <2> QED BY <1>2, <1>3, <1>8, <2>1, Zenon
  <1>12. Frames(w) = p \o N \o q
    <2>1. FiveGrouped(A, X, N, Y, B)
      BY <1>4, <1>8, FiveFilms
    <2> QED BY <1>10, <2>1, Zenon DEF FiveGrouped
  <1>13. Frames(k) = p \o r
    <2>1. Regrouped(A, X, Z, B)
      BY <1>4, <1>8, FourFilms
    <2>2. A \o (X \o Z) \o B = p \o Z \o B
      BY <2>1, Zenon DEF Regrouped
    <2>3. GoesOn(p, Z, B)
      <3> HIDE DEF p
      <3> QED BY <1>4, <1>8, <1>11, ListGoesOn DEF Film
    <2> QED BY <1>2, <1>7, <2>2, <2>3, Zenon DEF GoesOn
  <1> HIDE DEF p, q, r
  <1>14. RoomMade(p \o r, p \o N \o q, t, N)
    <2>1. t = Len(p) /\ Len(q) = Len(r)
      BY <1>11
    <2> QED BY <1>4, <1>11, <2>1, RoomIsMade
  <1> QED BY <1>12, <1>13, <1>14, Zenon DEF N

LEMMA InsertedPlaysAt ==
    ASSUME NEW k \in Seq(Children), Usable(k), OnlyItems(k), NEW c \in Templates,
           NEW t \in Nat, t <= EndOf(k), NEW boundary \in BOOLEAN,
           boundary => \A i \in DOMAIN k : ContainsTime(Places(k)[i], t) => Places(k)[i].start = t,
           NEW w, w = Insert(k, c, t, TRUE, NULL).kids
    PROVE  MadeRoom(k, t, w, FramesOf(c), boundary)
  <1> DEFINE r == TimeRange(t, 1)
             bare == WithoutTransitions(k, r)
             i == ChildAt(k, t)
             N == FramesOf(c)
  <1>1. k \in Seq(Playable)
    BY UsableIs
  <1>2. c \in Playable /\ IsItem(c)
    BY TemplatePlays
  <1>3. bare = k
    <2>1. r.start \in Int /\ r.dur \in Int
      BY DEF TimeRange
    <2> HIDE DEF r
    <2> QED BY <2>1, WithoutIs
  <1>4. Insert(k, c, t, TRUE, NULL) = IF FindsItem(k, t) THEN Done(InsertInto(k, i, c, t))
                                      ELSE InsertOutside(k, c, t, NULL)
    <2> HIDE DEF bare
    <2>1. Insert(k, c, t, TRUE, NULL) = IF FindsItem(bare, t) THEN Done(InsertInto(bare, ChildAt(bare, t), c, t))
                                        ELSE InsertOutside(bare, c, t, NULL)
      BY DEF Insert, bare, r
    <2> QED BY <1>3, <2>1, Zenon
  <1>5. CASE t = EndOf(k)
    <2>1. EndOf(k) \in Int /\ EndOf(k) = Laid(k)[Len(k)]
      BY EndIs
    <2>2. ~FindsItem(k, t)
      BY <1>5, <2>1, NoChildAfter
    <2>3. InsertOutside(k, c, t, NULL) = Done(Append(k, c))
      <3>1. t >= EndOf(k) /\ t - EndOf(k) = 0
        BY <1>5, <2>1
      <3> QED BY <3>1 DEF InsertOutside, OverwriteAfter
    <2>4. w = Append(k, c)
      BY <1>4, <2>2, <2>3, DoneIs
    <2>5. t = Len(Frames(k))
      BY <1>1, <1>5, <2>1, FramesAreLong
    <2>6. /\ RoomMade(Frames(k), Frames(Append(k, c)), t, N)
          /\ Frames(Append(k, c)) = Replaced(Frames(k), t, 0, N)
      BY <1>1, <1>2, <2>5, AppendedPlays
    <2> QED BY <2>4, <2>6, Zenon DEF MadeRoom
  <1>6. CASE t # EndOf(k)
    <2>1. t < EndOf(k)
      BY <1>6, EndIs
    <2>2. FindsItem(k, t)
      BY <2>1, SomeChildAt
    <2>3. i \in 1..Len(k) /\ IsItem(k[i]) /\ ContainsTime(Places(k)[i], t)
      BY <2>2, FoundItem
    <2> HIDE DEF i
    <2>4. w = InsertInto(k, i, c, t)
      BY <1>4, <2>2, DoneIs
    <2>5. Places(k)[i].start \in Int
      BY <2>3, PlaceIs
    <2>6. CASE Places(k)[i].start = t
      <3>1. t - Places(k)[i].start = 0
        BY <2>5, <2>6
      <3>2. w = InsertChild(k, i - 1, c)
        BY <2>4, <3>1 DEF InsertInto
      <3>3. /\ RoomMade(Frames(k), Frames(w), t, N)
            /\ Frames(w) = Replaced(Frames(k), t, 0, N)
        <4> DEFINE from == Places(k)[i].start
        <4>1. from = Places(k)[i].start /\ from = t
          BY <2>6
        <4> HIDE DEF from
        <4>2. MadeRoom(k, from, w, FramesOf(c), TRUE)
          BY <1>1, <1>2, <2>3, <3>2, <4>1, InsertedBefore
        <4> QED BY <4>1, <4>2, Zenon DEF MadeRoom
      <3> QED BY <3>3, Zenon DEF MadeRoom
    <2>7. CASE Places(k)[i].start # t
      <3>1. ~boundary
        <4>1. i \in DOMAIN k
          BY <2>3
        <4> QED BY <2>3, <2>7, <4>1
      <3>2. RoomMade(Frames(k), Frames(w), t, N)
        <4>1. t \in Int
          OBVIOUS
        <4> QED BY <1>1, <1>2, <2>3, <2>4, <2>7, <4>1, InsertedWithin
      <3> QED BY <3>1, <3>2, Zenon DEF MadeRoom
    <2> QED BY <2>6, <2>7
  <1> QED BY <1>5, <1>6

LEMMA InsertHolds == ASSUME TypeOK PROVE InsertMakesRoom
  <1> SUFFICES ASSUME NEW c \in Templates, NEW t \in Times, OnlyItems(kids), 0 <= t, t <= EndOf(kids)
               PROVE  LET after == Frames(Insert(kids, c, t, TRUE, NULL).kids)
                          boundary == \A i \in DOMAIN kids :
                                          ContainsTime(Places(kids)[i], t) => Places(kids)[i].start = t
                      IN  /\ Len(after) = Len(Frames(kids)) + Duration(c)
                          /\ SubSeq(after, 1, t + Duration(c)) = SubSeq(Frames(kids), 1, t) \o FramesOf(c)
                          /\ boundary => after = Replaced(Frames(kids), t, 0, FramesOf(c))
    BY DEF InsertMakesRoom
  <1> DEFINE w == Insert(kids, c, t, TRUE, NULL).kids
             boundary == \A i \in DOMAIN kids :
                             ContainsTime(Places(kids)[i], t) => Places(kids)[i].start = t
  <1>1. kids \in Seq(Children) /\ Usable(kids) /\ t \in Int
    BY ArgumentsAre DEF TypeOK
  <1>2. t \in Nat /\ boundary \in BOOLEAN
    BY <1>1
  <1>3. Len(FramesOf(c)) = Duration(c)
    BY TemplatePlays
  <1>4. /\ w = Insert(kids, c, t, TRUE, NULL).kids
        /\ boundary => \A i \in DOMAIN kids : ContainsTime(Places(kids)[i], t) => Places(kids)[i].start = t
    OBVIOUS
  <1> HIDE DEF w, boundary
  <1>5. MadeRoom(kids, t, w, FramesOf(c), boundary)
    BY <1>1, <1>2, <1>4, InsertedPlaysAt
  <1> QED BY <1>3, <1>5, Zenon DEF MadeRoom, RoomMade, w, boundary

\* An insert adds as many frames as the new item has, at its time, and moves the others
\* behind them, wherever the track of items is cut.
THEOREM InsertsMakeRoom == Spec => []InsertMakesRoom
  <1>1. TypeOK => InsertMakesRoom
    BY InsertHolds
  <1> QED BY <1>1, TypesHold, PTL

--------------------------------------------------------------------------------
(* What overwrite does to the track.                                           *)

OneByTwo(x, y) == <<x, y>> = <<x>> \o <<y>>

LEMMA TwoAre == ASSUME NEW T, NEW x \in T, NEW y \in T PROVE OneByTwo(x, y)
  <1> DEFINE m == <<x, y>>
             a == <<x>>
             b == <<y>>
  <1>1. m \in Seq(T) /\ Len(m) = 2 /\ m[1] = x /\ m[2] = y
    OBVIOUS
  <1>2. a \in Seq(T) /\ Len(a) = 1 /\ a[1] = x /\ b \in Seq(T) /\ Len(b) = 1 /\ b[1] = y
    BY OneIs
  <1> HIDE DEF m, a, b
  <1>3. IsJoin(m, a, b, T)
    <2>1. \A j \in 1..Len(a) : m[j] = a[j]
      BY <1>1, <1>2
    <2>2. \A j \in 1..Len(b) : m[Len(a) + j] = b[j]
      BY <1>1, <1>2
    <2>3. Len(m) = Len(a) + Len(b)
      BY <1>1, <1>2
    <2> QED BY <1>1, <2>1, <2>2, <2>3, Zenon DEF IsJoin
  <1>4. m = a \o b
    BY <1>2, <1>3, JoinOnce
  <1> QED BY <1>4, Zenon DEF OneByTwo, m, a, b

\* The n frames from t on are what was put there, and the others play what they played.
PutInPlace(k, w, t, n, new) == Frames(w) = Replaced(Frames(k), t, n, new)

\* The last item is cut to n frames, and c follows it.
EndsWith(k, w, i, n, c) == w = Reranged(k, i, k[i].range.start, n) \o <<c>>

\* After the end, what is overwritten is the new item alone, behind a gap.
LEMMA OverwrittenAfter ==
    ASSUME NEW k \in Seq(Playable), NEW c \in Playable, NEW t \in Nat, NEW n \in Nat,
           EndOf(k) = Len(Frames(k)), t >= EndOf(k),
           NEW w, w = OverwriteAfter(k, c, t, NULL)
    PROVE  PutInPlace(k, w, t, n, FramesOf(c))
  <1> DEFINE u == Frames(k)
             N == FramesOf(c)
             none == <<>>
             gap == t - Len(u)
             x == Gap(TimeRange(0, gap))
  <1>1. u \in Film /\ N \in Film /\ Len(u) \in Nat
    BY FramesAreLong, FramesOfOne, FilmIs
  <1>2. none \in Film /\ u \o none = u
    <2>1. none \in Film
      BY DEF Film
    <2> QED BY <1>1, <2>1, FilmIs
  <1>3. gap \in Nat /\ t - EndOf(k) = gap
    BY <1>1
  <1>4. <<c>> \in Seq(Playable) /\ Frames(<<c>>) = N
    BY FramesOfList
  <1>5. Nothing(gap) \in Film /\ (gap = 0 => Nothing(gap) = <<>>)
    BY <1>3, NothingIs
  <1>6. Frames(w) = u \o Nothing(gap) \o N
    <2>1. CASE gap = 0
      <3>1. w = k \o <<c>>
        BY <1>3, <2>1 DEF OverwriteAfter
      <3>2. Frames(k \o <<c>>) = u \o Frames(<<c>>)
        BY <1>4, FramesJoin
      <3>3. u \o Nothing(gap) = u
        BY <1>2, <1>5, <2>1
      <3> QED BY <1>4, <3>1, <3>2, <3>3, Zenon
    <2>2. CASE gap # 0
      <3>1. w = k \o <<x, c>>
        BY <1>3, <2>2 DEF OverwriteAfter, Filler
      <3>2. x \in Playable /\ FramesOf(x) = Nothing(gap)
        <4>1. TimeRange(0, gap) \in Span /\ TimeRange(0, gap).dur = gap
          BY <1>3 DEF Span, TimeRange
        <4> HIDE DEF gap
        <4> QED BY <1>3, <4>1, GapPlays
      <3> HIDE DEF x, u, N, gap
      <3>3. OneByTwo(x, c)
        BY <3>2, TwoAre
      <3>4. <<x>> \o <<c>> \in Seq(Playable) /\ Frames(<<x>> \o <<c>>) = FramesOf(x) \o FramesOf(c)
        BY <3>2, TwoPlay
      <3> DEFINE l == <<x>> \o <<c>>
      <3> HIDE DEF l
      <3>5. Frames(k \o l) = Frames(k) \o Frames(l)
        BY <3>4, FramesJoin DEF l
      <3>6. Frames(w) = u \o (Nothing(gap) \o N)
        BY <3>1, <3>2, <3>3, <3>4, <3>5, Zenon DEF OneByTwo, l, u, N
      <3>7. GoesOn(u, Nothing(gap), N)
        BY <1>1, <1>5, ListGoesOn DEF Film
      <3> QED BY <3>6, <3>7, Zenon DEF GoesOn
    <2> QED BY <2>1, <2>2
  <1>7. EndReplaced(u, none, t, n, N)
    <2>1. t >= Len(u) /\ none = <<>>
      OBVIOUS
    <2> HIDE DEF u, N, none
    <2> QED BY <1>1, <1>2, <2>1, ReplacedAtEnd
  <1>8. Frames(w) = Replaced(u, t, n, N)
    BY <1>2, <1>6, <1>7, Zenon DEF EndReplaced
  <1> QED BY <1>8, Zenon DEF PutInPlace, u, N

\* Inside one item, which is split.
LEMMA OverwrittenWithin ==
    ASSUME NEW k \in Seq(Playable), NEW i \in 1..Len(k), IsItem(k[i]), NEW c \in ItemRecords, c \in Playable,
           NEW r, r.start \in Int, r.dur \in Nat, r.dur = c.range.dur,
           Places(k)[i].start <= r.start, r.start + r.dur <= Places(k)[i].start + Duration(k[i]),
           NEW w, w = OverwriteWithin(k, i, c, r)
    PROVE  PutInPlace(k, w, r.start, r.dur, FramesOf(c))
  <1> DEFINE N == FramesOf(c)
             m == r.dur
  <1>1. c = IF r.dur < c.range.dur /\ ~(k[i].kind = "gap" /\ c.warped)
                THEN Shows(c, k[i].range.start, r.dur) ELSE c
    <2>1. ~(m < m)
      OBVIOUS
    <2> QED BY <2>1
  <1> DEFINE new == c
  <1>2. NewPlaysWithin(k, i, c, r, new)
    <2>1. new \in Playable /\ new = IF r.dur < c.range.dur /\ ~(k[i].kind = "gap" /\ c.warped)
                                        THEN Shows(c, k[i].range.start, r.dur) ELSE c
      BY <1>1
    <2> HIDE DEF new
    <2> QED BY <2>1, WithinPlays
  <1>3. PICK P, M, Q : Splits(k, i, r.start, m, P, M, Q) /\ Frames(w) = P \o N \o Q
    BY <1>2, Zenon DEF NewPlaysWithin
  <1>4. P \in Film /\ M \in Film /\ Q \in Film /\ Len(P) = r.start /\ Len(M) = m /\ Frames(k) = P \o M \o Q
    BY <1>3, Zenon DEF Splits
  <1>5. N \in Film
    BY FramesOfOne
  <1> DEFINE t == r.start
  <1> HIDE DEF N, m
  <1>6. t = Len(P) /\ m = Len(M)
    BY <1>4
  <1> HIDE DEF t
  <1>7. MiddleReplaced(P, M, Q, t, m, N)
    BY <1>4, <1>5, <1>6, ReplacedIs
  <1> QED BY <1>3, <1>4, <1>7, Zenon DEF t, m, N, MiddleReplaced, PutInPlace

\* The one child that is found is the one that shares a frame with the range.
LEMMA FoundOne ==
    ASSUME NEW k \in Seq(Children), Usable(k), OnlyItems(k),
           NEW r, r.start \in Int, r.dur \in Int, r.dur > 0, Len(ItemsIn(k, r)) = 1,
           NEW i, i = ItemsIn(k, r)[1]
    PROVE  /\ i \in 1..Len(k) /\ Intersects(Places(k)[i], r)
           /\ \A j \in 1..Len(k) : Intersects(Places(k)[j], r) => j = i
  <1> DEFINE n == Len(k)
             all == Indices(k)
             at == {j \in 1..Len(all) : Intersects(Places(k)[j], r)}
             found == AllIn(all, Places(k), r)
  <1>1. Cuts(k, Laid(k), n) /\ SortedRanges(Places(k), n)
    BY CutsAre
  <1>2. LookedUp(all, Places(k), Places(k)) /\ Len(all) = n /\ n \in Nat
    BY PlacesMapped
  <1>3. \A j \in 1..n : all[j] = j
    BY <1>2, IndicesAre
  <1>4. ItemsIn(k, r) = found
    BY FoundIs DEF ChildrenIn
  <1>5. \A j \in 1..Len(all) : Places(k)[j].dur > 0
    <2> SUFFICES ASSUME NEW j \in 1..n PROVE Places(k)[j].dur > 0
      BY <1>2
    <2>1. j \in DOMAIN k /\ IsItem(k[j])
      BY DEF OnlyItems, Items
    <2>2. Duration(k[j]) > 0
      BY <2>1 DEF Usable
    <2> QED BY <2>2, PlaceIs
  <1> HIDE DEF all
  <1>6. FindsAll(all, Places(k), Places(k), r)
    BY <1>1, <1>2, <1>5, AllInFinds
  <1> HIDE DEF found
  <1>7. Len(found) = 1 /\ i = found[1]
    BY <1>4
  <1>8. at # {} /\ Range(found) = {all[j] : j \in at}
    <2>1. CASE at = {}
      <3>1. found = <<>>
        BY <1>6, <2>1 DEF FindsAll, found
      <3>2. Len(found) = 0
        BY <3>1
      <3> QED BY <1>7, <3>2
    <2>2. CASE at # {}
      BY <1>6, <2>2 DEF FindsAll, found
    <2> QED BY <2>1, <2>2
  <1>9. Range(found) = at
    <2>1. \A j \in at : all[j] = j
      BY <1>2, <1>3
    <2> HIDE DEF at
    <2>2. {all[j] : j \in at} = at
      BY <2>1
    <2> QED BY <1>8, <2>2
  <1>10. Range(found) = {i}
    <2>1. found \in Seq(Items(k))
      BY <1>4, FoundIs
    <2>2. DOMAIN found = 1..1
      BY <1>7, <2>1
    <2> QED BY <1>7, <2>2 DEF Range
  <1>11. at = {i}
    BY <1>9, <1>10
  <1> QED BY <1>2, <1>11

\* The range begins inside the last item and ends after it: the item keeps its head.
LEMMA AcrossIs ==
    ASSUME NEW k \in Seq(Children), NEW i \in 1..Len(k), IsItem(k[i]), i = Len(k),
           NEW found, found = <<i>>, NEW c \in ItemRecords,
           NEW r, r.start \in Int, r.dur \in Nat, r.dur > 0, r.dur = c.range.dur,
           Places(k)[i].start < r.start, Places(k)[i].dur > 0,
           Places(k)[i].start + Places(k)[i].dur < r.start + r.dur,
           NEW n, n = r.start - Places(k)[i].start
    PROVE  EndsWith(k, OverwriteAcross(k, found, c, r), i, n, c)
  <1> DEFINE at == Places(k)
             a == Head(found)
             b == Last(found)
             headStays == at[a].start < r.start
             left == EndInclusive(at[b]) - EndInclusive(r)
             tailStays == left > 0
             parts == [j \in DOMAIN k |->
                          IF tailStays /\ j = b THEN LastPart(k[b], left, r, Len(found) = 1)
                          ELSE IF headStays /\ j = a THEN Shows(k[a], k[a].range.start, r.start - at[a].start)
                          ELSE k[j]]
             covered == Len(found) - (IF headStays THEN 1 ELSE 0) - (IF tailStays THEN 1 ELSE 0)
             place == a - 1 + (IF headStays THEN 1 ELSE 0)
             new == Shows(c, c.range.start, r.dur)
             w == Reranged(k, i, k[i].range.start, n)
  <1>1. Len(found) = 1 /\ a = i /\ b = i
    BY DEF Last
  <1>2. /\ at[i].start \in Int /\ at[i].dur \in Int /\ DOMAIN k = 1..Len(k) /\ Len(k) \in Nat
        /\ k[i].range.start \in Int
    BY PlaceIs, ItemIs
  <1>3. headStays
    BY <1>1
  <1>4. ~tailStays
    <2>1. EndInclusive(at[i]) = at[i].start + at[i].dur - 1
      BY <1>2, EndInclusiveIs
    <2>2. EndInclusive(r) = r.start + r.dur - 1
      BY EndInclusiveIs
    <2> DEFINE s == at[i].start
               m == at[i].dur
               t == r.start
               l == r.dur
    <2>3. s \in Int /\ m \in Int /\ t \in Int /\ l \in Int /\ s + m < t + l
      BY <1>2
    <2>4. left = (s + m - 1) - (t + l - 1)
      BY <1>1, <2>1, <2>2
    <2> HIDE DEF s, m, t, l, left
    <2> QED BY <2>3, <2>4
  <1>5. OverwriteAcross(k, found, c, r) = InsertChild(Uncovered(parts, covered), place, new)
    BY DEF OverwriteAcross
  <1>6. covered = 0
    <2> HIDE DEF tailStays, headStays
    <2> QED BY <1>1, <1>3, <1>4
  <1>7. place = i
    <2> HIDE DEF headStays
    <2> QED BY <1>1, <1>3
  <1>8. new = c
    BY ShowsItself
  <1>9. parts = w
    <2> HIDE DEF tailStays, headStays, left
    <2>1. \A j \in DOMAIN k :
              (IF tailStays /\ j = b THEN LastPart(k[b], left, r, Len(found) = 1)
               ELSE IF headStays /\ j = a THEN Shows(k[a], k[a].range.start, r.start - at[a].start)
               ELSE k[j]) = IF j = i THEN Shows(k[i], k[i].range.start, n) ELSE k[j]
      <3> HIDE DEF a, b, at
      <3>1. r.start - at[i].start = n
        BY DEF at
      <3> QED BY <1>1, <1>3, <1>4, <3>1, Zenon
    <2>2. parts = [j \in DOMAIN k |-> IF j = i THEN Shows(k[i], k[i].range.start, n) ELSE k[j]]
      <3> HIDE DEF a, b, at
      <3> QED BY <2>1, Zenon
    <2>3. w = [j \in DOMAIN k |-> IF j = i THEN Shows(k[i], k[i].range.start, n) ELSE k[j]]
      BY DEF Reranged
    <2> HIDE DEF parts, w
    <2> QED BY <2>2, <2>3, Zenon
  <1>10. w \in Seq(Children) /\ Len(w) = Len(k)
    <2>1. n \in Int
      BY <1>2
    <2> QED BY <1>2, <2>1, RerangedIs
  <1> HIDE DEF parts, covered, place, new, w
  <1>11. Uncovered(w, 0) = w
    BY <1>10, UncoveredIs
  <1>12. InsertChild(w, i, c) = w \o <<c>>
    <2>1. c \in Children /\ i \in Int /\ i >= Len(w)
      BY <1>2, <1>10, ItemsAreChildren
    <2>2. IsInserted(InsertChild(w, i, c), w, i, c, Children)
      BY <1>10, <2>1, InsertChildIs
    <2> QED BY <2>1, <2>2, Zenon DEF IsInserted
  <1> QED BY <1>5, <1>6, <1>7, <1>8, <1>9, <1>11, <1>12, Zenon DEF w, EndsWith

LEMMA AcrossPlays ==
    ASSUME NEW k \in Seq(Playable), NEW i \in 1..Len(k), IsItem(k[i]), i = Len(k), NEW c \in Playable,
           NEW t \in Nat, NEW n \in Nat, Places(k)[i].start < t, t <= Places(k)[i].start + Duration(k[i]),
           Places(k)[i].start + Duration(k[i]) <= t + n,
           NEW first, first = t - Places(k)[i].start,
           NEW w, EndsWith(k, w, i, first, c)
    PROVE  PutInPlace(k, w, t, n, FramesOf(c))
  <1> DEFINE old == k[i]
             s == old.range.start
             l == Duration(old)
             at == Places(k)[i].start
             v == Reranged(k, i, s, first)
             A == PlaysBefore(k, i)
             B == PlaysAfter(k, i)
             X == FramesOf(Shows(old, s, first))
             Z == FramesOf(Shows(old, s + first, l - first))
             N == FramesOf(c)
             p == A \o X
  <1>1. Lasts(k, i, at, l)
    BY ItemLasts
  <1>2. at \in Nat /\ l \in Nat /\ Len(A) = at /\ Frames(k) = A \o FramesOf(old) \o B
    BY <1>1, Zenon DEF Lasts
  <1>3. first \in Nat /\ first \in 0..l /\ at + first = t /\ l - first \in Nat /\ l - first <= n
    <2>1. at < t /\ t <= at + l /\ at + l <= t + n /\ first = t - at /\ t \in Nat /\ n \in Nat
      OBVIOUS
    <2>2. at \in Nat /\ l \in Nat
      BY <1>2
    <2> HIDE DEF at, l
    <2> QED BY ONLY <2>1, <2>2
  <1>4. old \in ItemRecords /\ s \in Int /\ k \in Seq(Children) /\ A \in Film /\ N \in Film
    BY PlayableAre, ItemIs, SidesPlay, FramesOfOne
  <1>5. B = <<>>
    <2>1. Behind(k, i) \in Seq(Playable) /\ Len(Behind(k, i)) = Len(k) - i /\ Len(k) \in Nat
      BY SidesAre
    <2>2. Len(Behind(k, i)) = 0
      BY <2>1
    <2>3. Behind(k, i) = <<>>
      BY <2>1, <2>2, EmptySeq, Zenon
    <2>4. Frames(<<>>) = <<>>
      BY FramesOfList
    <2> QED BY <2>3, <2>4, Zenon DEF PlaysAfter
  <1>6. FramesOf(old) = X \o Z
    <2>1. Duration(old) = l /\ s = old.range.start
      OBVIOUS
    <2> HIDE DEF old, s, l
    <2>2. FramesOf(old) = FramesOf(Shows(old, old.range.start, first))
                              \o FramesOf(Shows(old, old.range.start + first, l - first))
      BY <1>2, <1>3, <1>4, <2>1, SplitPlays
    <2> QED BY <2>1, <2>2, Zenon
  <1>7. X \in Film /\ Len(X) = first /\ Z \in Film /\ Len(Z) = l - first
    <2>1. s + first \in Int
      BY <1>3, <1>4
    <2> HIDE DEF old, s, l
    <2> QED BY <1>3, <1>4, <2>1, ShownFrames
  <1>8. v \in Seq(Playable) /\ Frames(v) = A \o X \o B
    BY <1>3, <1>4, RerangedPlays
  <1>9. <<c>> \in Seq(Playable) /\ Frames(<<c>>) = N
    BY FramesOfList
  <1>10. Frames(w) = Frames(v) \o N
    <2> DEFINE one == <<c>>
    <2> HIDE DEF one, v
    <2>1. Frames(v \o one) = Frames(v) \o Frames(one)
      BY <1>8, <1>9, FramesJoin DEF one
    <2>2. w = v \o one
      BY Zenon DEF one, v, EndsWith
    <2> QED BY <1>9, <2>1, <2>2, Zenon DEF one
  <1> HIDE DEF old, s, l, v, A, B, X, Z, N
  <1>11. p \in Film /\ Len(p) = t
    <2>1. p \in Film /\ Len(p) = Len(A) + Len(X)
      BY <1>4, <1>7, FilmIs
    <2> QED BY <1>2, <1>3, <1>7, <2>1, Zenon
  <1>12. Frames(w) = p \o N
    <2>1. p \o <<>> = p
      BY <1>11, FilmIs
    <2> QED BY <1>5, <1>8, <1>10, <2>1, Zenon
  <1>13. Frames(k) = p \o Z
    <2>1. GoesOn(A, X, Z)
      BY <1>4, <1>7, ListGoesOn DEF Film
    <2>2. p \o Z \in Film
      BY <1>7, <1>11, FilmIs
    <2>3. (p \o Z) \o <<>> = p \o Z
      BY <2>2, FilmIs
    <2> QED BY <1>2, <1>5, <1>6, <2>1, <2>3, Zenon DEF GoesOn
  <1> HIDE DEF p
  <1>14. EndReplaced(p, Z, t, n, N)
    <2>1. t = Len(p) /\ n >= Len(Z)
      BY <1>3, <1>7, <1>11
    <2> QED BY <1>4, <1>7, <1>11, <2>1, ReplacedAtEnd
  <1>15. p \o Nothing(t - Len(p)) = p
    <2>1. t - Len(p) = 0
      BY <1>11
    <2>2. Nothing(0) = <<>>
      BY NothingIs
    <2> QED BY <1>11, <2>1, <2>2, FilmIs
  <1> QED BY <1>12, <1>13, <1>14, <1>15, Zenon DEF EndReplaced, N, PutInPlace

LEMMA OverwrittenPlays ==
    ASSUME NEW k \in Seq(Children), Usable(k), OnlyItems(k), NEW c \in Templates, NEW t \in Nat,
           NEW n, n = Duration(c), NEW r, r = TimeRange(t, n),
           NEW found, found = ItemsIn(k, r), NEW i, i = found[1],
           \/ t >= EndOf(k)
           \/ Len(found) = 1 /\ (Places(k)[i].start < t \/ Holds(Places(k)[i], r)),
           NEW w, w = Overwrite(k, c, r, TRUE, NULL).kids
    PROVE  PutInPlace(k, w, t, n, FramesOf(c))
  <1> DEFINE L == Laid(k)
             m == Len(k)
  <1>1. k \in Seq(Playable) /\ Cuts(k, L, m)
    BY CutsAre
  <1>2. c \in ItemRecords /\ c \in Playable /\ n \in Nat /\ n > 0 /\ n = c.range.dur
    BY TemplatePlays
  <1>3. r.start = t /\ r.dur = n
    BY DEF TimeRange
  <1>4. EndOf(k) \in Nat /\ EndOf(k) = Len(Frames(k))
    <2>1. EndOf(k) = L[m] /\ m \in Nat /\ L \in [0..m -> Nat]
      BY <1>1, Zenon DEF Cuts
    <2>2. Len(Frames(k)) = L[m]
      BY <1>1, FramesAreLong
    <2>3. m \in 0..m
      BY <2>1
    <2> QED BY <2>1, <2>2, <2>3
  <1> HIDE DEF L, m
  <1>5. CASE t >= EndOf(k)
    <2>1. Overwrite(k, c, r, TRUE, NULL) = Done(OverwriteAfter(k, c, t, NULL))
      BY <1>3, <1>5 DEF Overwrite
    <2>2. w = OverwriteAfter(k, c, t, NULL)
      BY <2>1, DoneIs
    <2> QED BY <1>1, <1>2, <1>4, <1>5, <2>2, OverwrittenAfter
  <1>6. CASE ~(t >= EndOf(k))
    <2>1. Len(found) = 1 /\ (Places(k)[i].start < t \/ Holds(Places(k)[i], r))
      BY <1>6
    <2>2. r.start \in Int /\ r.dur \in Int /\ r.dur > 0
      BY <1>2, <1>3
    <2>3. /\ i \in 1..Len(k) /\ Intersects(Places(k)[i], r)
          /\ \A j \in 1..Len(k) : Intersects(Places(k)[j], r) => j = i
      BY <2>1, <2>2, FoundOne
    <2>4. IsItem(k[i])
      BY <2>3 DEF OnlyItems, Items
    <2> DEFINE at == Places(k)[i]
    <2>5. Lasts(k, i, at.start, Duration(k[i])) /\ at.dur = Duration(k[i])
      BY <1>1, <2>3, <2>4, ItemLasts
    <2>6. at.start \in Nat /\ at.dur \in Nat /\ EndExclusive(at) = at.start + at.dur
      BY <2>5, Zenon DEF Lasts, EndExclusive
    <2>7. EndExclusive(r) = t + n
      BY <1>3 DEF EndExclusive
    <2>8. at.start < t + n /\ at.start + at.dur > t
      BY <1>3, <2>3, <2>6, <2>7 DEF Intersects
    <2>9. found = <<i>>
      <3>1. found \in Seq(Items(k))
        BY <2>2, FoundIs
      <3>2. i \in Items(k)
        BY <2>3, <2>4 DEF Items
      <3> DEFINE one == <<i>>
      <3>3. one \in Seq(Items(k)) /\ Len(one) = 1 /\ one[1] = i
        BY <3>2, OneIs
      <3> HIDE DEF one
      <3>4. \A j \in 1..Len(found) : found[j] = one[j]
        BY <2>1, <3>3
      <3>5. found = one
        BY <2>1, <3>1, <3>3, <3>4, SameList
      <3> QED BY <3>5 DEF one
    <2> HIDE DEF at
    <2>10. CASE Holds(at, r)
      <3>1. at.start <= t /\ t + n <= at.start + at.dur
        BY <1>3, <2>6, <2>7, <2>10 DEF Holds
      <3>2. Overwrite(k, c, r, TRUE, NULL) = Done(OverwriteWithin(k, i, c, r))
        <4>1. Places(k)[i].start <= r.start /\ EndExclusive(r) <= EndExclusive(Places(k)[i])
          BY <1>3, <2>6, <2>7, <3>1 DEF at
        <4>2. k \in Seq(Children) /\ Usable(k) /\ OnlyItems(k)
          OBVIOUS
        <4> QED BY ONLY <2>2, <2>3, <4>1, <4>2, OverwriteAlone
      <3>3. w = OverwriteWithin(k, i, c, r)
        BY <3>2, DoneIs
      <3>4. PutInPlace(k, w, r.start, r.dur, FramesOf(c))
        <4>1. /\ r.start \in Int /\ r.dur \in Nat /\ r.dur = c.range.dur /\ Places(k)[i].start <= r.start
              /\ r.start + r.dur <= Places(k)[i].start + Duration(k[i])
          BY <1>2, <1>3, <2>5, <3>1 DEF at
        <4> QED BY <1>1, <1>2, <2>3, <2>4, <3>3, <4>1, OverwrittenWithin
      <3> QED BY <1>3, <3>4, Zenon
    <2>11. CASE ~Holds(at, r)
      <3>1. at.start < t
        BY <2>1, <2>11 DEF at
      <3>2. at.start + at.dur < t + n
        <4>1. ~(t + n <= at.start + at.dur)
          BY <1>3, <2>6, <2>7, <2>11, <3>1 DEF Holds
        <4> QED BY <1>2, <2>6, <4>1
      <3>3. i = Len(k)
        <4> SUFFICES ASSUME i # Len(k) PROVE FALSE
          OBVIOUS
        <4> DEFINE j == i + 1
        <4>1. j \in 1..Len(k) /\ i \in 1..Len(k) /\ j - 1 = i
          BY <2>3
        <4> HIDE DEF j
        <4>2. Places(k)[j].start = L[i] /\ EndExclusive(Places(k)[j]) = L[j] /\ L[i] < L[j]
          BY <1>1, <4>1 DEF Cuts, m
        <4>3. EndExclusive(at) = L[i]
          BY <1>1, <4>1, Zenon DEF Cuts, m, at
        <4>4. L[i] \in Nat /\ L[j] \in Nat
          <5>1. L \in [0..Len(k) -> Nat]
            BY <1>1, Zenon DEF Cuts, m
          <5>2. i \in 0..Len(k) /\ j \in 0..Len(k)
            BY <4>1
          <5> QED BY <5>1, <5>2
        <4>5. L[i] < t + n /\ L[j] > t
          BY <1>2, <2>6, <2>8, <3>2, <4>2, <4>3, <4>4
        <4>6. Intersects(Places(k)[j], r)
          BY <1>3, <2>7, <4>2, <4>5, Zenon DEF Intersects
        <4>7. j = i
          BY <2>3, <4>1, <4>6, Zenon
        <4> QED BY <4>1, <4>7
      <3> DEFINE first == t - Places(k)[i].start
                 v == OverwriteAcross(k, found, c, r)
      <3>4. EndsWith(k, v, i, first, c)
        <4>1. /\ r.start \in Int /\ r.dur \in Nat /\ r.dur > 0 /\ r.dur = c.range.dur
              /\ Places(k)[i].start < r.start /\ Places(k)[i].dur > 0
              /\ Places(k)[i].start + Places(k)[i].dur < r.start + r.dur
              /\ first = r.start - Places(k)[i].start
          BY <1>2, <1>3, <2>6, <2>8, <3>1, <3>2 DEF at
        <4>2. k \in Seq(Children)
          OBVIOUS
        <4> HIDE DEF first
        <4> QED BY ONLY <1>2, <2>3, <2>4, <2>9, <3>3, <4>1, <4>2, AcrossIs DEF v
      <3>5. Overwrite(k, c, r, TRUE, NULL) = Done(v)
        <4>1. WithoutTransitions(k, r) = k
          BY <2>2, WithoutIs
        <4>2. ~(r.start >= EndOf(k)) /\ ~(r.start < 0 /\ EndExclusive(r) < 0)
          BY <1>2, <1>3, <1>6, <2>7
        <4>3. found # <<>> /\ found[1] = i /\ ~Holds(Places(k)[found[1]], r)
          BY <2>9, <2>11 DEF at
        <4>4. OverwriteItems(k, c, r) = Done(OverwriteAcross(k, found, c, r))
          BY <4>3 DEF OverwriteItems
        <4> HIDE DEF v
        <4> QED BY <4>1, <4>2, <4>4, Zenon DEF Overwrite, v
      <3>6. w = v
        BY <3>5, DoneIs, Zenon
      <3>7. /\ Places(k)[i].start < t /\ t <= Places(k)[i].start + Duration(k[i])
            /\ Places(k)[i].start + Duration(k[i]) <= t + n
        BY <1>2, <2>5, <2>6, <2>8, <3>1, <3>2 DEF at
      <3>8. first = t - Places(k)[i].start /\ EndsWith(k, w, i, first, c) /\ t \in Nat
        BY <3>4, <3>6
      <3> HIDE DEF first, v
      <3> QED BY ONLY <1>1, <1>2, <2>3, <2>4, <3>3, <3>7, <3>8, AcrossPlays
    <2> QED BY <2>10, <2>11
  <1> QED BY <1>5, <1>6

LEMMA OverwriteHolds == ASSUME TypeOK PROVE OverwriteReplaces
  <1> SUFFICES ASSUME NEW c \in Templates, NEW t \in Times, OnlyItems(kids), 0 <= t,
                      LET r == TimeRange(t, Duration(c))
                          found == ItemsIn(kids, r)
                          place == Places(kids)[found[1]]
                      IN  t >= EndOf(kids) \/ (Len(found) = 1 /\ (place.start < t \/ Holds(place, r)))
               PROVE  Frames(Overwrite(kids, c, TimeRange(t, Duration(c)), TRUE, NULL).kids)
                          = Replaced(Frames(kids), t, Duration(c), FramesOf(c))
    BY DEF OverwriteReplaces
  <1> DEFINE n == Duration(c)
             r == TimeRange(t, n)
             found == ItemsIn(kids, r)
             i == found[1]
             w == Overwrite(kids, c, r, TRUE, NULL).kids
  <1>1. kids \in Seq(Children) /\ Usable(kids) /\ t \in Int
    BY ArgumentsAre DEF TypeOK
  <1>2. t \in Nat
    BY <1>1
  <1>3. /\ n = Duration(c) /\ r = TimeRange(t, n) /\ found = ItemsIn(kids, r) /\ i = found[1]
        /\ w = Overwrite(kids, c, r, TRUE, NULL).kids
        /\ \/ t >= EndOf(kids)
           \/ Len(found) = 1 /\ (Places(kids)[i].start < t \/ Holds(Places(kids)[i], r))
    OBVIOUS
  <1> HIDE DEF n, r, found, i, w
  <1>4. PutInPlace(kids, w, t, n, FramesOf(c))
    <2>1. OnlyItems(kids) /\ c \in Templates
      OBVIOUS
    <2> QED BY ONLY <1>1, <1>2, <1>3, <2>1, OverwrittenPlays
  <1> QED BY <1>4, Zenon DEF n, r, w, PutInPlace

\* After the end, inside an item, and from inside the last item on, what is overwritten
\* plays the new item, and all else plays as it did.
THEOREM OverwritesReplace == Spec => []OverwriteReplaces
  <1>1. TypeOK => OverwriteReplaces
    BY OverwriteHolds
  <1> QED BY <1>1, TypesHold, PTL

================================================================================
