----------------------------- MODULE FlattenProofs -----------------------------
(* flatten_stack keeps apart the tracks it was given, the copies it makes and  *)
(* those it has freed: what range_track_map says of an address is said of the  *)
(* track that is there now.  And what it makes of them shows at each time what *)
(* the topmost of the tracks shows.  For stacks of any height and tracks of    *)
(* any length.                                                                 *)
EXTENDS Flatten, ListLemmas

\* A range is not nullopt.
NullIsNoRange == \A start, dur : NULL # TimeRange(start, dur)

--------------------------------------------------------------------------------
(* Lists.                                                                      *)

\* Pushing a value.
LEMMA PushedList ==
    ASSUME NEW s, IsList(s), NEW e
    PROVE  /\ IsList(Append(s, e)) /\ Len(Append(s, e)) = Len(s) + 1
           /\ DOMAIN Append(s, e) = 1..(Len(s) + 1) /\ DOMAIN s = 1..Len(s) /\ Len(s) \in Nat
           /\ Append(s, e)[Len(s) + 1] = e
           /\ \A k \in 1..Len(s) : Append(s, e)[k] = s[k]
  <1> DEFINE t == Append(s, e)
  <1>1. s \in Seq(Range(s) \cup {e})
    BY DEF IsList
  <1>2. /\ t \in Seq(Range(s) \cup {e}) /\ Len(t) = Len(s) + 1 /\ Len(s) \in Nat
        /\ DOMAIN t = 1..(Len(s) + 1) /\ DOMAIN s = 1..Len(s)
        /\ t[Len(s) + 1] = e /\ \A k \in 1..Len(s) : t[k] = s[k]
    BY <1>1
  <1> HIDE DEF t
  <1>3. IsList(t)
    BY <1>2, ListOfItsOwn, Zenon
  <1> QED BY <1>2, <1>3 DEF t

\* Popping one.
LEMMA PoppedList ==
    ASSUME NEW s, IsList(s), s # <<>>
    PROVE  /\ IsList(Front(s)) /\ Len(Front(s)) = Len(s) - 1 /\ Len(s) \in Nat \ {0}
           /\ DOMAIN s = 1..Len(s) /\ DOMAIN Front(s) = 1..(Len(s) - 1)
           /\ Last(s) = s[Len(s)]
           /\ \A k \in 1..(Len(s) - 1) : Front(s)[k] = s[k]
  <1> DEFINE t == Front(s)
  <1>1. s \in Seq(Range(s)) /\ Len(s) \in Nat \ {0} /\ DOMAIN s = 1..Len(s)
    BY DEF IsList
  <1>2. /\ t \in Seq(Range(s)) /\ Len(t) = Len(s) - 1 /\ DOMAIN t = 1..(Len(s) - 1)
        /\ \A k \in 1..(Len(s) - 1) : t[k] = s[k]
    BY <1>1 DEF Front
  <1>3. Last(s) = s[Len(s)]
    BY DEF Last
  <1> HIDE DEF t
  <1>4. IsList(t)
    BY <1>2, ListOfItsOwn, Zenon
  <1> QED BY <1>1, <1>2, <1>3, <1>4 DEF t

\* Changing the last.
LEMMA ChangedList ==
    ASSUME NEW s, IsList(s), s # <<>>, NEW e
    PROVE  LET t == Append(Front(s), e)
           IN  /\ IsList(t) /\ t # <<>> /\ Len(t) = Len(s) /\ Len(s) \in Nat \ {0}
               /\ DOMAIN t = 1..Len(s) /\ DOMAIN s = 1..Len(s)
               /\ t[Len(s)] = e /\ Last(s) = s[Len(s)]
               /\ \A k \in 1..(Len(s) - 1) : t[k] = s[k]
  <1> DEFINE f == Front(s)
             t == Append(f, e)
  <1>1. /\ IsList(f) /\ Len(f) = Len(s) - 1 /\ Len(s) \in Nat \ {0}
        /\ DOMAIN s = 1..Len(s) /\ Last(s) = s[Len(s)]
        /\ \A k \in 1..(Len(s) - 1) : f[k] = s[k]
    BY PoppedList, Zenon
  <1> HIDE DEF f
  <1>2. /\ IsList(t) /\ Len(t) = Len(f) + 1 /\ DOMAIN t = 1..(Len(f) + 1)
        /\ t[Len(f) + 1] = e /\ \A k \in 1..Len(f) : t[k] = f[k]
    <2>1. IsList(f)
      BY <1>1
    <2> QED BY <2>1, PushedList
  <1> HIDE DEF t
  <1>3. t # <<>>
    <2>1. Len(s) \in DOMAIN t
      BY <1>1, <1>2
    <2> QED BY <2>1
  <1>4. Len(f) + 1 = Len(s)
    BY <1>1
  <1> QED BY <1>1, <1>2, <1>3, <1>4 DEF t, f

--------------------------------------------------------------------------------
(* The inductive invariant.                                                    *)

\* The tracks that were given are at their places.
Given ==
    /\ IsList(input) /\ NULL \notin DOMAIN heap
    /\ \A i \in DOMAIN input :
           i \in DOMAIN heap /\ (input[i].kind = "track" => heap[i] = input[i].kids)

\* What is flattened is in memory.
Listed == IsList(tracks) /\ seen \in 0..Len(input) /\ Range(tracks) \subseteq DOMAIN heap

\* The entry of range_track_map for the track of a call, as far as it is still read.
Fresh(c) ==
    /\ c.track \in DOMAIN heap /\ c.track \in DOMAIN ranges
    /\ \A i \in DOMAIN heap[c.track] \ 1..(c.next - 1) :
           i \in DOMAIN ranges[c.track] /\ ranges[c.track][i] = RangesOf(heap[c.track])[i]

\* A call has the form that Call gives it, and all but the latest have a track.
\* The first is of a whole track; all others are of copies, which no one else has.
Formed(n) ==
    /\ DOMAIN calls[n] = {"index", "trim", "track", "next"}
    /\ calls[n].index \in DOMAIN tracks /\ calls[n].next \in Nat \ {0}
    /\ calls[n].trim = NULL <=> n = 1
    /\ n < Len(calls) => calls[n].track # NULL

Placed(n) ==
    calls[n].track # NULL =>
        /\ Fresh(calls[n])
        /\ IF n = 1 THEN calls[n].track \in Range(tracks)
           ELSE calls[n].track \notin DOMAIN input \cup Range(tracks)
        /\ \A m \in DOMAIN calls : m # n => calls[m].track # calls[n].track

Called ==
    /\ IsList(calls)
    /\ calls # <<>> => phase = "flatten"
    /\ phase \in {"prepare", "done"} => DOMAIN ranges = {}
    /\ \A n \in DOMAIN calls : Formed(n) /\ Placed(n)

\* Nothing is kept of a track that no call is at.
Mapped == calls # <<>> => DOMAIN ranges \subseteq {calls[n].track : n \in DOMAIN calls} \ {NULL}

Tidy == Given /\ Listed /\ Called /\ Mapped

--------------------------------------------------------------------------------
(* Maps.                                                                       *)

\* A new entry of a map.
LEMMA EntryAdded ==
    ASSUME NEW m, NEW a, NEW x
    PROVE  LET t == With(m, a, x)
           IN  /\ DOMAIN t = DOMAIN m \cup {a} /\ t[a] = x
               /\ \A b \in DOMAIN m \ {a} : t[b] = m[b]
  BY DEF With

\* At the start nothing is known, and nobody is called.
LEMMA InitTidy == Init => Tidy
  <1> SUFFICES ASSUME Init PROVE Tidy
    OBVIOUS
  <1>1. IsList(input) /\ NULL \notin DOMAIN input /\ DOMAIN heap = DOMAIN input
    BY FlattenAssumption DEF Init, IsList
  <1>2. Given
    <2>1. \A i \in DOMAIN input : input[i].kind = "track" => heap[i] = input[i].kids
      BY DEF Init
    <2> QED BY <1>1, <2>1 DEF Given
  <1>3. Listed
    <2>1. Len(input) \in Nat
      BY <1>1 DEF IsList
    <2> QED BY <2>1 DEF Init, Listed, IsList, Range
  <1>4. Called
    BY DEF Init, Called, IsList
  <1>5. Mapped
    BY DEF Init, Mapped
  <1> QED BY <1>2, <1>3, <1>4, <1>5 DEF Tidy

\* What the invariant says of the memory.
LEMMA TidyMeans == ASSUME Tidy PROVE MemoryIsSound
  <1>1. InputUnchanged
    BY DEF Tidy, Given, Called, Placed, Fresh, InputUnchanged
  <1>2. RangesAreFresh
    BY DEF Tidy, Called, Placed, Fresh, RangesAreFresh
  <1> QED BY <1>1, <1>2 DEF MemoryIsSound

\* When it ends the map goes, and so do the calls.
LEMMA StopTidy ==
    ASSUME Tidy, NEW st, Stop(st), UNCHANGED <<input, seen, heap, tracks>>
    PROVE  Tidy'
  <1>1. calls' = <<>> /\ ranges' = <<>>
    BY DEF Stop
  <1>2. Given'
    BY DEF Tidy, Given
  <1>3. Listed'
    BY DEF Tidy, Listed
  <1>4. Called'
    BY <1>1 DEF Called, IsList
  <1>5. Mapped'
    BY <1>1 DEF Mapped
  <1> QED BY <1>2, <1>3, <1>4, <1>5 DEF Tidy

LEMMA StutterTidy == ASSUME Tidy, UNCHANGED vars PROVE Tidy'
  BY DEF Tidy, vars, Given, Listed, Called, Mapped, Formed, Placed, Fresh

\* Before the first call.
LEMMA CollectTidy == ASSUME Tidy, Collect PROVE Tidy'
  <1>1. seen < Len(input) /\ seen \in 0..Len(input) /\ seen + 1 \in DOMAIN input
    BY DEF Collect, Collecting, Tidy, Listed, Given, IsList
  <1>2. seen + 1 \in DOMAIN heap
    BY <1>1 DEF Tidy, Given
  <1>3. UNCHANGED <<input, phase, heap, ranges, calls>> /\ seen' = seen + 1
    BY DEF Collect
  <1>4. Given'
    BY <1>3 DEF Tidy, Given
  <1>5. IsList(tracks') /\ Range(tracks') \subseteq Range(tracks) \cup {seen + 1}
    <2>1. IsList(tracks)
      BY DEF Tidy, Listed
    <2>2. IsList(Append(tracks, seen + 1)) /\ Range(Append(tracks, seen + 1)) \subseteq Range(tracks) \cup {seen + 1}
      BY <2>1, PushedList DEF Range
    <2> QED BY <2>1, <2>2 DEF Collect
  <1>6. Listed'
    <2>1. seen + 1 \in 0..Len(input)
      BY <1>1
    <2> QED BY <1>2, <1>3, <1>5, <2>1 DEF Tidy, Listed
  <1>7. calls = <<>>
    BY DEF Collect, Collecting, Tidy, Called
  <1>8. Called' /\ Mapped'
    BY <1>3, <1>7 DEF Tidy, Called, Mapped
  <1> QED BY <1>4, <1>6, <1>8 DEF Tidy

LEMMA NormalizeTidy == ASSUME Tidy, NEW a \in Addresses \ DOMAIN heap, Normalize(a) PROVE Tidy'
  <1>1. PICK i, kids : Padded(a, i, kids)
    BY DEF Normalize
  <1>2. /\ DOMAIN heap' = DOMAIN heap \cup {a} /\ heap'[a] = kids
        /\ \A b \in DOMAIN heap \ {a} : heap'[b] = heap[b]
    BY <1>1 DEF Padded, With
  <1>3. UNCHANGED <<input, phase, seen, ranges, calls>>
    BY DEF Normalize
  <1>4. Given'
    <2>1. a # NULL
      BY FlattenAssumption
    <2> QED BY <1>2, <1>3, <2>1 DEF Tidy, Given
  <1>5. Listed'
    <2>1. IsList(tracks) /\ Range(tracks) \subseteq DOMAIN heap
      BY DEF Tidy, Listed
    <2>2. tracks' = [tracks EXCEPT ![i] = a]
      BY <1>1 DEF Padded
    <2>3. tracks \in Seq(Range(tracks) \cup {a})
      BY <2>1 DEF IsList
    <2>4. tracks' \in Seq(Range(tracks) \cup {a})
      <3>1. Len(tracks) \in Nat /\ tracks \in [1..Len(tracks) -> Range(tracks) \cup {a}]
        BY <2>3
      <3>2. tracks' \in [1..Len(tracks) -> Range(tracks) \cup {a}]
        BY <2>2, <3>1
      <3> QED BY <3>1, <3>2
    <2>5. IsList(tracks')
      BY <2>4, ListOfItsOwn
    <2>6. Range(tracks') \subseteq Range(tracks) \cup {a}
      BY <2>2 DEF Range
    <2> QED BY <1>2, <1>3, <2>1, <2>5, <2>6 DEF Tidy, Listed
  <1>6. calls = <<>>
    BY DEF Normalize, Collected, Tidy, Called
  <1>7. Called' /\ Mapped'
    BY <1>3, <1>6 DEF Tidy, Called, Mapped
  <1> QED BY <1>4, <1>5, <1>7 DEF Tidy

LEMMA BeginTidy == ASSUME Tidy, Begin PROVE Tidy'
  <1>1. UNCHANGED <<input, seen, heap, tracks, ranges>> /\ phase' = "flatten" /\ DOMAIN ranges = {}
    BY DEF Begin, Collected, Tidy, Called
  <1>2. Given' /\ Listed'
    BY <1>1 DEF Tidy, Given, Listed
  <1>3. CASE tracks = <<>>
    <2>1. calls' = <<>>
      BY <1>3 DEF Begin
    <2> QED BY <1>1, <1>2, <2>1 DEF Tidy, Called, Mapped, IsList
  <1>4. CASE tracks # <<>>
    <2>1. calls' = <<Call(Len(tracks), NULL)>>
      BY <1>4 DEF Begin
    <2>2. Len(tracks) \in DOMAIN tracks
      BY <1>4, PoppedList DEF Tidy, Listed
    <2>3. IsList(calls') /\ DOMAIN calls' = {1} /\ Len(calls') = 1
      <3>1. calls' \in Seq({Call(Len(tracks), NULL)}) /\ Len(calls') = 1 /\ DOMAIN calls' = {1}
        BY <2>1
      <3> QED BY <3>1, ListOfItsOwn, Zenon
    <2>4. calls'[1] = [index |-> Len(tracks), trim |-> NULL, track |-> NULL, next |-> 1]
      BY <2>1 DEF Call
    <2>5. Called'
      BY <1>1, <2>2, <2>3, <2>4 DEF Called, Formed, Placed
    <2>6. Mapped'
      BY <1>1 DEF Mapped
    <2> QED BY <1>2, <2>5, <2>6 DEF Tidy
  <1> QED BY <1>3, <1>4

--------------------------------------------------------------------------------
(* The calls.                                                                  *)

LEMMA RangesOfAll == ASSUME NEW kids PROVE DOMAIN RangesOf(kids) = DOMAIN kids
  BY DEF RangesOf

\* The latest call, exchanged for another.
LEMMA TopChanged ==
    ASSUME Called, calls # <<>>, NEW c, calls' = WithTop(c)
    PROVE  /\ IsList(calls') /\ calls' # <<>> /\ Len(calls') = Len(calls)
           /\ Len(calls) \in Nat \ {0} /\ Len(calls) \in DOMAIN calls
           /\ DOMAIN calls = 1..Len(calls) /\ DOMAIN calls' = 1..Len(calls)
           /\ calls'[Len(calls)] = c /\ Top = calls[Len(calls)]
           /\ \A k \in 1..Len(calls) : k # Len(calls) => calls'[k] = calls[k]
  <1> DEFINE t == Append(Front(calls), c)
             N == Len(calls)
  <1>1. IsList(calls)
    BY DEF Called
  <1>2. /\ IsList(t) /\ t # <<>> /\ Len(t) = N /\ N \in Nat \ {0}
        /\ DOMAIN t = 1..N /\ DOMAIN calls = 1..N
        /\ t[N] = c /\ Last(calls) = calls[N]
        /\ \A k \in 1..(N - 1) : t[k] = calls[k]
    BY <1>1, ChangedList
  <1>3. calls' = t
    BY DEF WithTop
  <1> HIDE DEF t, N
  <1>4. N \in DOMAIN calls /\ \A k \in 1..N : k # N => k \in 1..(N - 1)
    BY <1>2
  <1> QED BY <1>2, <1>3, <1>4, Zenon DEF N, Top

\* A call gets a track that no call has, and the map an entry for it.
LEMMA EnterTidy ==
    ASSUME Tidy, Flattening, Top.track = NULL,
           NEW a, a # NULL, a \in DOMAIN heap', a \notin DOMAIN ranges,
           \A n \in DOMAIN calls : calls[n].track # a,
           IF Len(calls) = 1 THEN a \in Range(tracks) ELSE a \notin DOMAIN input \cup Range(tracks),
           calls' = WithTop([Top EXCEPT !.track = a]),
           ranges' = With(ranges, a, RangesOf(heap'[a])),
           \A b \in DOMAIN heap : b # a => b \in DOMAIN heap' /\ heap'[b] = heap[b],
           UNCHANGED <<input, tracks, phase>>
    PROVE  Called' /\ Mapped'
  <1> DEFINE N == Len(calls)
             c == [Top EXCEPT !.track = a]
  <1>1. /\ IsList(calls') /\ calls' # <<>> /\ Len(calls') = N
        /\ N \in Nat \ {0} /\ N \in DOMAIN calls
        /\ DOMAIN calls = 1..N /\ DOMAIN calls' = 1..N
        /\ calls'[N] = c /\ Top = calls[N]
        /\ \A k \in 1..N : k # N => calls'[k] = calls[k]
    BY TopChanged DEF Tidy, Flattening
  <1>2. Called /\ Formed(N) /\ phase = "flatten" /\ calls # <<>>
    BY <1>1 DEF Tidy, Called, Flattening
  <1>3. /\ DOMAIN c = {"index", "trim", "track", "next"} /\ c.track = a
        /\ c.index = calls[N].index /\ c.trim = calls[N].trim /\ c.next = calls[N].next
    BY <1>1, <1>2 DEF Formed
  <1>4. /\ DOMAIN ranges' = DOMAIN ranges \cup {a} /\ ranges'[a] = RangesOf(heap'[a])
        /\ \A b \in DOMAIN ranges : ranges'[b] = ranges[b]
    BY DEF With
  <1> HIDE DEF N, c
  <1>5. ASSUME NEW n \in 1..N PROVE Formed(n)'
    <2>1. Formed(n)
      BY <1>1, <1>2 DEF Called
    <2>2. CASE n = N
      BY <1>1, <1>2, <1>3, <2>2 DEF Formed
    <2>3. CASE n # N
      <3>1. calls'[n] = calls[n]
        BY <1>1, <2>3
      <3> QED BY <1>1, <2>1, <3>1 DEF Formed
    <2> QED BY <2>2, <2>3
  <1>6. ASSUME NEW n \in 1..N, n # N
        PROVE  /\ calls'[n] = calls[n] /\ calls[n].track # NULL /\ calls[n].track # a
               /\ Placed(n) /\ Fresh(calls[n])
    <2>1. n \in DOMAIN calls /\ n < N
      BY <1>1, <1>6
    <2>2. Formed(n) /\ Placed(n)
      BY <1>2, <2>1 DEF Called
    <2>3. calls[n].track # NULL
      BY <2>1, <2>2 DEF Formed, N
    <2> QED BY <1>1, <1>6, <2>1, <2>2, <2>3 DEF Placed
  <1>7. ASSUME NEW n \in 1..N PROVE Placed(n)'
    <2>1. CASE n = N
      <3>1. Fresh(calls[n])'
        BY <1>1, <1>3, <1>4, <2>1, RangesOfAll DEF Fresh
      <3>2. \A m \in DOMAIN calls' : m # n => calls'[m].track # calls'[n].track
        BY <1>1, <1>3, <1>6, <2>1
      <3>3. IF n = 1 THEN a \in Range(tracks) ELSE a \notin DOMAIN input \cup Range(tracks)
        BY <2>1 DEF N
      <3> QED BY <1>1, <1>3, <2>1, <3>1, <3>2, <3>3 DEF Placed
    <2>2. CASE n # N
      <3>1. Placed(n) /\ Fresh(calls[n]) /\ calls'[n] = calls[n] /\ calls[n].track # a /\ calls[n].track # NULL
        BY <1>6, <2>2
      <3>2. Fresh(calls[n])'
        BY <1>4, <3>1 DEF Fresh
      <3>3. ASSUME NEW m \in DOMAIN calls', m # n PROVE calls'[m].track # calls'[n].track
        <4>1. CASE m = N
          BY <1>1, <1>3, <3>1, <4>1
        <4>2. CASE m # N
          BY <1>1, <3>1, <3>3, <4>2 DEF Placed
        <4> QED BY <4>1, <4>2
      <3>4. IF n = 1 THEN calls[n].track \in Range(tracks)
            ELSE calls[n].track \notin DOMAIN input \cup Range(tracks)
        BY <3>1 DEF Placed
      <3> QED BY <3>1, <3>2, <3>3, <3>4 DEF Placed
    <2> QED BY <2>1, <2>2
  <1>8. Called'
    BY <1>1, <1>2, <1>5, <1>7 DEF Called
  <1>9. Mapped'
    <2>1. ASSUME NEW b \in DOMAIN ranges' PROVE b # NULL /\ \E n \in DOMAIN calls' : calls'[n].track = b
      <3>1. CASE b = a
        BY <1>1, <1>3, <3>1
      <3>2. CASE b # a
        <4>1. b \in DOMAIN ranges
          BY <1>4, <3>2
        <4>2. b # NULL /\ \E n \in DOMAIN calls : calls[n].track = b
          BY <1>2, <4>1 DEF Tidy, Mapped
        <4>3. PICK n \in DOMAIN calls : calls[n].track = b
          BY <4>2
        <4>4. n # N
          BY <1>1, <4>2, <4>3
        <4> QED BY <1>1, <4>2, <4>3, <4>4
      <3> QED BY <3>1, <3>2
    <2> QED BY <2>1 DEF Mapped
  <1> QED BY <1>8, <1>9

\* The whole of the top track.
LEMMA EnterWholeTidy == ASSUME Tidy, EnterWhole PROVE Tidy'
  <1> DEFINE a == tracks[Top.index]
             N == Len(calls)
  <1>1. /\ Flattening /\ Top.track = NULL /\ Top.trim = NULL /\ calls # <<>>
        /\ UNCHANGED <<input, seen, phase, heap, tracks>>
    BY DEF EnterWhole, Flattening
  <1>2. IsList(calls) /\ N \in DOMAIN calls /\ Top = calls[N] /\ DOMAIN calls = 1..N
    BY <1>1, PoppedList DEF Tidy, Called, Top
  <1>3. N = 1 /\ Top.index \in DOMAIN tracks
    BY <1>1, <1>2 DEF Tidy, Called, Formed
  <1>4. a \in Range(tracks) /\ a \in DOMAIN heap /\ a # NULL
    BY <1>3 DEF Tidy, Listed, Given, Range
  <1>5. DOMAIN ranges = {}
    <2>1. DOMAIN ranges \subseteq {calls[n].track : n \in DOMAIN calls} \ {NULL}
      BY <1>1 DEF Tidy, Mapped
    <2>2. \A n \in DOMAIN calls : calls[n].track = NULL
      BY <1>1, <1>2, <1>3
    <2> QED BY <2>1, <2>2
  <1>6. calls' = WithTop([Top EXCEPT !.track = a]) /\ ranges' = With(ranges, a, RangesOf(heap'[a]))
    BY <1>1, <1>5 DEF EnterWhole, Found
  <1>7. \A n \in DOMAIN calls : calls[n].track # a
    BY <1>1, <1>2, <1>3, <1>4
  <1> HIDE DEF a
  <1>8. Called' /\ Mapped'
    <2>1. IF Len(calls) = 1 THEN a \in Range(tracks) ELSE a \notin DOMAIN input \cup Range(tracks)
      BY <1>3, <1>4
    <2>2. a \in DOMAIN heap' /\ a \notin DOMAIN ranges
      BY <1>1, <1>4, <1>5
    <2>3. \A b \in DOMAIN heap : b # a => b \in DOMAIN heap' /\ heap'[b] = heap[b]
      BY <1>1
    <2> QED BY <1>1, <1>4, <1>6, <1>7, <2>1, <2>2, <2>3, EnterTidy
  <1>9. Given' /\ Listed'
    BY <1>1 DEF Tidy, Given, Listed
  <1> QED BY <1>8, <1>9 DEF Tidy

\* A copy of the part of a track, wherever it is put.
LEMMA EnterTrimmedTidy == ASSUME Tidy, NEW a \in Addresses \ DOMAIN heap, EnterTrimmed(a) PROVE Tidy'
  <1> DEFINE N == Len(calls)
  <1>1. /\ Flattening /\ Top.track = NULL /\ Top.trim # NULL /\ calls # <<>>
        /\ UNCHANGED <<input, seen, phase, tracks>>
    BY DEF EnterTrimmed, Enters, Flattening
  <1>2. IsList(calls) /\ N \in DOMAIN calls /\ Top = calls[N] /\ DOMAIN calls = 1..N
    BY <1>1, PoppedList DEF Tidy, Called, Top
  <1>3. N # 1
    BY <1>1, <1>2 DEF Tidy, Called, Formed
  <1>4. a # NULL /\ a \notin DOMAIN heap
    BY FlattenAssumption
  <1>5. a \notin DOMAIN input \cup Range(tracks)
    BY <1>4 DEF Tidy, Given, Listed
  <1>6. \A n \in DOMAIN calls : calls[n].track # a
    BY <1>4 DEF Tidy, Called, Placed, Fresh
  <1>7. a \notin DOMAIN ranges
    BY <1>1, <1>6 DEF Tidy, Mapped
  <1>8. /\ DOMAIN heap' = DOMAIN heap \cup {a} /\ heap'[a] = Copy.kids
        /\ \A b \in DOMAIN heap : b # a => heap'[b] = heap[b]
    BY DEF EnterTrimmed, With
  <1>9. calls' = WithTop([Top EXCEPT !.track = a]) /\ ranges' = With(ranges, a, RangesOf(heap'[a]))
    BY <1>7, <1>8 DEF EnterTrimmed, Found
  <1>10. Called' /\ Mapped'
    <2>1. IF Len(calls) = 1 THEN a \in Range(tracks) ELSE a \notin DOMAIN input \cup Range(tracks)
      BY <1>3, <1>5
    <2>2. a \in DOMAIN heap'
      BY <1>8
    <2>3. \A b \in DOMAIN heap : b # a => b \in DOMAIN heap' /\ heap'[b] = heap[b]
      BY <1>8
    <2> QED BY <1>1, <1>4, <1>6, <1>7, <1>9, <2>1, <2>2, <2>3, EnterTidy
  <1>11. Given'
    BY <1>1, <1>4, <1>8 DEF Tidy, Given
  <1>12. Listed'
    BY <1>1, <1>8 DEF Tidy, Listed
  <1> QED BY <1>10, <1>11, <1>12 DEF Tidy

\* A call goes on to its next child, and may call for the track below: what is
\* overwritten in the map is not read again.
LEMMA AdvanceTidy ==
    ASSUME Tidy, HasNext, UNCHANGED <<input, tracks, phase, heap>>,
           NEW M \in {Len(calls), Len(calls) + 1},
           IsList(calls'), Len(calls') = M, DOMAIN calls' = 1..M,
           \A k \in 1..Len(calls) : k # Len(calls) => calls'[k] = calls[k],
           calls'[Len(calls)] = Advanced,
           M = Len(calls) + 1 =>
               \E index \in DOMAIN tracks : \E trim : trim # NULL /\ calls'[M] = Call(index, trim),
           DOMAIN ranges' = DOMAIN ranges,
           \A b \in DOMAIN ranges : b # Top.track => ranges'[b] = ranges[b],
           DOMAIN ranges'[Top.track] = DOMAIN ranges[Top.track],
           \A i \in DOMAIN ranges[Top.track] :
               i # Top.next => ranges'[Top.track][i] = ranges[Top.track][i]
    PROVE  Called' /\ Mapped'
  <1> DEFINE N == Len(calls)
  <1>1. /\ N \in Nat \ {0} /\ DOMAIN calls = 1..N /\ Top = calls[N] /\ calls # <<>>
        /\ Top.track # NULL /\ phase = "flatten"
    <2>1. calls # <<>> /\ IsList(calls) /\ Top.track # NULL /\ phase = "flatten"
      BY DEF HasNext, Inside, Flattening, Tidy, Called
    <2> QED BY <2>1, PoppedList DEF Top
  <1>2. /\ M \in {N, N + 1} /\ DOMAIN calls' = 1..M /\ Len(calls') = M
        /\ \A k \in 1..N : k # N => calls'[k] = calls[k]
        /\ calls'[N] = Advanced
        /\ M = N + 1 =>
               \E index \in DOMAIN tracks : \E trim : trim # NULL /\ calls'[M] = Call(index, trim)
    OBVIOUS
  <1>3. \A n \in 1..N : Formed(n) /\ Placed(n)
    BY <1>1 DEF Tidy, Called
  <1>4. Formed(N)
    <2>1. N \in 1..N
      BY ONLY <1>1
    <2> QED BY <1>3, <2>1, Zenon
  <1> HIDE DEF N
  <1>5. /\ DOMAIN Top = {"index", "trim", "track", "next"} /\ Top.next \in Nat \ {0}
        /\ Top.index \in DOMAIN tracks /\ (Top.trim = NULL <=> N = 1)
    BY ONLY <1>1, <1>4 DEF Formed
  <1>6. /\ DOMAIN Advanced = DOMAIN Top /\ Advanced.index = Top.index /\ Advanced.trim = Top.trim
        /\ Advanced.track = Top.track /\ Advanced.next = Top.next + 1
    BY <1>5 DEF Advanced
  <1>7. ASSUME M = N + 1
        PROVE  /\ DOMAIN calls'[M] = {"index", "trim", "track", "next"}
               /\ calls'[M].index \in DOMAIN tracks
               /\ calls'[M].trim # NULL /\ calls'[M].track = NULL /\ calls'[M].next = 1
    <2>1. PICK index, trim : index \in DOMAIN tracks /\ trim # NULL /\ calls'[M] = Call(index, trim)
      BY ONLY <1>2, <1>7
    <2>2. calls'[M] = [index |-> index, trim |-> trim, track |-> NULL, next |-> 1]
      BY ONLY <2>1 DEF Call
    <2> QED BY ONLY <2>1, <2>2
  <1>8. /\ M \in Nat \ {0} /\ N <= M
        /\ \A n \in 1..M : n \in 1..N \/ (n = N + 1 /\ n = M)
    BY ONLY <1>2, <1>1
  <1>9. \A n \in 1..N : calls'[n].track = calls[n].track
    BY <1>2, <1>1, <1>6
  <1>10. ASSUME NEW n \in 1..M PROVE Formed(n)'
    <2>1. CASE n \in 1..N /\ n # N
      <3>1. calls'[n] = calls[n] /\ n < N
        BY ONLY <1>2, <1>1, <2>1
      <3>2. Formed(n) /\ n < Len(calls)
        BY <1>3, <2>1, <3>1 DEF N
      <3> QED BY <3>1, <3>2 DEF Formed
    <2>2. CASE n = N
      <3>1. calls'[n] = Advanced /\ Advanced.next \in Nat \ {0}
        BY <1>2, <1>5, <1>6, <2>2
      <3>2. n < Len(calls') => M = N + 1
        BY <1>2, <2>2
      <3> QED BY <1>1, <1>5, <1>6, <2>2, <3>1 DEF Formed
    <2>3. CASE n = N + 1 /\ n = M
      <3>1. n # 1 /\ ~(n < M)
        BY <1>1, <2>3
      <3> QED BY <1>7, <2>3, <3>1 DEF Formed
    <2> QED BY <1>8, <2>1, <2>2, <2>3
  <1>11. ASSUME NEW n \in 1..N PROVE calls'[n].track # NULL => Fresh(calls[n])'
    <2>1. CASE n = N
      <3>1. Fresh(Top)
        BY <1>1, <1>3, <2>1 DEF Placed
      <3>2. calls'[n] = Advanced
        BY <1>2, <2>1
      <3>3. ASSUME NEW i \in DOMAIN heap[Top.track] \ 1..((Top.next + 1) - 1)
            PROVE  i \in DOMAIN heap[Top.track] \ 1..(Top.next - 1) /\ i # Top.next
        BY <1>5, <3>3
      <3> QED BY <1>6, <3>1, <3>2, <3>3 DEF Fresh
    <2>2. CASE n # N
      <3>1. calls'[n] = calls[n]
        BY <1>2, <2>2
      <3>2. calls[n].track # Top.track
        BY <1>1, <1>3, <2>2 DEF Placed
      <3> QED BY <1>3, <3>1, <3>2 DEF Placed, Fresh
    <2> QED BY <2>1, <2>2
  <1>12. ASSUME NEW n \in 1..M PROVE Placed(n)'
    <2>1. CASE n = N + 1 /\ n = M
      BY <1>7, <2>1 DEF Placed
    <2>2. CASE n \in 1..N
      <3>1. ASSUME calls[n].track # NULL, NEW m \in 1..M, m # n
            PROVE  calls'[m].track # calls[n].track
        <4>1. CASE m \in 1..N
          BY <1>1, <1>3, <1>9, <2>2, <3>1, <4>1 DEF Placed
        <4>2. CASE m = N + 1 /\ m = M
          BY <1>7, <3>1, <4>2
        <4> QED BY <1>8, <4>1, <4>2
      <3>2. Placed(n)
        BY <1>3, <2>2
      <3> QED BY <1>9, <1>11, <2>2, <3>1, <3>2 DEF Placed
    <2> QED BY <1>8, <2>1, <2>2
  <1>13. Called'
    BY <1>1, <1>10, <1>12 DEF Called
  <1>14. Mapped'
    <2>1. ASSUME NEW b \in DOMAIN ranges' PROVE b # NULL /\ \E n \in DOMAIN calls' : calls'[n].track = b
      <3>1. b # NULL /\ \E n \in DOMAIN calls : calls[n].track = b
        BY <1>1, <2>1 DEF Tidy, Mapped
      <3>2. PICK n \in 1..N : calls[n].track = b
        BY <1>1, <3>1
      <3>3. n \in DOMAIN calls'
        BY <1>1, <1>8, <3>2
      <3> QED BY <1>9, <3>1, <3>2, <3>3
    <2> QED BY <2>1 DEF Mapped
  <1> QED BY <1>13, <1>14

LEMMA InsertChildTidy == ASSUME Tidy, InsertChild PROVE Tidy'
  <1> DEFINE N == Len(calls)
  <1>1. /\ HasNext /\ calls' = WithTop(Advanced) /\ calls # <<>> /\ Called
        /\ UNCHANGED <<input, tracks, seen, phase, heap, ranges>>
    BY DEF InsertChild, HasNext, Inside, Flattening, Tidy
  <1>2. /\ IsList(calls') /\ Len(calls') = N /\ N \in Nat \ {0} /\ N \in DOMAIN calls
        /\ DOMAIN calls' = 1..N /\ calls'[N] = Advanced /\ Top = calls[N]
        /\ \A k \in 1..N : k # N => calls'[k] = calls[k]
    BY <1>1, TopChanged
  <1>3. N \in {N, N + 1} /\ N # N + 1
    <2>1. N \in Nat
      BY ONLY <1>2
    <2> QED BY ONLY <2>1
  <1>4. Called' /\ Mapped'
    BY <1>1, <1>2, <1>3, AdvanceTidy
  <1>5. Given' /\ Listed'
    BY <1>1 DEF Tidy, Given, Listed
  <1> QED BY <1>4, <1>5 DEF Tidy

\* The part of a child that is not shown is a range.
LEMMA HoleIsRange ==
    ASSUME NullIsNoRange, NEW kids, NEW i \in DOMAIN kids, kids[i].kind # "composable", NEW trim
    PROVE  Hole(RangesOf(kids)[i], trim) # NULL
  <1>1. RangesOf(kids)[i] = Places(kids)[i]
    BY DEF RangesOf
  <1>2. \E start, dur : Places(kids)[i] = TimeRange(start, dur)
    BY DEF Places
  <1>3. \E start, dur : Hole(RangesOf(kids)[i], trim) = TimeRange(start, dur)
    BY <1>1, <1>2 DEF Hole
  <1> QED BY <1>3 DEF NullIsNoRange

LEMMA LookBelowTidy == ASSUME NullIsNoRange, Tidy, LookBelow PROVE Tidy'
  <1> DEFINE N == Len(calls)
             t == Top.track
             k == Top.next
             hole == Hole(ranges[t][k], Top.trim)
             s == WithTop(Advanced)
  <1>1. /\ HasNext /\ calls # <<>> /\ Child.kind # "composable" /\ Top.index > 1 /\ Top.track # NULL
        /\ UNCHANGED <<input, tracks, seen, phase, heap>>
        /\ ranges' = [ranges EXCEPT ![t][k] = hole]
        /\ calls' = Append(s, Call(Top.index - 1, hole))
    BY DEF LookBelow, HasNext, Inside, Flattening
  <1>2. /\ IsList(s) /\ Len(s) = N /\ N \in Nat \ {0} /\ N \in DOMAIN calls
        /\ DOMAIN s = 1..N /\ s[N] = Advanced /\ Top = calls[N]
        /\ \A j \in 1..(N - 1) : s[j] = calls[j]
    <2>1. IsList(calls)
      BY DEF Tidy, Called
    <2>2. /\ IsList(s) /\ Len(s) = N /\ N \in Nat \ {0}
          /\ DOMAIN s = 1..N /\ DOMAIN calls = 1..N /\ s[N] = Advanced /\ Last(calls) = calls[N]
          /\ \A j \in 1..(N - 1) : s[j] = calls[j]
      BY <1>1, <2>1, ChangedList DEF WithTop
    <2>3. N \in 1..N
      BY ONLY <2>2
    <2> QED BY ONLY <2>2, <2>3 DEF Top
  <1>3. Formed(N) /\ Placed(N)
    BY <1>2 DEF Tidy, Called
  <1>4. /\ Top.index \in DOMAIN tracks /\ k \in Nat \ {0}
        /\ t \in DOMAIN heap /\ t \in DOMAIN ranges /\ k \in DOMAIN heap[t]
    BY <1>1, <1>2, <1>3 DEF Formed, Placed, Fresh, HasNext
  <1>5. Top.index - 1 \in DOMAIN tracks
    <2>1. Len(tracks) \in Nat /\ DOMAIN tracks = 1..Len(tracks)
      BY DEF Tidy, Listed, IsList
    <2> QED BY <1>1, <1>4, <2>1
  <1>6. k \in DOMAIN ranges[t] /\ ranges[t][k] = RangesOf(heap[t])[k]
    <2>1. k \in DOMAIN heap[t] \ 1..(k - 1)
      BY <1>4
    <2> QED BY <1>1, <1>2, <1>3, <2>1 DEF Placed, Fresh
  <1>7. hole # NULL
    BY <1>1, <1>4, <1>6, HoleIsRange DEF Child
  <1>8. /\ DOMAIN ranges' = DOMAIN ranges /\ DOMAIN ranges'[t] = DOMAIN ranges[t]
        /\ \A b \in DOMAIN ranges : b # t => ranges'[b] = ranges[b]
        /\ \A i \in DOMAIN ranges[t] : i # k => ranges'[t][i] = ranges[t][i]
    BY <1>1, <1>4
  <1> HIDE DEF s, hole, N
  <1>9. /\ IsList(calls') /\ Len(calls') = N + 1 /\ DOMAIN calls' = 1..(N + 1)
        /\ calls'[N + 1] = Call(Top.index - 1, hole)
        /\ \A j \in 1..N : calls'[j] = s[j]
    BY <1>1, <1>2, PushedList
  <1>10. calls'[N] = Advanced /\ \A j \in 1..N : j # N => calls'[j] = calls[j]
    <2>1. N \in 1..N /\ \A j \in 1..N : j # N => j \in 1..(N - 1)
      <3>1. N \in Nat \ {0}
        BY ONLY <1>2
      <3> QED BY ONLY <3>1
    <2> QED BY ONLY <1>2, <1>9, <2>1
  <1>11. Called' /\ Mapped'
    BY <1>1, <1>5, <1>7, <1>8, <1>9, <1>10, AdvanceTidy DEF N
  <1>12. Given' /\ Listed'
    BY <1>1 DEF Tidy, Given, Listed
  <1> QED BY <1>11, <1>12 DEF Tidy

\* A call ends; a copy goes, with what the map says of its address.
LEMMA LeaveTidy == ASSUME Tidy, Leave PROVE Tidy'
  <1> DEFINE N == Len(calls)
             t == Top.track
  <1>1. /\ calls # <<>> /\ t # NULL /\ calls' = Front(calls) /\ phase = "flatten" /\ IsList(calls)
        /\ UNCHANGED <<input, tracks, seen, phase>>
    BY DEF Leave, Inside, Flattening, Tidy, Called
  <1>2. /\ IsList(calls') /\ Len(calls') = N - 1 /\ N \in Nat \ {0} /\ DOMAIN calls = 1..N
        /\ DOMAIN calls' = 1..(N - 1) /\ Top = calls[N]
        /\ \A k \in 1..(N - 1) : calls'[k] = calls[k]
    BY <1>1, PoppedList DEF Top
  <1>3. N \in 1..N /\ \A k \in 1..(N - 1) : k \in 1..N /\ k # N /\ k < N
    <2>1. N \in Nat \ {0}
      BY ONLY <1>2
    <2> QED BY ONLY <2>1
  <1>4. \A n \in 1..N : Formed(n) /\ Placed(n)
    BY <1>2 DEF Tidy, Called
  <1>5. CASE Top.trim = NULL
    <2>1. N = 1 /\ UNCHANGED <<ranges, heap>>
      BY <1>2, <1>3, <1>4, <1>5 DEF Formed, Leave
    <2>2. DOMAIN calls' = {} /\ calls' = <<>>
      BY <1>2, <2>1 DEF IsList
    <2>3. Given' /\ Listed'
      BY <1>1, <2>1 DEF Tidy, Given, Listed
    <2>4. Called'
      BY <1>1, <1>2, <2>2 DEF Called
    <2>5. Mapped'
      BY <2>2 DEF Mapped
    <2> QED BY <2>3, <2>4, <2>5 DEF Tidy
  <1>6. CASE Top.trim # NULL
    <2>1. /\ DOMAIN heap' = DOMAIN heap \ {t} /\ DOMAIN ranges' = DOMAIN ranges \ {t}
          /\ \A b \in DOMAIN heap \ {t} : heap'[b] = heap[b]
          /\ \A b \in DOMAIN ranges \ {t} : ranges'[b] = ranges[b]
      BY <1>6 DEF Leave, Forgotten
    <2>2. t \notin DOMAIN input \cup Range(tracks)
      BY <1>1, <1>2, <1>3, <1>4, <1>6 DEF Formed, Placed
    <2>3. Given' /\ Listed'
      BY <1>1, <2>1, <2>2 DEF Tidy, Given, Listed
    <2>4. ASSUME NEW n \in 1..(N - 1)
          PROVE  /\ Formed(n) /\ Placed(n) /\ calls'[n] = calls[n] /\ calls[n].track # NULL
                 /\ calls[n].track # t
      <3>1. n \in 1..N /\ n # N /\ n < N
        BY <1>3
      <3>2. Formed(n) /\ Placed(N) /\ Placed(n)
        BY <1>3, <1>4, <3>1
      <3>3. calls[n].track # t
        BY <1>1, <1>2, <3>1, <3>2 DEF Placed
      <3> QED BY <1>2, <3>1, <3>2, <3>3 DEF Formed
    <2>5. ASSUME NEW n \in 1..(N - 1) PROVE Formed(n)' /\ Placed(n)'
      <3>1. Formed(n)'
        BY <1>1, <2>4 DEF Formed
      <3>2. Fresh(calls[n])
        BY <2>4 DEF Placed
      <3>3. Fresh(calls[n])'
        BY <2>1, <2>4, <3>2 DEF Fresh
      <3>4. \A m \in DOMAIN calls' : m # n => calls'[m].track # calls'[n].track
        BY <1>2, <1>3, <2>4 DEF Placed
      <3> QED BY <1>1, <2>4, <3>1, <3>3, <3>4 DEF Placed
    <2>6. Called'
      BY <1>1, <1>2, <2>5 DEF Called
    <2>7. Mapped'
      <3>1. ASSUME NEW b \in DOMAIN ranges' PROVE b # NULL /\ \E n \in DOMAIN calls' : calls'[n].track = b
        <4>1. b \in DOMAIN ranges /\ b # t
          BY <2>1
        <4>2. b # NULL /\ \E n \in DOMAIN calls : calls[n].track = b
          BY <1>1, <4>1 DEF Tidy, Mapped
        <4>3. PICK n \in 1..N : calls[n].track = b
          BY <1>2, <4>2
        <4>4. n # N
          BY <1>2, <4>1, <4>3
        <4>5. n \in 1..(N - 1)
          <5>1. N \in Nat \ {0}
            BY ONLY <1>2
          <5> QED BY ONLY <4>3, <4>4, <5>1
        <4> QED BY <1>2, <4>2, <4>3, <4>5
      <3> QED BY <3>1 DEF Mapped
    <2> QED BY <2>3, <2>6, <2>7 DEF Tidy
  <1> QED BY <1>5, <1>6

LEMMA NextTidy == ASSUME NullIsNoRange, Tidy, [Next]_vars PROVE Tidy'
  <1>1. CASE Mixed
    BY <1>1, StopTidy DEF Mixed
  <1>2. CASE Collect
    BY <1>2, CollectTidy
  <1>3. ASSUME NEW a \in Addresses \ DOMAIN heap, Normalize(a) PROVE Tidy'
    BY <1>3, NormalizeTidy
  <1>4. CASE Begin
    BY <1>4, BeginTidy
  <1>5. CASE EnterWhole
    BY <1>5, EnterWholeTidy
  <1>6. ASSUME NEW a \in Addresses \ DOMAIN heap, EnterTrimmed(a) PROVE Tidy'
    BY <1>6, EnterTrimmedTidy
  <1>7. CASE EnterRefused
    BY <1>7, StopTidy DEF EnterRefused
  <1>8. CASE NeitherItemNorTransition
    BY <1>8, StopTidy DEF NeitherItemNorTransition
  <1>9. CASE InsertChild
    BY <1>9, InsertChildTidy
  <1>10. CASE LookBelow
    BY <1>10, LookBelowTidy
  <1>11. CASE Leave
    BY <1>11, LeaveTidy
  <1>12. CASE Return
    BY <1>12, StopTidy DEF Return
  <1>13. CASE Done \/ UNCHANGED vars
    BY <1>13, StutterTidy DEF Done
  <1> QED
    BY <1>1, <1>2, <1>3, <1>4, <1>5, <1>6, <1>7, <1>8, <1>9, <1>10, <1>11, <1>12, <1>13 DEF Next

\* However many tracks are flattened, and wherever the allocator puts the trimmed
\* copies: the tracks of the client stay as they are, no call uses a track that was
\* freed, and what range_track_map is asked of a track is of that track.
THEOREM MemoryStaysSound == ASSUME NullIsNoRange PROVE Spec => []MemoryIsSound
  <1>1. Init => Tidy
    BY InitTidy
  <1>2. Tidy /\ [Next]_vars => Tidy'
    BY NextTidy
  <1>3. Tidy => MemoryIsSound
    BY TidyMeans
  <1> QED BY <1>1, <1>2, <1>3, PTL DEF Spec

--------------------------------------------------------------------------------
(* Children, and where they are.                                               *)

\* The children of a track.
Kids(k) == IsList(k) /\ \A i \in 1..Len(k) : IsChild(k[i])

\* Children are a sequence.
LEMMA KidsAre ==
    ASSUME NEW k, Kids(k)
    PROVE  Len(k) \in Nat /\ DOMAIN k = 1..Len(k) /\ k \in Seq(Range(k))
  BY DEF Kids, IsList

\* How long a child is for the track.
LEMMA LongIs ==
    ASSUME NEW c, IsChild(c)
    PROVE  /\ Long(c) \in Nat
           /\ IsItem(c) => Long(c) = c.range.dur /\ Duration(c) = c.range.dur /\ c.range.start \in Int
           /\ ~IsItem(c) => Long(c) = 0
  BY DEF IsChild, IsItem, Long, Duration

\* Children are laid end to end from 0 on.
LEMMA LaidIs ==
    ASSUME NEW k, Kids(k)
    PROVE  /\ IsSum(Laid(k), Len(k), [i \in 1..Len(k) |-> Long(k[i])])
           /\ Laid(k)[0] = 0
           /\ \A i \in 0..Len(k) : Laid(k)[i] \in Nat /\ Laid(k)[i] <= Laid(k)[Len(k)]
           /\ \A i \in 1..Len(k) : /\ Laid(k)[i] = Laid(k)[i - 1] + Long(k[i])
                                   /\ Laid(k)[i - 1] \in Nat /\ Long(k[i]) \in Nat
  <1> DEFINE n == Len(k)
             L == Laid(k)
             longs == [i \in 1..n |-> Long(k[i])]
  <1>1. n \in Nat /\ DOMAIN k = 1..n /\ \A i \in 1..n : IsChild(k[i])
    BY KidsAre DEF Kids
  <1>2. longs \in [1..n -> Nat] /\ \A i \in 1..n : Long(k[i]) \in Nat
    BY <1>1, LongIs
  <1>3. IsSum(Sums(longs), n, longs)
    <2>1. longs \in [1..n -> Int]
      BY <1>2
    <2> HIDE DEF longs, n
    <2> QED BY <1>1, <2>1, SumsRun
  <1>4. L = Sums(longs)
    BY <1>1 DEF Laid
  <1> HIDE DEF n, L
  <1>5. IsSum(L, n, longs)
    BY <1>3, <1>4
  <1>6. L[0] = 0 /\ L \in [0..n -> Int] /\ \A i \in 1..n : L[i] = L[i - 1] + Long(k[i])
    BY <1>5 DEF IsSum
  <1>7. (\A i \in 1..n : L[i - 1] <= L[i]) /\ \A i \in 0..n : L[i] \in Nat
    <2> HIDE DEF longs
    <2> QED BY <1>1, <1>2, <1>5, SumsGrow
  <1>8. \A i \in 0..n : L[i] <= L[n]
    <2>1. \A i, j \in 0..n : i <= j => L[i] <= L[j]
      BY <1>1, <1>6, <1>7, NeverFalls
    <2>2. n \in 0..n /\ \A i \in 0..n : i <= n
      BY <1>1
    <2> QED BY <2>1, <2>2
  <1>9. \A i \in 1..n : i - 1 \in 0..n
    BY <1>1
  <1> QED BY <1>2, <1>5, <1>6, <1>7, <1>8, <1>9 DEF n, L

\* k plays what F says of the times after a, up to b.
Plays(k, F, a, b) ==
    /\ Kids(k) /\ a + Laid(k)[Len(k)] = b
    /\ \A i \in 1..Len(k) : \A n \in 1..Long(k[i]) : F[a + Laid(k)[i - 1] + n] = FrameAt(k[i], n)

\* No children play no time.
LEMMA NothingPlays == ASSUME NEW F, NEW a \in Int PROVE Plays(<<>>, F, a, a)
  <1>1. Kids(<<>>) /\ Len(<<>>) = 0
    BY DEF Kids, IsList
  <1>2. Laid(<<>>)[0] = 0
    BY <1>1, LaidIs
  <1> QED BY <1>1, <1>2 DEF Plays

\* One more child, that plays on.
LEMMA PlaysOn ==
    ASSUME NEW k, NEW F, NEW a \in Int, NEW b, Plays(k, F, a, b), NEW c, IsChild(c),
           \A n \in 1..Long(c) : F[b + n] = FrameAt(c, n)
    PROVE  Plays(Append(k, c), F, a, b + Long(c))
  <1> DEFINE m == Len(k)
             u == Append(k, c)
             K == Laid(k)
             U == Laid(u)
             longs == [i \in 1..m |-> Long(k[i])]
             longer == [i \in 1..(m + 1) |-> Long(u[i])]
  <1>1. Kids(k) /\ m \in Nat /\ a + K[m] = b
    BY KidsAre DEF Plays
  <1>2. /\ IsList(u) /\ Len(u) = m + 1 /\ u[m + 1] = c
        /\ \A i \in 1..m : u[i] = k[i]
    BY <1>1, PushedList DEF Kids
  <1> HIDE DEF u
  <1>3. \A i \in 1..(m + 1) : i \in 1..m \/ i = m + 1
    BY <1>1
  <1>4. Kids(u)
    BY <1>1, <1>2, <1>3 DEF Kids
  <1>5. IsSum(K, m, longs) /\ IsSum(U, m + 1, longer)
    BY <1>1, <1>2, <1>4, LaidIs
  <1>6. \A i \in 0..m : U[i] = K[i]
    <2>1. m + 1 \in Nat /\ m \in 0..(m + 1)
      BY <1>1
    <2>2. \A i \in 1..m : i \in 1..(m + 1) /\ longs[i] = longer[i]
      BY <1>1, <1>2
    <2> HIDE DEF K, U, longs, longer, m
    <2> QED BY <1>5, <2>1, <2>2, SumOfPrefix
  <1>7. U[m + 1] = U[m] + Long(c)
    <2>1. m + 1 \in 1..(m + 1) /\ (m + 1) - 1 = m
      BY <1>1
    <2>2. U[m + 1] = U[(m + 1) - 1] + Long(u[m + 1])
      BY <1>2, <1>4, <2>1, LaidIs
    <2> QED BY <1>2, <2>1, <2>2
  <1>8. K[m] \in Nat /\ Long(c) \in Nat /\ m \in 0..m
    <2>1. m \in 0..m
      BY <1>1
    <2> QED BY <1>1, <2>1, LaidIs, LongIs
  <1>9. a + U[m + 1] = b + Long(c) /\ a + U[m] = b
    <2>1. U[m] = K[m]
      BY <1>6, <1>8
    <2> HIDE DEF K, U, m
    <2> QED BY <1>1, <1>7, <1>8, <2>1
  <1>10. ASSUME NEW i \in 1..(m + 1), NEW n \in 1..Long(u[i])
         PROVE  F[a + U[i - 1] + n] = FrameAt(u[i], n)
    <2>1. CASE i \in 1..m
      <3>1. i - 1 \in 0..m
        BY <1>1, <2>1
      <3>2. U[i - 1] = K[i - 1] /\ u[i] = k[i]
        BY <1>2, <1>6, <2>1, <3>1
      <3>3. F[a + K[i - 1] + n] = FrameAt(k[i], n)
        BY <1>10, <2>1, <3>2 DEF Plays
      <3> QED BY <3>2, <3>3
    <2>2. CASE i = m + 1
      <3>1. i - 1 = m /\ u[i] = c
        BY <1>1, <1>2, <2>2
      <3>2. F[b + n] = FrameAt(c, n)
        BY <1>10, <3>1
      <3> QED BY <1>9, <3>1, <3>2
    <2> QED BY <1>3, <2>1, <2>2
  <1> QED BY <1>2, <1>4, <1>9, <1>10 DEF Plays, u

--------------------------------------------------------------------------------
(* What a track plays.                                                         *)

FramesIn(k) == {FrameAt(k[p[1]], p[2]) : p \in (1..Len(k)) \X Nat}

\* The frames of one child.
LEMMA FramesOfOne ==
    ASSUME NEW k, Kids(k), NEW i \in 1..Len(k)
    PROVE  /\ FramesOf(k[i]) \in Seq(FramesIn(k)) /\ Len(FramesOf(k[i])) = Long(k[i])
           /\ \A n \in 1..Long(k[i]) : FramesOf(k[i])[n] = FrameAt(k[i], n)
  <1> DEFINE c == k[i]
             T == FramesIn(k)
  <1>1. IsChild(c)
    BY DEF Kids
  <1>2. \A n \in Nat : FrameAt(c, n) \in T
    <2>1. ASSUME NEW n \in Nat PROVE FrameAt(c, n) \in T
      <3>1. <<i, n>> \in (1..Len(k)) \X Nat /\ <<i, n>>[1] = i /\ <<i, n>>[2] = n
        OBVIOUS
      <3> QED BY <3>1, Zenon DEF FramesIn
    <2> QED BY <2>1
  <1> HIDE DEF c, T
  <1>3. CASE IsItem(c)
    <2>1. c.range.dur \in Nat /\ Long(c) = c.range.dur
      BY <1>1, <1>3, LongIs
    <2>2. FramesOf(c) = [n \in 1..c.range.dur |-> FrameAt(c, n)]
      BY <1>3 DEF FramesOf
    <2> QED BY <1>2, <2>1, <2>2 DEF c, T
  <1>4. CASE ~IsItem(c)
    <2>1. FramesOf(c) = <<>> /\ Long(c) = 0
      BY <1>1, <1>4, LongIs DEF FramesOf
    <2> QED BY <2>1 DEF c, T
  <1> QED BY <1>3, <1>4

\* f[i] is what the first i children of k play.
IsPlaying(f, k) ==
    /\ f \in [0..Len(k) -> Seq(FramesIn(k))] /\ f[0] = <<>>
    /\ \A i \in 1..Len(k) : f[i] = f[i - 1] \o FramesOf(k[i])

\* The frames of the children are put one after the other.
LEMMA FramesRun ==
    ASSUME NEW k, Kids(k)
    PROVE  \E f : IsPlaying(f, k) /\ Frames(k) = f[Len(k)]
  <1> DEFINE s == [i \in DOMAIN k |-> FramesOf(k[i])]
             T == FramesIn(k)
  <1>1. DOMAIN k = 1..Len(k) /\ Len(k) \in Nat
    BY KidsAre
  <1>2. \A i \in 1..Len(k) : FramesOf(k[i]) \in Seq(T)
    BY FramesOfOne
  <1> HIDE DEF T
  <1>3. s \in Seq(Seq(T)) /\ Len(s) = Len(k) /\ \A i \in 1..Len(k) : s[i] = FramesOf(k[i])
    BY <1>1, <1>2
  <1>4. FlattenSeq(s) = Frames(k)
    BY DEF Frames
  <1> HIDE DEF s
  <1>5. PICK f : Joins(f, s, T)
    BY <1>3, JoinsRun
  <1>6. FlattenSeq(s) = f[Len(s)]
    BY <1>3, <1>5, FlattenedAtEnd
  <1>7. IsPlaying(f, k)
    BY <1>3, <1>5, Zenon DEF Joins, IsPlaying, T
  <1>8. Frames(k) = f[Len(k)]
    BY <1>3, <1>4, <1>6, Zenon
  <1> QED BY <1>7, <1>8, Zenon

\* The first children play for as long as they are laid, and each from where it is.
Lasts(f, k) ==
    \A j \in 0..Len(k) :
        /\ Len(f[j]) = Laid(k)[j]
        /\ \A i \in 1..j : \A n \in 1..Long(k[i]) :
               Laid(k)[i - 1] + n \in 1..Laid(k)[j] /\ f[j][Laid(k)[i - 1] + n] = FrameAt(k[i], n)

\* By induction on the children.
LEMMA PlaysFor == ASSUME NEW k, Kids(k), NEW f, IsPlaying(f, k) PROVE Lasts(f, k)
  <1> DEFINE m == Len(k)
             L == Laid(k)
             T == FramesIn(k)
             AsLaid(j) == \A i \in 1..j : \A n \in 1..Long(k[i]) :
                             L[i - 1] + n \in 1..L[j] /\ f[j][L[i - 1] + n] = FrameAt(k[i], n)
             Q == {j \in 0..m : Len(f[j]) = L[j] /\ AsLaid(j)}
  <1>1. m \in Nat
    BY KidsAre
  <1>2. /\ L[0] = 0 /\ \A i \in 0..m : L[i] \in Nat
        /\ \A i \in 1..m : L[i] = L[i - 1] + Long(k[i]) /\ L[i - 1] \in Nat /\ Long(k[i]) \in Nat
    BY LaidIs
  <1>3. f \in [0..m -> Seq(T)] /\ f[0] = <<>> /\ \A i \in 1..m : f[i] = f[i - 1] \o FramesOf(k[i])
    BY DEF IsPlaying
  <1>4. \A i \in 1..m : /\ FramesOf(k[i]) \in Seq(T) /\ Len(FramesOf(k[i])) = Long(k[i])
                        /\ \A n \in 1..Long(k[i]) : FramesOf(k[i])[n] = FrameAt(k[i], n)
    BY FramesOfOne
  <1> HIDE DEF L, m, T
  <1>5. 0 \in Q
    BY <1>1, <1>2, <1>3
  <1>6. ASSUME NEW j \in 1..m, j - 1 \in Q PROVE j \in Q
    <2> DEFINE x == f[j - 1]
               y == FramesOf(k[j])
               p == L[j - 1]
               q == Long(k[j])
    <2>1. x \in Seq(T) /\ Len(x) = p /\ j - 1 \in 0..m /\ AsLaid(j - 1)
      BY <1>1, <1>3, <1>6
    <2>2. /\ y \in Seq(T) /\ Len(y) = q /\ p \in Nat /\ q \in Nat
          /\ \A n \in 1..q : y[n] = FrameAt(k[j], n)
      BY <1>2, <1>4
    <2>3. f[j] = x \o y /\ L[j] = p + q
      BY <1>2, <1>3
    <2> HIDE DEF x, y, p, q
    <2>4. IsJoin(x \o y, x, y, T)
      BY <2>1, <2>2, JoinIs
    <2>5. /\ Len(f[j]) = L[j]
          /\ \A i \in 1..p : f[j][i] = x[i]
          /\ \A i \in 1..q : f[j][p + i] = y[i]
      BY <2>1, <2>2, <2>3, <2>4 DEF IsJoin
    <2>6. ASSUME NEW i \in 1..j, NEW n \in 1..Long(k[i])
          PROVE  L[i - 1] + n \in 1..L[j] /\ f[j][L[i - 1] + n] = FrameAt(k[i], n)
      <3>1. CASE i = j
        <4>1. n \in 1..q /\ L[i - 1] = p
          BY <2>6, <3>1 DEF p, q
        <4>2. p + n \in 1..L[j]
          BY <2>2, <2>3, <4>1
        <4>3. f[j][p + n] = FrameAt(k[j], n)
          BY <2>2, <2>5, <4>1
        <4> QED BY <3>1, <4>1, <4>2, <4>3
      <3>2. CASE i # j
        <4>1. i \in 1..(j - 1)
          BY <1>1, <3>2
        <4>2. L[i - 1] + n \in 1..p /\ x[L[i - 1] + n] = FrameAt(k[i], n)
          BY <2>1, <2>6, <4>1 DEF p, x
        <4>3. L[i - 1] + n \in 1..L[j]
          BY <2>2, <2>3, <4>2
        <4> QED BY <2>5, <4>2, <4>3
      <3> QED BY <3>1, <3>2
    <2> QED BY <2>5, <2>6
  <1>7. \A j \in 0..m : j \in Q
    <2> HIDE DEF Q
    <2> QED BY <1>1, <1>5, <1>6, Rounds
  <1> QED BY <1>7 DEF L, m, Lasts

\* The frames of children are those that they play.
LEMMA FramesOfPlay ==
    ASSUME NEW k, NEW F, NEW a \in Int, NEW b, Plays(k, F, a, b)
    PROVE  Frames(k) = [p \in 1..(b - a) |-> F[a + p]]
  <1> DEFINE m == Len(k)
             L == Laid(k)
             T == FramesIn(k)
  <1>1. Kids(k) /\ m \in Nat /\ a + L[m] = b
    BY KidsAre DEF Plays
  <1>2. PICK f : IsPlaying(f, k) /\ Frames(k) = f[m]
    BY <1>1, FramesRun
  <1>3. /\ L[0] = 0 /\ \A i \in 0..m : L[i] \in Nat
        /\ \A i \in 1..m : L[i] = L[i - 1] + Long(k[i]) /\ L[i - 1] \in Nat /\ Long(k[i]) \in Nat
    BY <1>1, LaidIs
  <1>4. f \in [0..m -> Seq(T)] /\ f[0] = <<>> /\ \A i \in 1..m : f[i] = f[i - 1] \o FramesOf(k[i])
    BY <1>2 DEF IsPlaying
  <1>5. \A i \in 1..m : /\ FramesOf(k[i]) \in Seq(T) /\ Len(FramesOf(k[i])) = Long(k[i])
                        /\ \A n \in 1..Long(k[i]) : FramesOf(k[i])[n] = F[a + L[i - 1] + n]
    <2>1. ASSUME NEW i \in 1..m
          PROVE  /\ FramesOf(k[i]) \in Seq(T) /\ Len(FramesOf(k[i])) = Long(k[i])
                 /\ \A n \in 1..Long(k[i]) : FramesOf(k[i])[n] = FrameAt(k[i], n)
                                             /\ F[a + L[i - 1] + n] = FrameAt(k[i], n)
      BY <1>1, FramesOfOne DEF Plays
    <2> QED BY <2>1
  <1> HIDE DEF L, m, T
  <1> DEFINE Q == {j \in 0..m : Len(f[j]) = L[j] /\ \A p \in 1..L[j] : f[j][p] = F[a + p]}
  <1>6. 0 \in Q
    BY <1>1, <1>3, <1>4
  <1>7. ASSUME NEW j \in 1..m, j - 1 \in Q PROVE j \in Q
    <2> DEFINE x == f[j - 1]
               y == FramesOf(k[j])
               u == L[j - 1]
               v == Long(k[j])
    <2>1. x \in Seq(T) /\ Len(x) = u /\ j - 1 \in 0..m /\ \A p \in 1..u : x[p] = F[a + p]
      BY <1>1, <1>4, <1>7
    <2>2. /\ y \in Seq(T) /\ Len(y) = v /\ u \in Nat /\ v \in Nat
          /\ \A n \in 1..v : y[n] = F[a + u + n]
      BY <1>3, <1>5
    <2>3. f[j] = x \o y /\ L[j] = u + v
      BY <1>3, <1>4
    <2> HIDE DEF x, y, u, v
    <2>4. IsJoin(x \o y, x, y, T)
      BY <2>1, <2>2, JoinIs
    <2>5. /\ Len(f[j]) = L[j]
          /\ \A i \in 1..u : f[j][i] = x[i]
          /\ \A i \in 1..v : f[j][u + i] = y[i]
      BY <2>1, <2>2, <2>3, <2>4 DEF IsJoin
    <2>6. ASSUME NEW p \in 1..L[j] PROVE f[j][p] = F[a + p]
      <3>1. CASE p \in 1..u
        BY <2>1, <2>5, <3>1
      <3>2. CASE p \notin 1..u
        <4>1. p - u \in 1..v /\ u + (p - u) = p /\ a + u + (p - u) = a + p
          BY <2>2, <2>3, <3>2
        <4>2. f[j][u + (p - u)] = y[p - u] /\ y[p - u] = F[a + u + (p - u)]
          BY <2>2, <2>5, <4>1
        <4> QED BY <4>1, <4>2
      <3> QED BY <3>1, <3>2
    <2> QED BY <2>5, <2>6
  <1>8. \A j \in 0..m : j \in Q
    <2> HIDE DEF Q
    <2> QED BY <1>1, <1>6, <1>7, Rounds
  <1>9. m \in 0..m
    BY <1>1
  <1>10. Len(f[m]) = L[m] /\ f[m] \in Seq(T) /\ \A p \in 1..L[m] : f[m][p] = F[a + p]
    BY <1>4, <1>8, <1>9
  <1>11. L[m] = b - a
    BY <1>1, <1>3, <1>9
  <1> HIDE DEF Q
  <1> DEFINE w == f[m]
  <1>12. w \in Seq(T) /\ Len(w) = b - a /\ \A p \in 1..(b - a) : w[p] = F[a + p]
    BY <1>10, <1>11
  <1> HIDE DEF w
  <1>13. w = [p \in 1..(b - a) |-> F[a + p]]
    BY <1>12
  <1> QED BY <1>2, <1>13 DEF w

\* A track plays its own frames.
LEMMA PlaysItself ==
    ASSUME NEW k, Kids(k)
    PROVE  /\ Len(Frames(k)) = Laid(k)[Len(k)] /\ Len(Frames(k)) \in Nat
           /\ DOMAIN Frames(k) = 1..Len(Frames(k))
           /\ \A F : (\A p \in 1..Len(Frames(k)) : F[p] = Frames(k)[p]) => Plays(k, F, 0, Len(Frames(k)))
  <1> DEFINE m == Len(k)
             L == Laid(k)
             w == Frames(k)
  <1>1. m \in Nat /\ m \in 0..m /\ \A i \in 0..m : L[i] \in Nat
    <2>1. m \in Nat
      BY KidsAre
    <2>2. \A i \in 0..m : L[i] \in Nat
      BY LaidIs
    <2> QED BY <2>1, <2>2
  <1>2. PICK f : IsPlaying(f, k) /\ w = f[m]
    BY FramesRun
  <1>3. /\ Len(w) = L[m] /\ w \in Seq(FramesIn(k))
        /\ \A i \in 1..m : \A n \in 1..Long(k[i]) :
               L[i - 1] + n \in 1..L[m] /\ w[L[i - 1] + n] = FrameAt(k[i], n)
    <2>1. f[m] \in Seq(FramesIn(k))
      BY <1>1, <1>2 DEF IsPlaying
    <2>2. \A j \in 0..m :
              /\ Len(f[j]) = L[j]
              /\ \A i \in 1..j : \A n \in 1..Long(k[i]) :
                     L[i - 1] + n \in 1..L[j] /\ f[j][L[i - 1] + n] = FrameAt(k[i], n)
      <3>1. Lasts(f, k)
        BY <1>2, PlaysFor
      <3> QED BY <3>1, Zenon DEF Lasts
    <2> HIDE DEF w, L, m
    <2> QED BY <1>1, <1>2, <2>1, <2>2
  <1>4. Len(w) \in Nat /\ DOMAIN w = 1..Len(w)
    BY <1>3
  <1> HIDE DEF w
  <1>5. ASSUME NEW F, \A p \in 1..Len(w) : F[p] = w[p] PROVE Plays(k, F, 0, Len(w))
    <2>1. 0 + L[m] = Len(w)
      BY <1>1, <1>3
    <2>2. ASSUME NEW i \in 1..m, NEW n \in 1..Long(k[i]) PROVE F[0 + L[i - 1] + n] = FrameAt(k[i], n)
      <3>1. i - 1 \in 0..m
        BY <1>1
      <3>2. 0 + L[i - 1] + n = L[i - 1] + n
        BY <1>1, <3>1
      <3> QED BY <1>3, <1>5, <3>2
    <2> HIDE DEF L, m
    <2> QED BY <2>1, <2>2 DEF Plays, L, m
  <1> QED BY <1>3, <1>4, <1>5 DEF w

--------------------------------------------------------------------------------
(* The part of a track.                                                        *)

\* Where x ends up between s and e.
Clamped(x, s, e) == IF x <= s THEN s ELSE IF x <= e THEN x ELSE e

\* The item at a place, cut to what the trim leaves of it, plays what the item played
\* there, from where its place begins in the trim.
CutsTo(c, p, q, trim) ==
    LET s == trim.start
        e == trim.start + trim.dur
        head == Clamped(p, s, e) - p
        new == CutTo(c, TimeRange(p, q), trim)
    IN  /\ IsChild(new) /\ Long(new) = Clamped(p + q, s, e) - Clamped(p, s, e)
        /\ head \in Nat /\ head + Long(new) <= q
        /\ \A n \in 1..Long(new) : FrameAt(new, n) = FrameAt(c, head + n)

\* By arithmetic on its source range.
LEMMA CutIs ==
    ASSUME NEW c, IsChild(c), IsItem(c), NEW p \in Nat, NEW trim, trim.start \in Nat, trim.dur \in Nat,
           Intersects(trim, TimeRange(p, Long(c)))
    PROVE  CutsTo(c, p, Long(c), trim)
  <1> DEFINE s == trim.start
             d == trim.dur
             q == Long(c)
             from == c.range.start
             at == TimeRange(p, q)
             head == Later(s - p, 0)
             tail == Later((p + q) - (s + d), 0)
             new == CutTo(c, at, trim)
  <1>1. /\ q \in Nat /\ q = c.range.dur /\ from \in Int /\ s \in Nat /\ d \in Nat
        /\ DOMAIN c = {"kind", "media", "range", "warped", "enabled"} /\ c.enabled \in BOOLEAN
    BY LongIs DEF IsChild, IsItem
  <1>2. at.start = p /\ at.dur = q /\ EndExclusive(at) = p + q /\ EndExclusive(trim) = s + d
    BY DEF TimeRange, EndExclusive
  <1>3. s < p + q /\ s + d > p
    BY <1>2 DEF Intersects
  <1>4. new = [c EXCEPT !.range = TimeRange(from + head, q - head - tail)]
    BY <1>1, <1>2 DEF CutTo, Shows
  <1> DEFINE w == q - head - tail
  <1>5. /\ head \in Nat /\ w \in Nat /\ head + w <= q
        /\ head = Clamped(p, s, s + d) - p /\ w = Clamped(p + q, s, s + d) - Clamped(p, s, s + d)
    <2> HIDE DEF s, d, q, at, new
    <2> QED BY <1>1, <1>3 DEF Later, Clamped
  <1> HIDE DEF head, w, s, d, q, from
  <1>6. /\ new.range = TimeRange(from + head, w) /\ new.kind = c.kind /\ new.media = c.media
        /\ new.enabled = c.enabled /\ DOMAIN new = DOMAIN c
    BY <1>1, <1>4 DEF w
  <1> HIDE DEF new
  <1>7. new.range.start = from + head /\ new.range.dur = w
    BY <1>6 DEF TimeRange
  <1>8. IsItem(new) /\ IsChild(new) /\ (Visible(new) <=> Visible(c))
    BY <1>1, <1>5, <1>6, <1>7 DEF IsItem, IsChild, Visible
  <1>9. Long(new) = w
    BY <1>7, <1>8, LongIs
  <1>10. ASSUME NEW n \in 1..w PROVE FrameAt(new, n) = FrameAt(c, head + n)
    <2>1. from + head + n - 1 = from + (head + n) - 1
      BY <1>1, <1>5
    <2> QED BY <1>6, <1>7, <1>8, <2>1 DEF FrameAt, from
  <1> QED BY <1>5, <1>8, <1>9, <1>10 DEF CutsTo, s, d, q, at, new, head

\* The last of some places.
LEMMA MaxOfPlaces ==
    ASSUME NEW n \in Nat, NEW S \in SUBSET (1..n), S # {}
    PROVE  Max(S) \in S /\ \A i \in S : i <= Max(S)
  <1> DEFINE R == {n - i : i \in S}
  <1>1. R \in SUBSET Nat /\ R # {}
    <2>1. ASSUME NEW i \in S PROVE n - i \in Nat
      OBVIOUS
    <2>2. R \in SUBSET Nat
      BY <2>1
    <2>3. PICK i \in S : TRUE
      OBVIOUS
    <2>4. n - i \in R
      BY <2>3
    <2> QED BY <2>2, <2>4
  <1> HIDE DEF R
  <1>2. PICK r \in R : \A x \in R : r <= x
    BY <1>1, SmallestNat
  <1>3. PICK m \in S : r = n - m
    BY <1>2 DEF R
  <1>4. \A i \in S : i <= m
    <2>1. ASSUME NEW i \in S PROVE i <= m
      <3>1. n - i \in R
        BY DEF R
      <3>2. n - m <= n - i
        BY <1>2, <1>3, <3>1
      <3> QED BY <3>2
    <2> QED BY <2>1
  <1>5. S \in SUBSET Int
    OBVIOUS
  <1>6. Max(S) = m
    BY <1>4, <1>5, MaxIs
  <1> QED BY <1>4, <1>6

\* A child whose place begins at p plays F; what the trim leaves of it does too.
PlaysStill(new, c, F, p, trim) ==
    LET s == trim.start
        e == trim.start + trim.dur
    IN  /\ IsChild(new) /\ Clamped(p, s, e) \in Nat
        /\ Clamped(p, s, e) + Long(new) = Clamped(p + Long(c), s, e)
        /\ \A n \in 1..Long(new) : F[Clamped(p, s, e) + n] = FrameAt(new, n)

\* An item, whether it is in the part or across one of its ends.
LEMMA ItemTrims ==
    ASSUME NEW c, IsChild(c), IsItem(c), NEW p \in Nat, NEW trim, trim.start \in Nat, trim.dur \in Nat,
           NEW F, \A n \in 1..Long(c) : F[p + n] = FrameAt(c, n),
           Intersects(trim, TimeRange(p, Long(c)))
    PROVE  PlaysStill(IF ContainsRange(trim, TimeRange(p, Long(c))) THEN c
                      ELSE CutTo(c, TimeRange(p, Long(c)), trim), c, F, p, trim)
  <1> DEFINE s == trim.start
             e == trim.start + trim.dur
             q == Long(c)
             at == TimeRange(p, q)
             new == CutTo(c, at, trim)
             from == Clamped(p, s, e)
             to == Clamped(p + q, s, e)
  <1>1. q \in Nat /\ s \in Nat /\ e \in Nat /\ s <= e
    BY LongIs
  <1>2. from \in Nat /\ to \in Nat
    <2> HIDE DEF s, e, q
    <2> QED BY <1>1 DEF Clamped
  <1>3. CASE ContainsRange(trim, at)
    <2>1. p > s /\ p + q < e
      BY <1>3 DEF ContainsRange, TimeRange, EndExclusive
    <2>2. from = p /\ to = p + q
      <3> HIDE DEF s, e, q
      <3> QED BY <1>1, <2>1 DEF Clamped
    <2>3. \A n \in 1..q : F[from + n] = FrameAt(c, n)
      BY <2>2
    <2> HIDE DEF from, to, at
    <2> QED BY <1>2, <1>3, <2>2, <2>3 DEF PlaysStill, from, to, at
  <1>4. CASE ~ContainsRange(trim, at)
    <2> DEFINE head == from - p
    <2>1. /\ IsChild(new) /\ Long(new) = to - from /\ head \in Nat /\ head + Long(new) <= q
          /\ \A n \in 1..Long(new) : FrameAt(new, n) = FrameAt(c, head + n)
      <3>1. CutsTo(c, p, q, trim)
        BY CutIs
      <3> QED BY <3>1 DEF CutsTo
    <2>2. Long(new) \in Nat
      BY <2>1, LongIs
    <2> HIDE DEF new
    <2>3. from + Long(new) = to
      <3> HIDE DEF from, to
      <3> QED BY <1>2, <2>1, <2>2
    <2>4. ASSUME NEW n \in 1..Long(new) PROVE F[from + n] = FrameAt(new, n)
      <3>1. head + n \in 1..q /\ p + (head + n) = from + n
        <4> HIDE DEF from, q
        <4> QED BY <1>1, <1>2, <2>1, <2>2
      <3>2. F[p + (head + n)] = FrameAt(c, head + n)
        BY <3>1
      <3> QED BY <2>1, <3>1, <3>2
    <2> HIDE DEF from, to, at
    <2> QED BY <1>2, <1>4, <2>1, <2>3, <2>4 DEF PlaysStill, from, to, at, new
  <1> QED BY <1>3, <1>4

\* One more place in the list of those that stay.
LEMMA OneMoreCut ==
    ASSUME NEW n, NEW x \in Seq(1..n), NEW y \in 1..n, NEW C
    PROVE  [i \in DOMAIN Append(x, y) |-> C[Append(x, y)[i]]] = Append([i \in DOMAIN x |-> C[x[i]]], C[y])
  <1> DEFINE m == Len(x)
             u == Append(x, y)
             T == {C[i] : i \in 1..n}
             v == [i \in DOMAIN x |-> C[x[i]]]
             w == Append(v, C[y])
  <1>1. /\ m \in Nat /\ DOMAIN x = 1..m /\ DOMAIN u = 1..(m + 1) /\ u[m + 1] = y
        /\ \A i \in 1..m : u[i] = x[i] /\ x[i] \in 1..n
    <2>1. IsList(x)
      BY ListOfItsOwn
    <2>2. /\ DOMAIN u = 1..(m + 1) /\ DOMAIN x = 1..m /\ m \in Nat /\ u[m + 1] = y
          /\ \A i \in 1..m : u[i] = x[i]
      BY <2>1, PushedList
    <2>3. \A i \in 1..Len(x) : x[i] \in 1..n
      <3> DEFINE S == 1..n
      <3>1. x \in Seq(S)
        OBVIOUS
      <3> HIDE DEF S
      <3>2. \A i \in 1..Len(x) : x[i] \in S
        BY <3>1
      <3> QED BY <3>2 DEF S
    <2> HIDE DEF u
    <2> QED BY <2>2, <2>3
  <1>2. v \in Seq(T) /\ Len(v) = m /\ (\A i \in 1..m : v[i] = C[x[i]]) /\ C[y] \in T
    BY <1>1
  <1> HIDE DEF u, v, T
  <1>3. /\ w \in Seq(T) /\ Len(w) = m + 1 /\ w[m + 1] = C[y]
        /\ \A i \in 1..m : w[i] = C[x[i]]
    BY <1>1, <1>2
  <1>4. \A i \in 1..(m + 1) : w[i] = C[u[i]]
    <2>1. \A i \in 1..(m + 1) : i \in 1..m \/ i = m + 1
      BY <1>1
    <2> QED BY <1>1, <1>3, <2>1
  <1> HIDE DEF w
  <1>5. w = [i \in 1..(m + 1) |-> w[i]]
    BY <1>1, <1>3
  <1>6. w = [i \in DOMAIN u |-> C[u[i]]]
    BY <1>1, <1>4, <1>5
  <1> QED BY <1>6 DEF u, v, w

\* Where an item is.
LEMMA PlaceIs ==
    ASSUME NEW k, Kids(k), NEW i \in 1..Len(k), IsItem(k[i])
    PROVE  RangesOf(k)[i] = TimeRange(Laid(k)[i - 1], Long(k[i]))
  <1>1. DOMAIN k = 1..Len(k) /\ IsChild(k[i]) /\ k[i].kind # "composable"
    BY KidsAre DEF Kids, IsItem
  <1>2. RangesOf(k)[i] = Places(k)[i]
    BY <1>1 DEF RangesOf
  <1>3. Places(k)[i] = TimeRange(Laid(k)[i - 1] - 0, Duration(k[i]))
    BY <1>1 DEF Places
  <1>4. Laid(k)[i - 1] \in Nat
    BY LaidIs
  <1>5. Duration(k[i]) = Long(k[i])
    BY <1>1, LongIs
  <1> QED BY <1>2, <1>3, <1>4, <1>5

\* The children that are in a part, and what is left of each.
KeptOf(k, trim) == {i \in DOMAIN k : Intersects(trim, RangesOf(k)[i])}
CutOf(k, i, trim) ==
    IF IsItem(k[i]) /\ ~ContainsRange(trim, RangesOf(k)[i])
    THEN CutTo(k[i], RangesOf(k)[i], trim) ELSE k[i]
PlacesIn(k) == [i \in DOMAIN k |-> i]

\* A track that can be trimmed has items and transitions only, none of these cut.
LEMMA TrimMeans ==
    ASSUME NEW k, Kids(k), NEW trim, Trimmed(k, trim).status = "OK"
    PROVE  /\ Trimmed(k, trim).kids =
                  [n \in DOMAIN Only(PlacesIn(k), KeptOf(k, trim)) |->
                      CutOf(k, Only(PlacesIn(k), KeptOf(k, trim))[n], trim)]
           /\ \A i \in 1..Len(k) : k[i].kind # "composable"
  <1> DEFINE at == RangesOf(k)
             refused == {i \in DOMAIN k : TrimRefusal(k[i], at[i], trim) # "OK"}
             last == Max(refused)
  <1>1. Len(k) \in Nat /\ DOMAIN k = 1..Len(k)
    BY KidsAre
  <1>2. refused = {}
    <2>1. SUFFICES ASSUME refused # {} PROVE FALSE
      OBVIOUS
    <2>2. last \in refused
      <3>1. refused \in SUBSET (1..Len(k))
        BY <1>1
      <3> HIDE DEF refused
      <3> QED BY <1>1, <2>1, <3>1, MaxOfPlaces
    <2>3. Trimmed(k, trim).status = TrimRefusal(k[last], at[last], trim)
      BY <2>1 DEF Trimmed
    <2> QED BY <2>2, <2>3
  <1>3. ASSUME NEW i \in 1..Len(k) PROVE k[i].kind # "composable"
    <2>1. TrimRefusal(k[i], at[i], trim) = "OK"
      BY <1>1, <1>2
    <2>2. k[i].kind = "composable" => at[i] = NULL
      BY <1>1 DEF RangesOf
    <2> QED BY <2>1, <2>2 DEF TrimRefusal
  <1>4. Trimmed(k, trim).kids =
            [n \in DOMAIN Only(PlacesIn(k), KeptOf(k, trim)) |->
                CutOf(k, Only(PlacesIn(k), KeptOf(k, trim))[n], trim)]
    BY <1>2 DEF Trimmed, KeptOf, CutOf, PlacesIn
  <1> QED BY <1>3, <1>4

\* What is left of one child.
TrimsTo(k, i, F, trim) ==
    IF i \in KeptOf(k, trim) THEN PlaysStill(CutOf(k, i, trim), k[i], F, Laid(k)[i - 1], trim)
    ELSE Clamped(Laid(k)[i - 1], trim.start, trim.start + trim.dur)
         = Clamped(Laid(k)[i - 1] + Long(k[i]), trim.start, trim.start + trim.dur)

\* Any child that can be trimmed.
LEMMA ChildTrims ==
    ASSUME NEW k, Kids(k), NEW i \in 1..Len(k), k[i].kind # "composable",
           NEW trim, trim.start \in Nat, trim.dur \in Nat,
           NEW F, \A n \in 1..Long(k[i]) : F[Laid(k)[i - 1] + n] = FrameAt(k[i], n)
    PROVE  TrimsTo(k, i, F, trim)
  <1> DEFINE c == k[i]
             p == Laid(k)[i - 1]
             q == Long(c)
             at == RangesOf(k)[i]
             s == trim.start
             e == trim.start + trim.dur
  <1>1. i \in DOMAIN k /\ IsChild(c) /\ p \in Nat /\ q \in Nat /\ s \in Nat /\ e \in Nat /\ s <= e
    <2>1. DOMAIN k = 1..Len(k) /\ IsChild(c)
      BY KidsAre DEF Kids
    <2>2. p \in Nat
      BY LaidIs
    <2>3. q \in Nat
      BY <2>1, LongIs
    <2> QED BY <2>1, <2>2, <2>3
  <1>2. SUFFICES IF i \in KeptOf(k, trim) THEN PlaysStill(CutOf(k, i, trim), c, F, p, trim)
                 ELSE Clamped(p, s, e) = Clamped(p + q, s, e)
    BY Zenon DEF TrimsTo
  <1>3. CASE IsItem(c)
    <2>1. at = TimeRange(p, q)
      BY <1>3, PlaceIs
    <2>2. CASE i \in KeptOf(k, trim)
      <3>1. Intersects(trim, TimeRange(p, q))
        BY <2>1, <2>2 DEF KeptOf
      <3>2. PlaysStill(IF ContainsRange(trim, TimeRange(p, q)) THEN c
                       ELSE CutTo(c, TimeRange(p, q), trim), c, F, p, trim)
        BY <1>1, <1>3, <3>1, ItemTrims
      <3>3. CutOf(k, i, trim) = IF ContainsRange(trim, TimeRange(p, q)) THEN c
                                ELSE CutTo(c, TimeRange(p, q), trim)
        BY <1>3, <2>1 DEF CutOf
      <3> QED BY <2>2, <3>2, <3>3
    <2>3. CASE i \notin KeptOf(k, trim)
      <3>1. ~Intersects(trim, TimeRange(p, q))
        BY <1>1, <2>1, <2>3 DEF KeptOf
      <3>2. ~(s < p + q /\ e > p)
        BY <3>1 DEF Intersects, TimeRange, EndExclusive
      <3>3. Clamped(p, s, e) = Clamped(p + q, s, e)
        <4> HIDE DEF p, q, s, e
        <4> QED BY <1>1, <3>2 DEF Clamped
      <3> QED BY <2>3, <3>3
    <2> QED BY <2>2, <2>3
  <1>4. CASE ~IsItem(c)
    <2>1. q = 0 /\ CutOf(k, i, trim) = c
      BY <1>1, <1>4, LongIs DEF CutOf
    <2>2. Clamped(p, s, e) \in Nat
      <3> HIDE DEF p, s, e
      <3> QED BY <1>1 DEF Clamped
    <2>3. Clamped(p, s, e) + 0 = Clamped(p + 0, s, e)
      <3>1. p + 0 = p /\ Clamped(p, s, e) + 0 = Clamped(p, s, e)
        BY <1>1, <2>2
      <3> QED BY <3>1
    <2>4. PlaysStill(c, c, F, p, trim)
      <3>1. Clamped(p, s, e) + q = Clamped(p + q, s, e)
        BY <2>1, <2>3
      <3>2. \A n \in 1..q : F[Clamped(p, s, e) + n] = FrameAt(c, n)
        BY <2>1
      <3> HIDE DEF c, p
      <3> QED BY <1>1, <2>2, <3>1, <3>2 DEF PlaysStill
    <2>5. Clamped(p, s, e) = Clamped(p + q, s, e)
      BY <2>1, <2>2, <2>3
    <2> QED BY <2>1, <2>4, <2>5
  <1> QED BY <1>3, <1>4

\* A trimmed track plays the part that it was trimmed to.
LEMMA TrimmedPlays ==
    ASSUME NEW k, NEW F, NEW full \in Nat, Plays(k, F, 0, full),
           NEW trim, trim.start \in Nat, trim.dur \in Nat, trim.start + trim.dur <= full,
           Trimmed(k, trim).status = "OK"
    PROVE  Plays(Trimmed(k, trim).kids, F, trim.start, trim.start + trim.dur)
  <1> DEFINE s == trim.start
             e == trim.start + trim.dur
             n == Len(k)
             L == Laid(k)
             x == PlacesIn(k)
             S == KeptOf(k, trim)
             C == [i \in 1..n |-> CutOf(k, i, trim)]
             T == 1..n
  <1>1. Kids(k) /\ n \in Nat /\ DOMAIN k = 1..n /\ 0 + L[n] = full
    BY KidsAre DEF Plays
  <1>2. /\ L[0] = 0 /\ \A i \in 0..n : L[i] \in Nat
        /\ \A i \in 1..n : L[i] = L[i - 1] + Long(k[i]) /\ L[i - 1] \in Nat /\ Long(k[i]) \in Nat
    BY <1>1, LaidIs
  <1>3. s \in Nat /\ e \in Nat /\ s <= e /\ e <= full
    OBVIOUS
  <1>4. /\ Trimmed(k, trim).kids =
              [i \in DOMAIN Only(x, S) |-> CutOf(k, Only(x, S)[i], trim)]
        /\ \A i \in 1..n : k[i].kind # "composable"
    BY <1>1, TrimMeans
  <1>5. x \in Seq(T) /\ Len(x) = n /\ \A i \in 1..n : x[i] = i
    BY <1>1 DEF PlacesIn
  <1>6. PICK h : IsFilter(h, x, S, T) /\ Only(x, S) = h[Len(x)]
    <2> HIDE DEF x, S, T
    <2> QED BY <1>5, OnlyRuns
  <1>7. /\ h \in [0..n -> Seq(T \cap S)] /\ h[0] = <<>>
        /\ \A j \in 1..n : h[j] = IF j \in S THEN Append(h[j - 1], j) ELSE h[j - 1]
    <2> HIDE DEF x, S, T, n
    <2> QED BY <1>5, <1>6 DEF IsFilter
  <1>8. \A j \in 0..n : h[j] \in Seq(T)
    <2>1. Seq(T \cap S) \subseteq Seq(T)
      <3> HIDE DEF T, S
      <3> QED OBVIOUS
    <2> QED BY <1>7, <2>1
  <1> DEFINE W(j) == [i \in DOMAIN h[j] |-> C[h[j][i]]]
  <1> DEFINE Q == {j \in 0..n : Plays(W(j), F, s, Clamped(L[j], s, e))}
  <1>9. 0 \in Q
    <2>1. Clamped(L[0], s, e) = s
      <3> HIDE DEF s, e
      <3> QED BY <1>2, <1>3 DEF Clamped
    <2>2. W(0) = <<>>
      BY <1>7
    <2>3. s \in Int
      BY <1>3
    <2>4. Plays(<<>>, F, s, s)
      <3> HIDE DEF s
      <3> QED BY <2>3, NothingPlays
    <2> HIDE DEF W, L, s, e
    <2> QED BY <1>1, <2>1, <2>2, <2>4
  <1>10. ASSUME NEW j \in 1..n, j - 1 \in Q PROVE j \in Q
    <2> DEFINE p == L[j - 1]
               q == Long(k[j])
    <2>1. j - 1 \in 0..n /\ Plays(W(j - 1), F, s, Clamped(p, s, e)) /\ L[j] = p + q /\ j \in 0..n
      BY <1>2, <1>10
    <2>2. \A m \in 1..q : F[p + m] = FrameAt(k[j], m)
      <3>1. \A m \in 1..q : F[0 + p + m] = FrameAt(k[j], m)
        BY DEF Plays
      <3>2. \A m \in 1..q : 0 + p + m = p + m
        BY <1>2
      <3> QED BY <3>1, <3>2
    <2>3. IF j \in S THEN PlaysStill(CutOf(k, j, trim), k[j], F, p, trim)
          ELSE Clamped(p, s, e) = Clamped(p + q, s, e)
      <3>1. j \in 1..Len(k) /\ k[j].kind # "composable"
        BY <1>4
      <3>2. TrimsTo(k, j, F, trim)
        BY <1>1, <2>2, <3>1, ChildTrims
      <3> QED BY <3>2, Zenon DEF TrimsTo
    <2>4. CASE j \in S
      <3> DEFINE y == C[j]
      <3>1. y = CutOf(k, j, trim)
        OBVIOUS
      <3>2. /\ IsChild(y) /\ Clamped(p, s, e) \in Nat /\ Clamped(p, s, e) + Long(y) = Clamped(p + q, s, e)
            /\ \A m \in 1..Long(y) : F[Clamped(p, s, e) + m] = FrameAt(y, m)
        BY <2>3, <2>4, <3>1 DEF PlaysStill
      <3>3. W(j) = Append(W(j - 1), y)
        <4>1. h[j] = Append(h[j - 1], j) /\ h[j - 1] \in Seq(1..n) /\ j \in 1..n
          BY <1>7, <1>8, <2>1, <2>4
        <4> HIDE DEF C
        <4>2. [i \in DOMAIN Append(h[j - 1], j) |-> C[Append(h[j - 1], j)[i]]]
              = Append([i \in DOMAIN h[j - 1] |-> C[h[j - 1][i]]], C[j])
          BY <4>1, OneMoreCut
        <4> QED BY <4>1, <4>2
      <3>4. s \in Int
        BY <1>3
      <3>5. Plays(Append(W(j - 1), y), F, s, Clamped(p, s, e) + Long(y))
        <4> HIDE DEF W, y, s, e, p
        <4> QED BY <2>1, <3>2, <3>4, PlaysOn
      <3> HIDE DEF W, y, s, e, p, q, L
      <3> QED BY <2>1, <3>2, <3>3, <3>5
    <2>5. CASE j \notin S
      <3>1. h[j] = h[j - 1]
        BY <1>7, <2>5
      <3>2. W(j) = W(j - 1)
        BY <3>1
      <3>3. Clamped(p, s, e) = Clamped(p + q, s, e)
        BY <2>3, <2>5
      <3> HIDE DEF W, s, e, p, q, L
      <3> QED BY <2>1, <3>2, <3>3
    <2> QED BY <2>4, <2>5
  <1>11. \A j \in 0..n : j \in Q
    <2> HIDE DEF Q, n
    <2> QED BY <1>1, <1>9, <1>10, Rounds
  <1>12. Plays(W(n), F, s, Clamped(L[n], s, e))
    <2>1. n \in 0..n
      BY <1>1
    <2> QED BY <1>11, <2>1
  <1>13. W(n) = Trimmed(k, trim).kids
    <2>1. h[n] = Only(x, S)
      BY <1>5, <1>6
    <2>2. \A i \in DOMAIN h[n] : h[n][i] \in 1..n
      <3> DEFINE z == h[n]
      <3>1. z \in Seq(T)
        BY <1>1, <1>8
      <3> HIDE DEF z, T
      <3>2. \A i \in DOMAIN z : z[i] \in T
        BY <3>1
      <3> QED BY <3>2 DEF z, T
    <2>3. \A i \in DOMAIN h[n] : C[h[n][i]] = CutOf(k, h[n][i], trim)
      BY <2>2
    <2> HIDE DEF C, x, S, n
    <2>4. Trimmed(k, trim).kids = [i \in DOMAIN h[n] |-> CutOf(k, h[n][i], trim)]
      BY <1>4, <2>1
    <2> QED BY <2>3, <2>4
  <1>14. Clamped(L[n], s, e) = e
    <2>1. L[n] \in Nat /\ L[n] = full
      <3>1. n \in 0..n
        BY <1>1
      <3> QED BY <1>1, <1>2, <3>1
    <2> HIDE DEF s, e, L, n
    <2> QED BY <1>3, <2>1 DEF Clamped
  <1> HIDE DEF W, L
  <1> QED BY <1>12, <1>13, <1>14

--------------------------------------------------------------------------------
(* A track and its film.                                                      *)

NullIsNoFrame == \A media, time : NULL # <<media, time>>

\* What a track shows at each time, to any time.
FilmOf(t) == [n \in Nat |-> FrameOf(t, n)]

\* A track plays its film, and then nothing.
LEMMA FilmPlays ==
    ASSUME NEW t, Kids(t.kids)
    PROVE  /\ Plays(t.kids, FilmOf(t), 0, Len(Frames(t.kids))) /\ Len(Frames(t.kids)) \in Nat
           /\ \A n \in Nat : n > Len(Frames(t.kids)) => FilmOf(t)[n] = NULL
  <1> DEFINE k == t.kids
             w == Frames(k)
             F == FilmOf(t)
  <1>1. Len(w) \in Nat /\ DOMAIN w = 1..Len(w)
    BY PlaysItself
  <1>2. \A n \in Nat : F[n] = IF n \in DOMAIN w THEN w[n] ELSE NULL
    BY DEF FilmOf, FrameOf
  <1> HIDE DEF F, w
  <1>3. \A p \in 1..Len(w) : F[p] = w[p]
    BY <1>1, <1>2
  <1>4. Plays(k, F, 0, Len(w))
    BY <1>3, PlaysItself DEF w
  <1>5. \A n \in Nat : n > Len(w) => F[n] = NULL
    BY <1>1, <1>2
  <1> QED BY <1>1, <1>4, <1>5 DEF F, w

\* Children of which neither the first nor the last is a transition.
Plain(k) == \A i \in DOMAIN k : k[i].kind = "transition" => i \notin {1, Len(k)}

\* Where the children end is then the end of the available range.
LEMMA EndOfPlain ==
    ASSUME NEW k, Kids(k), Plain(k)
    PROVE  EndOf(k) = Laid(k)[Len(k)]
  <1> DEFINE m == Len(k)
             e == Laid(k)[m]
  <1>1. m \in Nat /\ DOMAIN k = 1..m
    BY KidsAre
  <1>2. e \in Nat /\ Laid(k)[0] = 0
    <2>1. m \in 0..m
      BY <1>1
    <2> QED BY <2>1, LaidIs
  <1>3. CASE k = <<>>
    <2>1. m = 0
      BY <1>3
    <2> QED BY <1>2, <1>3, <2>1 DEF EndOf
  <1>4. CASE k # <<>>
    <2>1. m # 0 /\ Head(k) = k[1] /\ Last(k) = k[m]
      <3>1. k \in Seq(Range(k))
        BY KidsAre
      <3>2. m # 0
        BY <1>4, <3>1
      <3>3. Head(k) = k[1]
        BY <1>4, <3>1
      <3> QED BY <3>2, <3>3 DEF Last
    <2>2. 1 \in DOMAIN k /\ m \in DOMAIN k
      BY <1>1, <2>1
    <2>3. Head(k).kind # "transition" /\ Last(k).kind # "transition"
      BY <2>1, <2>2 DEF Plain
    <2>4. EndOf(k) = e + 0 + 0
      BY <1>4, <2>3 DEF EndOf
    <2> HIDE DEF e
    <2> QED BY <1>2, <2>4 DEF e
  <1> QED BY <1>3, <1>4

\* A track that ends before its film is made as long.
LEMMA PaddedPlays ==
    ASSUME NEW k, NEW F, NEW b \in Nat, NEW full \in Nat, b < full, Plays(k, F, 0, b), Plain(k),
           \A n \in Nat : n > b => F[n] = NULL
    PROVE  LET u == Append(k, Gap(TimeRange(0, full - b)))
           IN  Plays(u, F, 0, full) /\ Plain(u)
  <1> DEFINE g == Gap(TimeRange(0, full - b))
             u == Append(k, g)
             m == Len(k)
  <1>1. /\ g.kind = "gap" /\ g.range.start = 0 /\ g.range.dur = full - b /\ g.enabled = TRUE
        /\ DOMAIN g = {"kind", "media", "range", "warped", "enabled"}
    BY DEF Gap, TimeRange
  <1> HIDE DEF g
  <1>2. IsItem(g) /\ IsChild(g)
    <2>1. IsItem(g)
      BY <1>1 DEF IsItem
    <2>2. g.range.start \in Int /\ g.range.dur \in Nat /\ g.enabled \in BOOLEAN
      <3>1. 0 \in Int /\ full - b \in Nat
        OBVIOUS
      <3>2. TRUE \in BOOLEAN
        OBVIOUS
      <3> QED BY <1>1, <3>1, <3>2, Zenon
    <2>3. IsChild(g)
      BY <1>1, <2>1, <2>2, Zenon DEF IsChild
    <2> QED BY <2>1, <2>3
  <1>3. Long(g) = full - b
    BY <1>1, <1>2, LongIs
  <1>4. ASSUME NEW n \in 1..Long(g) PROVE F[b + n] = FrameAt(g, n)
    <2>1. FrameAt(g, n) = NULL
      BY <1>1 DEF FrameAt, Visible
    <2>2. b + n \in Nat /\ b + n > b
      BY <1>3
    <2> QED BY <2>1, <2>2
  <1>5. 0 \in Int
    OBVIOUS
  <1>6. Plays(u, F, 0, b + Long(g))
    BY <1>2, <1>4, <1>5, PlaysOn
  <1>7. b + Long(g) = full
    BY <1>3
  <1>8. /\ DOMAIN u = 1..(m + 1) /\ Len(u) = m + 1 /\ m \in Nat /\ DOMAIN k = 1..m /\ u[m + 1] = g
        /\ \A i \in 1..m : u[i] = k[i]
    <2>1. IsList(k)
      BY DEF Plays, Kids
    <2> QED BY <2>1, PushedList
  <1> HIDE DEF u
  <1>9. ASSUME NEW i \in DOMAIN u, u[i].kind = "transition" PROVE i \notin {1, Len(u)}
    <2>1. i # m + 1
      BY <1>1, <1>8, <1>9
    <2>2. i \in 1..m
      BY <1>8, <2>1
    <2>3. k[i].kind = "transition" /\ i \in DOMAIN k
      BY <1>8, <1>9, <2>2
    <2>4. i # 1
      BY <2>3 DEF Plain
    <2> QED BY <1>8, <2>1, <2>4
  <1>10. Plain(u)
    BY <1>9 DEF Plain
  <1> QED BY <1>6, <1>7, <1>10 DEF u, g

--------------------------------------------------------------------------------
(* The inductive invariant of what is flattened.                               *)

\* The tracks that count, and what each of those that are flattened shows.
Counted == {t \in Range(input) : list \/ t.enabled}
Films == [j \in 1..Len(Used) |-> FilmOf(Used[j])]
Whole == [n \in Nat |-> Composite(n)]

\* Where C shows what the topmost film of S shows.
Composes(S, C) ==
    \A n \in Nat : \A j \in 1..Len(S) :
        ((\A i \in 1..Len(S) : i > j => S[i][n] = NULL) /\ (S[j][n] # NULL \/ j = 1))
            => C[n] = S[j][n]

\* The track at a, of the children k, is t, or a copy of it that is as long as the others.
Ready(given, a, k, t, full) ==
    IF a \in DOMAIN given THEN given[a] = t ELSE Plays(k, FilmOf(t), 0, full) /\ Plain(k)

Prepared(full) ==
    /\ flat = <<>> /\ \A i \in 1..seen : input[i].kind = "track"
    /\ \A h : IsFilter(h, input, Counted, Range(input)) =>
           /\ Len(tracks) = Len(h[seen])
           /\ \A j \in 1..Len(tracks) : Ready(input, tracks[j], heap[tracks[j]], h[seen][j], full)

\* The part that a call is about, and how far it got.
From(c) == IF c.trim = NULL THEN 0 ELSE c.trim.start
To(c, full) == IF c.trim = NULL THEN full ELSE c.trim.start + c.trim.dur
Due(mem, c) == From(c) + IF c.track = NULL THEN 0 ELSE Laid(mem[c.track])[c.next - 1]

\* No track above the one of the call shows anything in that part.
Hidden(c, S, full) ==
    \A j \in 1..Len(S) : j > c.index => \A p \in (From(c) + 1)..To(c, full) : S[j][p] = NULL

Underway(mem, c, S, full) ==
    /\ c.index \in 1..Len(S) /\ Hidden(c, S, full)
    /\ c.trim # NULL => c.trim.start \in Nat /\ c.trim.dur \in Nat /\ To(c, full) <= full
    /\ IF c.track = NULL THEN c.next = 1
       ELSE /\ Plays(mem[c.track], S[c.index], From(c), To(c, full))
            /\ c.next \in 1..(Len(mem[c.track]) + 1)

\* What is flattened so far is all up to where the latest call got; where it ends the
\* one before goes on.
Playing(S, C, full) ==
    /\ full \in Nat /\ Len(tracks) = Len(S)
    /\ \A j \in 1..Len(S) : Plays(heap[tracks[j]], S[j], 0, full)
    /\ \A n \in 1..Len(calls) : Underway(heap, calls[n], S, full)
    /\ \A n \in 1..(Len(calls) - 1) : Due(heap, calls[n]) = To(calls[n + 1], full)
    /\ Plays(flat, C, 0, IF calls = <<>> THEN full ELSE Due(heap, calls[Len(calls)]))

Progress(S, C, full) ==
    /\ phase = "prepare" => Prepared(full)
    /\ phase = "flatten" => Playing(S, C, full)
    /\ phase = "done" /\ status = "OK" => Plays(flat, C, 0, full)

Builds == input \in Stacks /\ (NoneAtTheEnds => Progress(Films, Whole, FullLength))

--------------------------------------------------------------------------------
(* What is given, and the composite picture of it.                              *)

\* The tracks that are given have children.
LEMMA ChildrenAreKids ==
    ASSUME input \in Stacks, NEW t \in Range(input), t.kind = "track"
    PROVE  Kids(t.kids)
  <1>1. t.kids \in Seq(Range(t.kids)) /\ \A k \in Range(t.kids) : IsChild(k)
    BY ChildrenAssumption
  <1>2. IsList(t.kids)
    BY <1>1 DEF IsList
  <1>3. DOMAIN t.kids = 1..Len(t.kids)
    BY <1>1
  <1>4. \A i \in 1..Len(t.kids) : t.kids[i] \in Range(t.kids)
    BY <1>3, Zenon DEF Range
  <1> QED BY <1>1, <1>2, <1>4 DEF Kids

\* The tracks that count are some of those given, in their order.
LEMMA UsedIs ==
    ASSUME input \in Stacks
    PROVE  /\ \E h : IsFilter(h, input, Counted, Range(input)) /\ Used = h[Len(input)]
           /\ input \in Seq(Range(input)) /\ DOMAIN input = 1..Len(input) /\ Len(input) \in Nat
           /\ Used \in Seq(Range(input)) /\ DOMAIN Used = 1..Len(Used) /\ Len(Used) \in Nat
           /\ \A j \in 1..Len(Used) : Used[j] \in Range(input) /\ Used[j] \in Range(Used)
  <1> DEFINE T == Range(input)
             m == Len(input)
  <1>1. input \in Seq(T) /\ DOMAIN input = 1..m /\ m \in Nat
    BY FlattenAssumption
  <1>2. PICK h : IsFilter(h, input, Counted, T) /\ Only(input, Counted) = h[m]
    <2> HIDE DEF T
    <2> QED BY <1>1, OnlyRuns
  <1>3. Used = h[m]
    BY <1>2 DEF Used, Counted
  <1>4. h[m] \in Seq(T \cap Counted) /\ m \in 0..m
    BY <1>1, <1>2 DEF IsFilter
  <1> HIDE DEF T, m
  <1>5. Used \in Seq(T) /\ DOMAIN Used = 1..Len(Used) /\ Len(Used) \in Nat
    BY <1>3, <1>4
  <1>6. \A j \in 1..Len(Used) : Used[j] \in T
    BY <1>5
  <1>7. \A j \in 1..Len(Used) : Used[j] \in Range(Used)
    BY <1>5, Zenon DEF Range
  <1> QED BY <1>1, <1>2, <1>3, <1>5, <1>6, <1>7 DEF T, m

\* The composite picture is that of the films.
LEMMA WholeComposes == ASSUME input \in Stacks PROVE Composes(Films, Whole)
  <1> DEFINE N == Len(Used)
             S == Films
             C == Whole
  <1>1. N \in Nat /\ DOMAIN Used = 1..N
    BY UsedIs
  <1>2. S \in Seq({FilmOf(Used[j]) : j \in 1..N}) /\ Len(S) = N /\ \A j \in 1..N : S[j] = FilmOf(Used[j])
    BY <1>1 DEF Films
  <1>3. \A j \in 1..N : \A n \in Nat : S[j][n] = FrameOf(Used[j], n)
    BY <1>2 DEF FilmOf
  <1>4. \A n \in Nat : C[n] = Composite(n)
    BY DEF Whole
  <1>5. ASSUME NEW n \in Nat, NEW j \in 1..N, \A i \in 1..N : i > j => S[i][n] = NULL,
               S[j][n] # NULL \/ j = 1
        PROVE  C[n] = S[j][n]
    <2> DEFINE showing == {i \in DOMAIN Used : FrameOf(Used[i], n) # NULL}
    <2>1. Composite(n) = IF showing = {} THEN NULL ELSE FrameOf(Used[Max(showing)], n)
      BY DEF Composite
    <2>2. showing = {i \in 1..N : S[i][n] # NULL}
      BY <1>1, <1>3
    <2> HIDE DEF showing, S, C, N
    <2>3. CASE S[j][n] # NULL
      <3>1. j \in showing /\ showing \in SUBSET Int /\ \A i \in showing : i <= j
        BY <1>1, <1>5, <2>2, <2>3
      <3>2. Max(showing) = j
        BY <3>1, MaxIs
      <3> QED BY <1>3, <1>4, <2>1, <3>1, <3>2
    <2>4. CASE S[j][n] = NULL
      <3>1. j = 1
        BY <1>5, <2>4
      <3>2. \A i \in 1..N : S[i][n] = NULL
        BY <1>1, <1>5, <2>4, <3>1
      <3>3. showing = {}
        BY <2>2, <3>2
      <3> QED BY <1>4, <2>1, <2>4, <3>3
    <2> QED BY <2>3, <2>4
  <1> HIDE DEF S, C, N
  <1> QED BY <1>2, <1>5 DEF Composes, S, C

--------------------------------------------------------------------------------
(* When all are collected.                                                     *)

\* How the track at a stands to t, of which it is a copy if it was padded.
Stands(a, t, full) ==
    LET b == LengthAt(a)
    IN  /\ b \in Nat /\ b <= full /\ Plays(heap[a], FilmOf(t), 0, b) /\ Plain(heap[a])
        /\ IF a \in DOMAIN input
           THEN b = Len(Frames(t.kids)) /\ \A n \in Nat : n > b => FilmOf(t)[n] = NULL
           ELSE b = full

\* A track that counts.
LEMMA OneIsReady ==
    ASSUME Tidy, input \in Stacks, NoneAtTheEnds, NEW t \in Range(Used), t \in Range(input),
           t.kind = "track", NEW full \in Nat, Len(Frames(t.kids)) <= full,
           NEW a, a \in DOMAIN heap, Ready(input, a, heap[a], t, full)
    PROVE  Stands(a, t, full)
  <1> DEFINE k == heap[a]
             b == LengthAt(a)
             F == FilmOf(t)
  <1>1. CASE a \in DOMAIN input
    <2>1. input[a] = t /\ k = t.kids
      <3>1. input[a] = t
        BY <1>1 DEF Ready
      <3> QED BY <1>1, <3>1 DEF Tidy, Given
    <2>2. Kids(t.kids)
      BY ChildrenAreKids
    <2>3. /\ Plays(t.kids, F, 0, Len(Frames(t.kids))) /\ Len(Frames(t.kids)) \in Nat
          /\ \A n \in Nat : n > Len(Frames(t.kids)) => F[n] = NULL
      BY <2>2, FilmPlays
    <2>4. Plain(t.kids)
      BY DEF NoneAtTheEnds, Plain
    <2>5. b = Laid(t.kids)[Len(t.kids)]
      BY <2>1, <2>2, <2>4, EndOfPlain DEF LengthAt
    <2>6. Laid(t.kids)[Len(t.kids)] = Len(Frames(t.kids))
      BY <2>2, PlaysItself
    <2> HIDE DEF b, F, k
    <2>7. b = Len(Frames(t.kids))
      BY <2>5, <2>6
    <2> QED BY <1>1, <2>1, <2>3, <2>4, <2>7 DEF Stands, b, F, k
  <1>2. CASE a \notin DOMAIN input
    <2>1. Plays(k, F, 0, full) /\ Plain(k)
      BY <1>2 DEF Ready
    <2>2. Kids(k) /\ 0 + Laid(k)[Len(k)] = full
      BY <2>1 DEF Plays
    <2>3. b = Laid(k)[Len(k)]
      BY <2>1, <2>2, EndOfPlain DEF LengthAt
    <2>4. Laid(k)[Len(k)] \in Nat
      <3>1. Len(k) \in 0..Len(k)
        BY <2>2, KidsAre
      <3> QED BY <2>2, <3>1, LaidIs
    <2>5. b = full
      <3> HIDE DEF b
      <3> QED BY <2>2, <2>3, <2>4
    <2> HIDE DEF b, F, k
    <2> QED BY <1>2, <2>1, <2>5 DEF Stands, b, F, k
  <1> QED BY <1>1, <1>2

AllStand(full) ==
    /\ full \in Nat /\ Len(tracks) = Len(Used) /\ Longest = full
    /\ \A j \in 1..Len(Used) : Ready(input, tracks[j], heap[tracks[j]], Used[j], full) /\ Stands(tracks[j], Used[j], full)

\* All that count are at hand, and the longest is as long as the longest film.
LEMMA Collection ==
    ASSUME Tidy, input \in Stacks, NoneAtTheEnds, Prepared(FullLength), seen = Len(input)
    PROVE  AllStand(FullLength)
  <1> DEFINE N == Len(Used)
             full == FullLength
             f == [j \in 1..N |-> Len(Frames(Used[j].kids))]
  <1>1. PICK h : IsFilter(h, input, Counted, Range(input)) /\ Used = h[Len(input)]
    BY UsedIs
  <1>2. /\ N \in Nat /\ DOMAIN Used = 1..N /\ DOMAIN input = 1..Len(input)
        /\ \A j \in 1..N : Used[j] \in Range(input) /\ Used[j] \in Range(Used)
    BY UsedIs
  <1>3. Len(tracks) = N /\ \A j \in 1..N : Ready(input, tracks[j], heap[tracks[j]], Used[j], full)
    BY <1>1 DEF Prepared
  <1>4. \A t \in Range(input) : t.kind = "track"
    <2>1. \A i \in DOMAIN input : input[i].kind = "track"
      BY <1>2 DEF Prepared
    <2> QED BY <2>1 DEF Range
  <1>5. f \in [1..N -> Nat]
    <2>1. ASSUME NEW j \in 1..N PROVE Len(Frames(Used[j].kids)) \in Nat
      <3>1. Kids(Used[j].kids)
        BY <1>2, <1>4, ChildrenAreKids
      <3> QED BY <3>1, PlaysItself
    <2> QED BY <2>1
  <1>6. full = Max({0} \cup {f[j] : j \in 1..N})
    <2>1. {Len(Frames(t.kids)) : t \in Range(Used)} = {f[j] : j \in 1..N}
      BY <1>2 DEF Range
    <2> QED BY <2>1 DEF FullLength
  <1>7. IsLongest(full, N, f)
    <2> HIDE DEF f, N, full
    <2> QED BY <1>2, <1>5, <1>6, MaxOfRow
  <1>8. /\ full \in Nat /\ \A j \in 1..N : Len(Frames(Used[j].kids)) <= full
        /\ full = 0 \/ \E j \in 1..N : full = Len(Frames(Used[j].kids))
    BY <1>7 DEF IsLongest
  <1>9. /\ IsList(tracks) /\ DOMAIN tracks = 1..N /\ \A j \in 1..N : tracks[j] \in DOMAIN heap
    <2>1. IsList(tracks) /\ Range(tracks) \subseteq DOMAIN heap
      BY DEF Tidy, Listed
    <2>2. DOMAIN tracks = 1..N
      BY <1>3, <2>1 DEF IsList
    <2> QED BY <2>1, <2>2 DEF Range
  <1> HIDE DEF full, f
  <1>10. ASSUME NEW j \in 1..N PROVE Stands(tracks[j], Used[j], full)
    <2> DEFINE t == Used[j]
               a == tracks[j]
    <2>1. /\ t \in Range(Used) /\ t \in Range(input) /\ t.kind = "track"
          /\ Len(Frames(t.kids)) <= full /\ a \in DOMAIN heap /\ Ready(input, a, heap[a], t, full) /\ full \in Nat
      BY <1>2, <1>3, <1>4, <1>8, <1>9
    <2> HIDE DEF t, a, N
    <2>2. Stands(a, t, full)
      BY <2>1, OneIsReady
    <2> QED BY <2>2 DEF t, a
  <1>11. Longest = full
    <2> DEFINE L == {0} \cup {LengthAt(a) : a \in Range(tracks)}
    <2>1. \A j \in 1..N : LengthAt(tracks[j]) \in Nat /\ LengthAt(tracks[j]) <= full
      BY <1>10 DEF Stands
    <2>2. \A a \in Range(tracks) : \E j \in 1..N : a = tracks[j]
      BY <1>9 DEF Range
    <2>3. L \in SUBSET Int /\ \A x \in L : x <= full
      <3>1. ASSUME NEW x \in L PROVE x \in Int /\ x <= full
        <4>1. CASE x = 0
          BY <1>8, <4>1
        <4>2. CASE x # 0
          <5>1. PICK a \in Range(tracks) : x = LengthAt(a)
            BY <3>1, <4>2
          <5>2. PICK j \in 1..N : a = tracks[j]
            BY <2>2
          <5>3. LengthAt(tracks[j]) \in Nat /\ LengthAt(tracks[j]) <= full
            BY <2>1
          <5> HIDE DEF L
          <5> QED BY <5>1, <5>2, <5>3
        <4> QED BY <4>1, <4>2
      <3> HIDE DEF L
      <3> QED BY <3>1
    <2>4. full \in L
      <3>1. CASE full = 0
        BY <3>1
      <3>2. CASE full # 0
        <4>1. PICK j \in 1..N : full = Len(Frames(Used[j].kids))
          BY <1>8, <3>2
        <4>2. LengthAt(tracks[j]) = full
          BY <1>10, <4>1 DEF Stands
        <4>3. tracks[j] \in Range(tracks)
          BY <1>9, Zenon DEF Range
        <4> QED BY <4>2, <4>3
      <3> QED BY <3>1, <3>2
    <2> HIDE DEF L
    <2>5. Max(L) = full
      BY <2>3, <2>4, MaxIs
    <2> QED BY <2>5 DEF L, Longest
  <1> QED BY <1>3, <1>8, <1>10, <1>11 DEF AllStand, full

--------------------------------------------------------------------------------
(* Before the first call.                                                      *)

\* One more track of the stack.
LEMMA CollectPrepares ==
    ASSUME Tidy, input \in Stacks, NEW full, Prepared(full), Collect
    PROVE  Prepared(full)'
  <1> PICK n : n = seen + 1
    OBVIOUS
  <1> PICK t : t = input[n]
    OBVIOUS
  <1>1. /\ seen \in Nat /\ n \in 1..Len(input) /\ n - 1 = seen /\ DOMAIN input = 1..Len(input)
        /\ IsList(tracks) /\ Range(tracks) \subseteq DOMAIN heap
    <2>1. seen \in 0..Len(input) /\ Len(input) \in Nat /\ IsList(tracks) /\ Range(tracks) \subseteq DOMAIN heap
      BY UsedIs DEF Tidy, Listed
    <2>2. seen < Len(input)
      BY DEF Collect, Collecting
    <2> QED BY <2>1, <2>2, UsedIs
  <1>2. /\ UNCHANGED <<input, list, heap, flat>> /\ seen' = n /\ t.kind = "track"
        /\ tracks' = IF list \/ t.enabled THEN Append(tracks, n) ELSE tracks
    BY DEF Collect, NextIn
  <1>3. t \in Counted <=> list \/ t.enabled
    <2>1. t \in Range(input)
      BY <1>1, Zenon DEF Range
    <2> QED BY <2>1, Zenon DEF Counted
  <1>4. Counted' = Counted
    BY <1>2 DEF Counted
  <1>5. \A i \in 1..n : input[i].kind = "track"
    <2>1. \A i \in 1..n : i \in 1..seen \/ i = n
      BY <1>1
    <2> QED BY <1>2, <2>1 DEF Prepared
  <1>6. ASSUME NEW h, IsFilter(h, input, Counted, Range(input))
        PROVE  /\ Len(tracks') = Len(h[n])
               /\ \A j \in 1..Len(tracks') : Ready(input, tracks'[j], heap[tracks'[j]], h[n][j], full)
    <2> PICK x : x = h[seen]
      OBVIOUS
    <2> PICK m : m = Len(tracks)
      OBVIOUS
    <2>1. m = Len(x) /\ \A j \in 1..m : Ready(input, tracks[j], heap[tracks[j]], x[j], full)
      BY <1>6 DEF Prepared
    <2>2. IsList(x)
      <3>1. h[seen] \in Seq(Range(input) \cap Counted)
        BY <1>1, <1>6 DEF IsFilter
      <3> QED BY <3>1, ListOfItsOwn
    <2>3. h[n] = IF t \in Counted THEN Append(x, t) ELSE x
      BY <1>1, <1>6 DEF IsFilter
    <2>4. CASE t \in Counted
      <3>1. tracks' = Append(tracks, n) /\ h[n] = Append(x, t)
        BY <1>2, <1>3, <2>3, <2>4
      <3>2. /\ Len(tracks') = m + 1 /\ m \in Nat /\ tracks'[m + 1] = n
            /\ \A j \in 1..m : tracks'[j] = tracks[j]
        BY <1>1, <3>1, PushedList
      <3>3. Len(h[n]) = m + 1 /\ h[n][m + 1] = t /\ \A j \in 1..m : h[n][j] = x[j]
        BY <2>1, <2>2, <3>1, PushedList
      <3>4. Ready(input, n, heap[n], t, full)
        BY <1>1 DEF Ready
      <3>5. \A j \in 1..(m + 1) : j \in 1..m \/ j = m + 1
        BY <3>2
      <3>6. ASSUME NEW j \in 1..(m + 1) PROVE Ready(input, tracks'[j], heap[tracks'[j]], h[n][j], full)
        <4>1. CASE j \in 1..m
          BY <2>1, <3>2, <3>3, <4>1
        <4>2. CASE j = m + 1
          BY <3>2, <3>3, <3>4, <4>2
        <4> QED BY <3>5, <4>1, <4>2
      <3> QED BY <3>2, <3>3, <3>6
    <2>5. CASE t \notin Counted
      <3>1. tracks' = tracks /\ h[n] = x
        BY <1>2, <1>3, <2>3, <2>5
      <3> QED BY <2>1, <3>1
    <2> QED BY <2>4, <2>5
  <1>7. flat' = <<>>
    BY <1>2 DEF Prepared
  <1> QED BY <1>2, <1>4, <1>5, <1>6, <1>7 DEF Prepared

\* One more track is padded.
LEMMA NormalizePrepares ==
    ASSUME Tidy, input \in Stacks, NoneAtTheEnds, Prepared(FullLength),
           NEW a \in Addresses \ DOMAIN heap, Normalize(a), NEW full, full = FullLength
    PROVE  Prepared(full)'
  <1> DEFINE N == Len(Used)
             i == Min(Short)
             b == LengthAt(tracks[i])
             k == heap[tracks[i]]
             g == Gap(TimeRange(0, full - b))
             F == FilmOf(Used[i])
  <1>1. AllStand(full) /\ Collected /\ Short # {} /\ seen = Len(input)
    <2>1. seen = Len(input)
      BY DEF Normalize, Collected
    <2> QED BY <2>1, Collection DEF Normalize
  <1>2. /\ full \in Nat /\ Len(tracks) = N /\ Longest = full
        /\ \A j \in 1..N : Ready(input, tracks[j], heap[tracks[j]], Used[j], full) /\ Stands(tracks[j], Used[j], full)
    BY <1>1 DEF AllStand
  <1>3. N \in Nat /\ DOMAIN tracks = 1..N /\ IsList(tracks) /\ Range(tracks) \subseteq DOMAIN heap
    BY <1>2, UsedIs DEF Tidy, Listed, IsList
  <1>4. i \in 1..N /\ tracks[i] \in DOMAIN input /\ b < full
    <2>1. Short \in SUBSET Nat
      BY <1>3 DEF Short
    <2>2. i \in Short
      BY <1>1, <2>1, MinOfNats
    <2> QED BY <1>2, <1>3, <2>2 DEF Short
  <1>5. b \in Nat /\ Plays(k, F, 0, b) /\ Plain(k) /\ \A n \in Nat : n > b => F[n] = NULL
    BY <1>2, <1>4 DEF Stands
  <1>6. Plays(Append(k, g), F, 0, full) /\ Plain(Append(k, g))
    <2> HIDE DEF k, F, b
    <2> QED BY <1>2, <1>4, <1>5, PaddedPlays
  <1>7. /\ heap' = With(heap, a, Append(k, g)) /\ tracks' = [tracks EXCEPT ![i] = a]
        /\ UNCHANGED <<input, list, seen, flat>>
    BY <1>2 DEF Normalize, Padded
  <1>8. heap'[a] = Append(k, g) /\ a \notin DOMAIN heap /\ \A c \in DOMAIN heap : heap'[c] = heap[c]
    <2>1. /\ DOMAIN heap' = DOMAIN heap \cup {a} /\ heap'[a] = Append(k, g)
          /\ \A c \in DOMAIN heap \ {a} : heap'[c] = heap[c]
      <3> HIDE DEF k, g
      <3> QED BY <1>7 DEF With
    <2> QED BY <2>1
  <1>9. a \notin DOMAIN input
    BY DEF Tidy, Given
  <1>10. Len(tracks') = N /\ tracks'[i] = a /\ \A j \in 1..N : j # i => tracks'[j] = tracks[j]
    <2>1. DOMAIN tracks' = 1..N /\ tracks'[i] = a /\ \A j \in 1..N : j # i => tracks'[j] = tracks[j]
      <3> HIDE DEF i, N
      <3> QED BY <1>3, <1>4, <1>7
    <2>2. Len(tracks') = N
      <3>1. tracks' \in Seq(Range(tracks'))
        <4>1. Tidy'
          BY NormalizeTidy
        <4> QED BY <4>1 DEF Tidy, Listed, IsList
      <3>2. DOMAIN tracks' = 1..Len(tracks') /\ Len(tracks') \in Nat
        BY <3>1
      <3> HIDE DEF N
      <3> QED BY <1>3, <2>1, <3>2
    <2> QED BY <2>1, <2>2
  <1>11. Counted' = Counted
    BY <1>7 DEF Counted
  <1> HIDE DEF i, N, k, g, F
  <1>12. ASSUME NEW h, IsFilter(h, input, Counted, Range(input))
         PROVE  /\ Len(tracks') = Len(h[seen])
                /\ \A j \in 1..Len(tracks') : Ready(input, tracks'[j], heap'[tracks'[j]], h[seen][j], full)
    <2>1. Len(tracks) = Len(h[seen]) /\ \A j \in 1..Len(tracks) : Ready(input, tracks[j], heap[tracks[j]], h[seen][j], full)
      BY <1>12 DEF Prepared
    <2>2. ASSUME NEW j \in 1..N PROVE Ready(input, tracks'[j], heap'[tracks'[j]], h[seen][j], full)
      <3> DEFINE t == h[seen][j]
      <3>1. Ready(input, tracks[j], heap[tracks[j]], t, full)
        BY <1>2, <2>1
      <3>2. CASE j # i
        <4>1. tracks'[j] = tracks[j] /\ heap'[tracks[j]] = heap[tracks[j]]
          <5>1. tracks[j] \in DOMAIN heap
            BY <1>3, <2>2, Zenon DEF Range
          <5> QED BY <1>8, <1>10, <2>2, <3>2, <5>1
        <4> QED BY <1>7, <3>1, <4>1 DEF Ready
      <3>3. CASE j = i
        <4>1. t = Used[i]
          BY <1>2, <1>4, <3>1, <3>3 DEF Ready
        <4>2. Plays(heap'[a], FilmOf(t), 0, full) /\ Plain(heap'[a])
          BY <1>6, <1>8, <4>1 DEF F
        <4> QED BY <1>7, <1>9, <1>10, <3>3, <4>2 DEF Ready
      <3> QED BY <3>2, <3>3
    <2> QED BY <1>2, <1>10, <2>1, <2>2
  <1>13. flat' = <<>> /\ \A j \in 1..seen : input[j].kind = "track"
    BY <1>7 DEF Prepared
  <1> QED BY <1>7, <1>11, <1>12, <1>13 DEF Prepared

\* The first call is about the topmost track, all of it.
LEMMA BeginPlays ==
    ASSUME Tidy, input \in Stacks, NoneAtTheEnds, Prepared(FullLength), Begin,
           NEW S, S = Films, NEW C, NEW full, full = FullLength
    PROVE  Playing(S, C, full)'
  <1> DEFINE N == Len(Used)
  <1>1. AllStand(full) /\ Collected /\ Short = {} /\ flat = <<>>
    <2>1. seen = Len(input)
      BY DEF Begin, Collected
    <2> QED BY <2>1, Collection DEF Begin, Prepared
  <1>2. /\ full \in Nat /\ Len(tracks) = N /\ Longest = full
        /\ \A j \in 1..N : Stands(tracks[j], Used[j], full)
    BY <1>1 DEF AllStand
  <1>3. N \in Nat /\ DOMAIN tracks = 1..N /\ tracks \in Seq(Range(tracks))
    BY <1>2, UsedIs DEF Tidy, Listed, IsList
  <1>4. S \in Seq({FilmOf(Used[j]) : j \in 1..N}) /\ Len(S) = N /\ \A j \in 1..N : S[j] = FilmOf(Used[j])
    BY <1>3 DEF Films
  <1>5. UNCHANGED <<heap, tracks, flat>> /\ calls' = IF tracks = <<>> THEN <<>> ELSE <<Call(Len(tracks), NULL)>>
    BY DEF Begin
  <1> HIDE DEF N
  <1>6. ASSUME NEW j \in 1..N PROVE Plays(heap[tracks[j]], S[j], 0, full)
    <2> DEFINE b == LengthAt(tracks[j])
    <2>1. b \in Nat /\ b <= full /\ Plays(heap[tracks[j]], FilmOf(Used[j]), 0, b) /\ (tracks[j] \notin DOMAIN input => b = full)
      BY <1>2 DEF Stands
    <2>2. tracks[j] \in DOMAIN input => ~(b < Longest)
      BY <1>1, <1>3 DEF Short
    <2> HIDE DEF b
    <2>3. b = full
      BY <1>2, <2>1, <2>2
    <2> QED BY <1>4, <2>1, <2>3
  <1>7. CASE tracks = <<>>
    <2>1. calls' = <<>> /\ Len(calls') = 0
      BY <1>5, <1>7
    <2>2. full = 0
      <3>1. {0} \cup {LengthAt(a) : a \in Range(tracks)} = {0}
        <4>1. DOMAIN tracks = {}
          BY <1>7
        <4> QED BY <4>1 DEF Range
      <3>2. Max({0}) = 0
        BY MaxIs
      <3> QED BY <1>2, <3>1, <3>2 DEF Longest
    <2>3. Plays(<<>>, C, 0, 0)
      <3>1. 0 \in Int
        OBVIOUS
      <3> QED BY <3>1, NothingPlays
    <2>4. Plays(flat', C, 0, full)
      BY <1>1, <1>5, <2>2, <2>3
    <2>5. 1..Len(calls') = {} /\ 1..(Len(calls') - 1) = {}
      BY <2>1
    <2> QED BY <1>2, <1>4, <1>5, <1>6, <2>1, <2>4, <2>5 DEF Playing
  <1>8. CASE tracks # <<>>
    <2> PICK c : c = Call(Len(tracks), NULL)
      OBVIOUS
    <2>1. calls' = <<c>> /\ Len(calls') = 1 /\ calls'[1] = c /\ calls' # <<>>
      BY <1>5, <1>8
    <2>2. c.index = N /\ c.trim = NULL /\ c.track = NULL /\ c.next = 1
      BY <1>2 DEF Call
    <2>3. N \in 1..N
      <3>1. N # 0
        BY <1>2, <1>3, <1>8
      <3> QED BY <1>3, <3>1
    <2>4. Hidden(c, S, full)
      <3>1. \A j \in 1..N : ~(j > N)
        BY <1>3
      <3> QED BY <1>4, <2>2, <3>1 DEF Hidden
    <2>5. Underway(heap, c, S, full)
      BY <1>4, <2>2, <2>3, <2>4 DEF Underway
    <2>6. Due(heap, c) = 0
      BY <2>2 DEF Due, From
    <2>7. Plays(flat', C, 0, Due(heap, c))
      <3>1. 0 \in Int
        OBVIOUS
      <3>2. Plays(<<>>, C, 0, 0)
        BY <3>1, NothingPlays
      <3> QED BY <1>1, <1>5, <2>6, <3>2
    <2>8. /\ \A n \in 1..Len(calls') : Underway(heap', calls'[n], S, full)
          /\ 1..(Len(calls') - 1) = {}
          /\ Plays(flat', C, 0, Due(heap', calls'[Len(calls')]))
      <3>1. \A n \in 1..1 : n = 1
        OBVIOUS
      <3>2. 1..(1 - 1) = {}
        OBVIOUS
      <3> QED BY <1>5, <2>1, <2>5, <2>7, <3>1, <3>2
    <2> QED BY <1>2, <1>4, <1>5, <1>6, <2>1, <2>8 DEF Playing
  <1> QED BY <1>7, <1>8

--------------------------------------------------------------------------------
(* A step of the calls.                                                        *)

\* What a call is at stays in memory.
LEMMA StillUnderway ==
    ASSUME NEW mem, NEW new, NEW c, NEW S, NEW full, Underway(mem, c, S, full),
           c.track # NULL => new[c.track] = mem[c.track]
    PROVE  Underway(new, c, S, full) /\ Due(new, c) = Due(mem, c)
  BY DEF Underway, Due

\* Where a call is.
LEMMA CallStands ==
    ASSUME NEW mem, NEW c, NEW S, NEW full \in Nat, Underway(mem, c, S, full)
    PROVE  /\ From(c) \in Nat /\ To(c, full) \in Nat /\ From(c) <= To(c, full) /\ To(c, full) <= full
           /\ Due(mem, c) \in Nat /\ From(c) <= Due(mem, c) /\ Due(mem, c) <= To(c, full)
  <1>1. From(c) \in Nat /\ To(c, full) \in Nat /\ From(c) <= To(c, full) /\ To(c, full) <= full
    BY DEF Underway, From, To
  <1>2. CASE c.track = NULL
    <2>1. Due(mem, c) = From(c) + 0
      BY <1>2 DEF Due
    <2> QED BY <1>1, <2>1
  <1>3. CASE c.track # NULL
    <2> DEFINE k == mem[c.track]
               x == Laid(k)[c.next - 1]
    <2>1. Plays(k, S[c.index], From(c), To(c, full)) /\ c.next \in 1..(Len(k) + 1)
      BY <1>3 DEF Underway
    <2>2. Kids(k) /\ From(c) + Laid(k)[Len(k)] = To(c, full)
      BY <2>1 DEF Plays
    <2>3. c.next - 1 \in 0..Len(k) /\ Len(k) \in 0..Len(k)
      BY <2>1, <2>2, KidsAre
    <2>4. x \in Nat /\ x <= Laid(k)[Len(k)] /\ Laid(k)[Len(k)] \in Nat
      BY <2>2, <2>3, LaidIs
    <2>5. Due(mem, c) = From(c) + x
      BY <1>3 DEF Due
    <2> HIDE DEF x, k
    <2> QED BY <1>1, <2>2, <2>4, <2>5
  <1> QED BY <1>1, <1>2, <1>3

\* A call that has a track now.
LEMMA EnterPlays ==
    ASSUME Called, Flattening, Top.track = NULL, NEW S, NEW C, NEW full \in Nat, Playing(S, C, full),
           NEW a, a # NULL, DOMAIN Top = {"index", "trim", "track", "next"},
           calls' = WithTop([Top EXCEPT !.track = a]),
           Plays(heap'[a], S[Top.index], From(Top), To(Top, full)),
           \A n \in 1..Len(calls) : calls[n].track # NULL => heap'[calls[n].track] = heap[calls[n].track],
           \A j \in 1..Len(S) : heap'[tracks[j]] = heap[tracks[j]],
           UNCHANGED <<tracks, flat>>
    PROVE  Playing(S, C, full)'
  <1> PICK N : N = Len(calls)
    OBVIOUS
  <1> PICK c : c = [Top EXCEPT !.track = a]
    OBVIOUS
  <1>1. /\ calls' # <<>> /\ Len(calls') = N /\ N \in Nat \ {0}
        /\ calls'[N] = c /\ Top = calls[N] /\ calls # <<>>
        /\ \A k \in 1..N : k # N => calls'[k] = calls[k]
    BY TopChanged DEF Flattening
  <1>2. /\ Len(tracks) = Len(S) /\ \A j \in 1..Len(S) : Plays(heap[tracks[j]], S[j], 0, full)
        /\ \A n \in 1..N : Underway(heap, calls[n], S, full)
        /\ \A n \in 1..(N - 1) : Due(heap, calls[n]) = To(calls[n + 1], full)
        /\ Plays(flat, C, 0, Due(heap, Top))
    BY <1>1 DEF Playing
  <1>3. N \in 1..N
    BY <1>1
  <1>4. /\ c.track = a /\ c.index = Top.index /\ c.trim = Top.trim /\ c.next = Top.next
        /\ Underway(heap, Top, S, full)
    BY <1>1, <1>2, <1>3
  <1>5. From(c) = From(Top) /\ To(c, full) = To(Top, full) /\ c.next = 1
    BY <1>4 DEF From, To, Underway
  <1>6. Plays(heap'[a], S[c.index], From(c), To(c, full))
    BY <1>4, <1>5
  <1> HIDE DEF Top
  <1>7. Underway(heap', c, S, full)
    <2>1. Hidden(c, S, full)
      BY <1>4, <1>5 DEF Hidden, Underway
    <2>2. c.next \in 1..(Len(heap'[a]) + 1)
      <3>1. Len(heap'[a]) \in Nat
        BY <1>6, KidsAre DEF Plays
      <3> QED BY <1>5, <3>1
    <2> QED BY <1>4, <1>5, <1>6, <2>1, <2>2 DEF Underway
  <1>8. Due(heap', c) = Due(heap, Top)
    <2>1. Laid(heap'[a])[0] = 0
      BY <1>6, LaidIs DEF Plays
    <2>2. 1 - 1 = 0
      OBVIOUS
    <2> QED BY <1>4, <1>5, <2>1, <2>2 DEF Due
  <1>9. ASSUME NEW n \in 1..N, n # N
        PROVE  Underway(heap', calls'[n], S, full) /\ Due(heap', calls'[n]) = Due(heap, calls[n])
    BY <1>1, <1>2, <1>9, StillUnderway
  <1>10. \A n \in 1..N : Underway(heap', calls'[n], S, full)
    BY <1>1, <1>7, <1>9
  <1>11. ASSUME NEW n \in 1..(N - 1) PROVE Due(heap', calls'[n]) = To(calls'[n + 1], full)
    <2>1. n \in 1..N /\ n # N /\ n + 1 \in 1..N
      BY <1>1
    <2>2. To(calls'[n + 1], full) = To(calls[n + 1], full)
      <3>1. CASE n + 1 = N
        BY <1>1, <1>5, <3>1
      <3>2. CASE n + 1 # N
        BY <1>1, <2>1, <3>2
      <3> QED BY <3>1, <3>2
    <2> QED BY <1>2, <1>9, <2>1, <2>2
  <1>12. \A j \in 1..Len(S) : Plays(heap'[tracks'[j]], S[j], 0, full)
    BY <1>2
  <1>13. Plays(flat', C, 0, Due(heap', calls'[N]))
    BY <1>1, <1>2, <1>8
  <1> QED BY <1>1, <1>2, <1>10, <1>11, <1>12, <1>13 DEF Playing

\* The next child of a call.
GoesOn(mem, c, new, child, S, full) ==
    /\ IsChild(child) /\ Long(child) \in Nat /\ Due(mem, c) \in Nat
    /\ Due(mem, c) + Long(child) <= To(c, full)
    /\ Underway(mem, new, S, full) /\ Due(mem, new) = Due(mem, c) + Long(child)
    /\ \A n \in 1..Long(child) :
           /\ S[c.index][Due(mem, c) + n] = FrameAt(child, n)
           /\ \A j \in 1..Len(S) : j > c.index => S[j][Due(mem, c) + n] = NULL

\* What the next child of a call plays is what the film of its track has from there on.
LEMMA NextChild ==
    ASSUME NEW mem, NEW c, NEW S, NEW full \in Nat, Underway(mem, c, S, full), c.track # NULL,
           NEW k, k = mem[c.track], c.next \in DOMAIN k,
           NEW new, new.index = c.index, new.trim = c.trim, new.track = c.track, new.next = c.next + 1
    PROVE  GoesOn(mem, c, new, k[c.next], S, full)
  <1> PICK i : i = c.next
    OBVIOUS
  <1> DEFINE L == Laid(k)
             d == Due(mem, c)
             q == Long(k[i])
             e == To(c, full)
             s == From(c)
  <1>1. Plays(k, S[c.index], s, e) /\ i \in 1..(Len(k) + 1) /\ Hidden(c, S, full) /\ c.index \in 1..Len(S)
    BY DEF Underway
  <1>2. Kids(k) /\ s + L[Len(k)] = e
    BY <1>1 DEF Plays
  <1>3. Len(k) \in Nat /\ i \in 1..Len(k) /\ IsChild(k[i])
    BY <1>2, KidsAre DEF Kids
  <1>4. /\ L[i] = L[i - 1] + q /\ L[i - 1] \in Nat /\ q \in Nat
        /\ L[i] <= L[Len(k)] /\ L[Len(k)] \in Nat
    <2>1. i \in 0..Len(k) /\ Len(k) \in 0..Len(k)
      BY <1>3
    <2> QED BY <1>2, <1>3, <2>1, LaidIs
  <1>5. s \in Nat /\ e \in Nat /\ d \in Nat /\ s <= d
    BY CallStands
  <1>6. d = s + L[i - 1]
    BY DEF Due
  <1>7. From(new) = s /\ To(new, full) = e
    BY DEF From, To
  <1>8. Due(mem, new) = s + L[i]
    <2>1. (i + 1) - 1 = i
      BY <1>3
    <2>2. Due(mem, new) = From(new) + Laid(mem[new.track])[new.next - 1]
      BY DEF Due
    <2> QED BY <1>7, <2>1, <2>2
  <1>9. Underway(mem, new, S, full)
    <2>1. Hidden(new, S, full)
      BY <1>1, <1>7 DEF Hidden
    <2>2. i + 1 \in 1..(Len(k) + 1)
      BY <1>3
    <2>3. c.trim # NULL => c.trim.start \in Nat /\ c.trim.dur \in Nat /\ e <= full
      BY DEF Underway
    <2> HIDE DEF e, s
    <2> QED BY <1>1, <1>7, <2>1, <2>2, <2>3 DEF Underway
  <1>10. \A n \in 1..q : S[c.index][s + L[i - 1] + n] = FrameAt(k[i], n)
    BY <1>1, <1>3 DEF Plays
  <1> HIDE DEF L, s, e, d, q
  <1>11. d + q <= e /\ Due(mem, new) = d + q
    <2> DEFINE u == L[i - 1]
               v == L[i]
               w == L[Len(k)]
               y == Due(mem, new)
    <2>1. u \in Nat /\ w \in Nat /\ v = u + q /\ v <= w /\ q \in Nat
      BY <1>4
    <2>2. s \in Nat /\ e \in Nat /\ d = s + u /\ y = s + v /\ s + w = e
      BY <1>2, <1>5, <1>6, <1>8
    <2> HIDE DEF u, v, w, y
    <2>3. d + q <= e /\ y = d + q
      BY <2>1, <2>2
    <2> QED BY <2>3 DEF y
  <1>12. ASSUME NEW n \in 1..q
         PROVE  S[c.index][d + n] = FrameAt(k[i], n) /\ \A j \in 1..Len(S) : j > c.index => S[j][d + n] = NULL
    <2>1. S[c.index][d + n] = FrameAt(k[i], n)
      BY <1>6, <1>10
    <2>2. d + n \in (s + 1)..e
      BY <1>4, <1>5, <1>11
    <2> QED BY <1>1, <2>1, <2>2 DEF Hidden, s, e
  <1> QED BY <1>3, <1>4, <1>5, <1>9, <1>11, <1>12 DEF GoesOn, d, q, e

\* The call that is at a child, and how it goes on.
LEMMA AtChild ==
    ASSUME Called, HasNext, NEW S, NEW C, NEW full \in Nat, Playing(S, C, full)
    PROVE  /\ GoesOn(heap, Top, Advanced, Child, S, full)
           /\ Len(calls) \in Nat \ {0} /\ Top = calls[Len(calls)] /\ calls # <<>> /\ Top.track # NULL
           /\ DOMAIN Top = {"index", "trim", "track", "next"} /\ Top.index \in 1..Len(S)
           /\ Advanced.trim = Top.trim
  <1>1. calls # <<>> /\ IsList(calls) /\ Top.track # NULL /\ Top.next \in DOMAIN heap[Top.track]
    BY DEF HasNext, Inside, Flattening, Called
  <1>2. Len(calls) \in Nat \ {0} /\ Top = calls[Len(calls)] /\ Len(calls) \in DOMAIN calls /\ Len(calls) \in 1..Len(calls)
    <2>1. Len(calls) \in Nat \ {0} /\ DOMAIN calls = 1..Len(calls) /\ Last(calls) = calls[Len(calls)]
      BY <1>1, PoppedList
    <2>2. Len(calls) \in 1..Len(calls)
      BY ONLY <2>1
    <2> QED BY ONLY <2>1, <2>2 DEF Top
  <1>3. DOMAIN Top = {"index", "trim", "track", "next"}
    <2>1. Formed(Len(calls))
      BY <1>2 DEF Called
    <2> QED BY <1>2, <2>1 DEF Formed
  <1>4. /\ Advanced.index = Top.index /\ Advanced.trim = Top.trim
        /\ Advanced.track = Top.track /\ Advanced.next = Top.next + 1
    BY <1>3 DEF Advanced
  <1>5. Underway(heap, Top, S, full)
    BY <1>2 DEF Playing
  <1> HIDE DEF Top, Advanced
  <1>6. GoesOn(heap, Top, Advanced, Child, S, full)
    BY <1>1, <1>4, <1>5, NextChild DEF Child
  <1>7. Top.index \in 1..Len(S)
    BY <1>5 DEF Underway
  <1> QED BY <1>1, <1>2, <1>3, <1>4, <1>6, <1>7

\* A child that is visible, or has no track below, is the topmost there.
LEMMA InsertChildPlays ==
    ASSUME NullIsNoFrame, Called, InsertChild, NEW S, NEW C, NEW full \in Nat,
           Composes(S, C), Playing(S, C, full)
    PROVE  Playing(S, C, full)'
  <1> PICK N : N = Len(calls)
    OBVIOUS
  <1> DEFINE d == Due(heap, Top)
  <1>1. /\ HasNext /\ calls' = WithTop(Advanced) /\ flat' = Append(flat, Child)
        /\ Shown(Child) \/ Top.index = 1
        /\ UNCHANGED <<tracks, heap>>
    BY DEF InsertChild
  <1>2. /\ GoesOn(heap, Top, Advanced, Child, S, full) /\ calls # <<>> /\ N \in Nat \ {0}
        /\ Top = calls[N] /\ Top.index \in 1..Len(S) /\ Advanced.trim = Top.trim
    BY <1>1, AtChild
  <1>3. /\ calls' # <<>> /\ Len(calls') = N /\ calls'[N] = Advanced
        /\ \A k \in 1..N : k # N => calls'[k] = calls[k]
    BY <1>1, <1>2, TopChanged
  <1>4. /\ Len(tracks) = Len(S) /\ \A j \in 1..Len(S) : Plays(heap[tracks[j]], S[j], 0, full)
        /\ \A n \in 1..N : Underway(heap, calls[n], S, full)
        /\ \A n \in 1..(N - 1) : Due(heap, calls[n]) = To(calls[n + 1], full)
        /\ Plays(flat, C, 0, d)
    BY <1>2 DEF Playing
  <1> HIDE DEF Top, Advanced, Child
  <1>5. /\ IsChild(Child) /\ Long(Child) \in Nat /\ d \in Nat
        /\ Underway(heap, Advanced, S, full) /\ Due(heap, Advanced) = d + Long(Child)
        /\ \A n \in 1..Long(Child) :
               /\ S[Top.index][d + n] = FrameAt(Child, n)
               /\ \A j \in 1..Len(S) : j > Top.index => S[j][d + n] = NULL
    BY <1>2 DEF GoesOn
  <1>6. ASSUME NEW n \in 1..Long(Child) PROVE C[d + n] = FrameAt(Child, n)
    <2>1. d + n \in Nat
      BY <1>5
    <2>2. S[Top.index][d + n] # NULL \/ Top.index = 1
      <3>1. CASE Top.index = 1
        BY <3>1
      <3>2. CASE Shown(Child)
        <4>1. IsItem(Child)
          <5>1. Long(Child) # 0
            BY <1>5, <1>6
          <5> QED BY <1>5, <5>1, LongIs
        <4>2. Visible(Child)
          BY <3>2, <4>1 DEF Shown
        <4>3. FrameAt(Child, n) # NULL
          BY <4>2 DEF FrameAt, NullIsNoFrame
        <4> QED BY <1>5, <4>3
      <3> QED BY <1>1, <3>1, <3>2
    <2>3. \A j \in 1..Len(S) : j > Top.index => S[j][d + n] = NULL
      BY <1>5
    <2>4. C[d + n] = S[Top.index][d + n]
      BY <1>2, <2>1, <2>2, <2>3 DEF Composes
    <2> QED BY <1>5, <2>4
  <1> HIDE DEF d
  <1>7. Plays(flat', C, 0, d + Long(Child))
    <2>1. 0 \in Int
      OBVIOUS
    <2> QED BY <1>1, <1>4, <1>5, <1>6, <2>1, PlaysOn
  <1>8. \A n \in 1..N : Underway(heap, calls'[n], S, full)
    BY <1>3, <1>4, <1>5
  <1>9. ASSUME NEW n \in 1..(N - 1) PROVE Due(heap, calls'[n]) = To(calls'[n + 1], full)
    <2>1. n \in 1..N /\ n # N /\ n + 1 \in 1..N
      BY <1>2
    <2>2. To(calls'[n + 1], full) = To(calls[n + 1], full)
      <3>1. CASE n + 1 = N
        BY <1>2, <1>3, <3>1 DEF To
      <3>2. CASE n + 1 # N
        BY <1>3, <2>1, <3>2
      <3> QED BY <3>1, <3>2
    <2>3. calls'[n] = calls[n]
      BY <1>3, <2>1
    <2> QED BY <1>4, <2>2, <2>3
  <1>10. Plays(flat', C, 0, Due(heap, calls'[N]))
    BY <1>3, <1>5, <1>7
  <1> QED BY <1>1, <1>3, <1>4, <1>8, <1>9, <1>10 DEF Playing

\* The part of a track that is hidden is where the call got.
LEMMA HoleIs ==
    ASSUME Called, HasNext, IsItem(Child), NEW S, NEW C, NEW full \in Nat, Playing(S, C, full)
    PROVE  Hole(ranges[Top.track][Top.next], Top.trim) = TimeRange(Due(heap, Top), Long(Child))
  <1> DEFINE t == Top.track
             i == Top.next
             k == heap[t]
  <1>1. Len(calls) \in Nat \ {0} /\ Top = calls[Len(calls)] /\ t # NULL /\ i \in DOMAIN k
    BY AtChild DEF HasNext
  <1>2. Formed(Len(calls)) /\ Placed(Len(calls)) /\ Underway(heap, Top, S, full)
    <2>1. DOMAIN calls = 1..Len(calls)
      BY DEF Called, IsList
    <2>2. Len(calls) \in 1..Len(calls)
      BY <1>1
    <2> QED BY <1>1, <2>1, <2>2 DEF Called, Playing
  <1>3. i \in DOMAIN k \ 1..(i - 1)
    BY <1>1, <1>2 DEF Formed
  <1>4. ranges[t][i] = RangesOf(k)[i]
    BY <1>1, <1>2, <1>3 DEF Placed, Fresh
  <1>5. Plays(k, S[Top.index], From(Top), To(Top, full))
    BY <1>1, <1>2 DEF Underway
  <1>6. Kids(k) /\ i \in 1..Len(k) /\ Child = k[i]
    BY <1>1, <1>5, KidsAre DEF Plays, Child
  <1> HIDE DEF i, t, k
  <1>7. ranges[t][i] = TimeRange(Laid(k)[i - 1], Long(Child))
    BY <1>4, <1>6, PlaceIs
  <1>8. Laid(k)[i - 1] \in Nat
    BY <1>6, LaidIs
  <1>9. Due(heap, Top) = From(Top) + Laid(k)[i - 1]
    BY <1>1 DEF Due, t, i, k
  <1>10. From(Top) \in Nat
    BY <1>2, CallStands
  <1>11. CASE Top.trim = NULL
    <2>1. From(Top) = 0
      BY <1>11 DEF From
    <2>2. Due(heap, Top) = Laid(k)[i - 1]
      BY <1>8, <1>9, <2>1
    <2> QED BY <1>7, <1>11, <2>2 DEF Hole, t, i
  <1>12. CASE Top.trim # NULL
    <2>1. From(Top) = Top.trim.start
      BY <1>12 DEF From
    <2>2. Laid(k)[i - 1] + Top.trim.start = Due(heap, Top)
      BY <1>8, <1>9, <1>10, <2>1
    <2>3. ranges[t][i].start = Laid(k)[i - 1] /\ ranges[t][i].dur = Long(Child)
      BY <1>7 DEF TimeRange
    <2>4. Hole(ranges[t][i], Top.trim) = TimeRange(ranges[t][i].start + Top.trim.start, ranges[t][i].dur)
      BY <1>12 DEF Hole
    <2> QED BY <2>2, <2>3, <2>4 DEF t, i
  <1> QED BY <1>11, <1>12

\* Where a child shows nothing the call for the track below is about that part.
LEMMA LookBelowPlays ==
    ASSUME NullIsNoRange, Called, LookBelow, NEW S, NEW C, NEW full \in Nat, Playing(S, C, full)
    PROVE  Playing(S, C, full)'
  <1> PICK N : N = Len(calls)
    OBVIOUS
  <1> PICK d : d = Due(heap, Top)
    OBVIOUS
  <1> PICK q : q = Long(Child)
    OBVIOUS
  <1> PICK index : index = Top.index
    OBVIOUS
  <1> PICK hole : hole = Hole(ranges[Top.track][Top.next], Top.trim)
    OBVIOUS
  <1> PICK b : b = Call(index - 1, hole)
    OBVIOUS
  <1> PICK s : s = WithTop(Advanced)
    OBVIOUS
  <1>1. /\ HasNext /\ calls' = Append(s, b) /\ Child.kind # "composable"
        /\ ~Shown(Child) /\ index > 1
        /\ UNCHANGED <<tracks, heap, flat>>
    BY DEF LookBelow
  <1>2. /\ GoesOn(heap, Top, Advanced, Child, S, full) /\ calls # <<>> /\ N \in Nat \ {0}
        /\ Top = calls[N] /\ index \in 1..Len(S) /\ Advanced.trim = Top.trim
    BY <1>1, AtChild
  <1>3. /\ IsList(s) /\ Len(s) = N /\ s[N] = Advanced
        /\ \A k \in 1..(N - 1) : s[k] = calls[k]
    <2>1. IsList(calls)
      BY DEF Called
    <2>2. s = Append(Front(calls), Advanced) /\ calls # <<>>
      BY <1>2 DEF WithTop
    <2> HIDE DEF Advanced
    <2>3. /\ IsList(s) /\ s # <<>> /\ Len(s) = N /\ N \in Nat \ {0}
          /\ DOMAIN s = 1..N /\ DOMAIN calls = 1..N /\ s[N] = Advanced /\ Last(calls) = calls[N]
          /\ \A j \in 1..(N - 1) : s[j] = calls[j]
      BY <2>1, <2>2, ChangedList
    <2> QED BY <2>3
  <1>4. /\ Len(calls') = N + 1 /\ calls'[N + 1] = b /\ calls'[N] = Advanced /\ calls' # <<>>
        /\ \A k \in 1..(N - 1) : calls'[k] = calls[k]
    <2>1. /\ Len(calls') = N + 1 /\ calls'[N + 1] = b /\ DOMAIN calls' = 1..(N + 1)
          /\ \A k \in 1..N : calls'[k] = s[k]
      BY <1>1, <1>3, PushedList
    <2>2. N \in 1..N /\ N + 1 \in 1..(N + 1) /\ \A k \in 1..(N - 1) : k \in 1..N
      BY <1>2
    <2>3. calls' # <<>>
      BY <2>1, <2>2
    <2> QED BY <1>3, <2>1, <2>2, <2>3
  <1>5. /\ Len(tracks) = Len(S) /\ \A j \in 1..Len(S) : Plays(heap[tracks[j]], S[j], 0, full)
        /\ \A n \in 1..N : Underway(heap, calls[n], S, full)
        /\ \A n \in 1..(N - 1) : Due(heap, calls[n]) = To(calls[n + 1], full)
        /\ Plays(flat, C, 0, d)
    BY <1>2 DEF Playing
  <1>6. IsItem(Child) /\ ~Visible(Child)
    BY <1>1 DEF Shown
  <1>7. hole = TimeRange(d, q)
    BY <1>1, <1>6, HoleIs
  <1> HIDE DEF Top, Advanced, Child
  <1>8. hole # NULL /\ hole.start = d /\ hole.dur = q
    BY <1>7 DEF NullIsNoRange, TimeRange
  <1>9. /\ q \in Nat /\ d \in Nat /\ d + q <= To(Top, full)
        /\ Underway(heap, Advanced, S, full) /\ Due(heap, Advanced) = d + q
        /\ \A n \in 1..q :
               /\ S[index][d + n] = FrameAt(Child, n)
               /\ \A j \in 1..Len(S) : j > index => S[j][d + n] = NULL
    BY <1>2 DEF GoesOn
  <1>10. b.index = index - 1 /\ b.trim = hole /\ b.track = NULL /\ b.next = 1
    BY DEF Call
  <1>11. From(b) = d /\ To(b, full) = d + q /\ Due(heap, b) = d
    <2>1. From(b) = d /\ To(b, full) = d + q
      BY <1>8, <1>10 DEF From, To
    <2>2. Due(heap, b) = d + 0
      BY <1>10, <2>1 DEF Due
    <2> QED BY <1>9, <2>1, <2>2
  <1>12. Underway(heap, b, S, full)
    <2>1. To(Top, full) <= full /\ To(Top, full) \in Nat
      <3>1. Underway(heap, Top, S, full)
        BY <1>2, <1>5
      <3> QED BY <3>1, CallStands
    <2>2. d + q <= full
      BY <1>9, <2>1
    <2>3. index - 1 \in 1..Len(S)
      <3>1. index \in Nat
        BY <1>2
      <3> QED BY <1>1, <1>2, <3>1
    <2>4. ASSUME NEW j \in 1..Len(S), j > index - 1, NEW p \in (d + 1)..(d + q) PROVE S[j][p] = NULL
      <3>1. p - d \in 1..q /\ d + (p - d) = p
        BY <1>9
      <3>2. CASE j = index
        <4>1. FrameAt(Child, p - d) = NULL
          BY <1>6 DEF FrameAt
        <4>2. S[index][d + (p - d)] = FrameAt(Child, p - d)
          BY <1>9, <3>1
        <4> QED BY <3>1, <3>2, <4>1, <4>2
      <3>3. CASE j # index
        <4>1. j > index
          BY <1>2, <2>4, <3>3
        <4>2. S[j][d + (p - d)] = NULL
          BY <1>9, <3>1, <4>1
        <4> QED BY <3>1, <4>2
      <3> QED BY <3>2, <3>3
    <2>5. Hidden(b, S, full)
      BY <1>10, <1>11, <2>4 DEF Hidden
    <2>6. b.trim.start \in Nat /\ b.trim.dur \in Nat
      BY <1>8, <1>9, <1>10
    <2> QED BY <1>10, <1>11, <2>2, <2>3, <2>5, <2>6 DEF Underway
  <1>13. ASSUME NEW n \in 1..(N + 1) PROVE Underway(heap, calls'[n], S, full)
    <2>1. n \in 1..(N - 1) \/ n = N \/ n = N + 1
      BY <1>2
    <2>2. CASE n \in 1..(N - 1)
      <3>1. n \in 1..N
        BY <1>2, <2>2
      <3> QED BY <1>4, <1>5, <2>2, <3>1
    <2>3. CASE n = N
      BY <1>4, <1>9, <2>3
    <2>4. CASE n = N + 1
      BY <1>4, <1>12, <2>4
    <2> QED BY <2>1, <2>2, <2>3, <2>4
  <1>14. ASSUME NEW n \in 1..((N + 1) - 1) PROVE Due(heap, calls'[n]) = To(calls'[n + 1], full)
    <2>1. CASE n = N
      BY <1>4, <1>9, <1>11, <2>1
    <2>2. CASE n # N
      <3>1. n \in 1..(N - 1) /\ (n + 1 \in 1..(N - 1) \/ n + 1 = N)
        BY <1>2, <2>2
      <3>2. To(calls'[n + 1], full) = To(calls[n + 1], full)
        <4>1. CASE n + 1 \in 1..(N - 1)
          BY <1>4, <4>1
        <4>2. CASE n + 1 = N
          BY <1>2, <1>4, <4>2 DEF To
        <4> QED BY <3>1, <4>1, <4>2
      <3> QED BY <1>4, <1>5, <3>1, <3>2
    <2> QED BY <2>1, <2>2
  <1>15. Plays(flat', C, 0, Due(heap, calls'[N + 1]))
    BY <1>1, <1>4, <1>5, <1>11
  <1> QED BY <1>1, <1>4, <1>5, <1>13, <1>14, <1>15 DEF Playing

\* The end of a call is where the one before had got to.
LEMMA LeavePlays ==
    ASSUME Tidy, Leave, NEW S, NEW C, NEW full \in Nat, Playing(S, C, full)
    PROVE  Playing(S, C, full)'
  <1> PICK N : N = Len(calls)
    OBVIOUS
  <1> PICK c : c = Top
    OBVIOUS
  <1>1. /\ calls # <<>> /\ c.track # NULL /\ ~(c.next \in DOMAIN heap[c.track])
        /\ calls' = Front(calls) /\ UNCHANGED <<tracks, flat>>
    BY DEF Leave, Inside, HasNext, Flattening
  <1>2. /\ N \in Nat \ {0} /\ Len(calls') = N - 1 /\ DOMAIN calls' = 1..(N - 1) /\ c = calls[N]
        /\ IsList(calls') /\ \A k \in 1..(N - 1) : calls'[k] = calls[k]
    <2>1. IsList(calls)
      BY DEF Tidy, Called
    <2> QED BY <1>1, <2>1, PoppedList DEF Top
  <1>3. /\ Len(tracks) = Len(S) /\ \A j \in 1..Len(S) : Plays(heap[tracks[j]], S[j], 0, full)
        /\ \A n \in 1..N : Underway(heap, calls[n], S, full)
        /\ \A n \in 1..(N - 1) : Due(heap, calls[n]) = To(calls[n + 1], full)
        /\ Plays(flat, C, 0, Due(heap, c))
    BY <1>1, <1>2 DEF Playing
  <1>4. \A n \in 1..N : Formed(n) /\ Placed(n)
    <2>1. DOMAIN calls = 1..N
      BY DEF Tidy, Called, IsList
    <2> QED BY <2>1 DEF Tidy, Called
  <1>5. N \in 1..N /\ Formed(N) /\ Placed(N) /\ Underway(heap, c, S, full)
    <2>1. N \in 1..N
      BY <1>2
    <2> QED BY <1>2, <1>3, <1>4, <2>1
  <1>6. Due(heap, c) = To(c, full)
    <2> PICK k : k = heap[c.track]
      OBVIOUS
    <2>1. Plays(k, S[c.index], From(c), To(c, full)) /\ c.next \in 1..(Len(k) + 1)
      BY <1>1, <1>5 DEF Underway
    <2>2. DOMAIN k = 1..Len(k) /\ Len(k) \in Nat /\ From(c) + Laid(k)[Len(k)] = To(c, full)
      BY <2>1, KidsAre DEF Plays
    <2>3. c.next - 1 = Len(k)
      BY <1>1, <2>1, <2>2
    <2>4. Due(heap, c) = From(c) + Laid(k)[c.next - 1]
      BY <1>1 DEF Due
    <2> QED BY <2>2, <2>3, <2>4
  <1>7. (c.trim = NULL <=> N = 1) /\ (c.trim = NULL => heap' = heap)
        /\ (c.trim # NULL => \A a \in DOMAIN heap : a # c.track => heap'[a] = heap[a])
    <2>1. c.trim = NULL <=> N = 1
      BY <1>2, <1>5, Zenon DEF Formed
    <2>2. c.trim = NULL => heap' = heap
      BY DEF Leave
    <2>3. c.trim # NULL => \A a \in DOMAIN heap : a # c.track => heap'[a] = heap[a]
      BY DEF Leave
    <2> QED BY <2>1, <2>2, <2>3
  <1>8. \A j \in 1..Len(S) : Plays(heap'[tracks[j]], S[j], 0, full)
    <2>1. CASE c.trim = NULL
      BY <1>3, <1>7, <2>1
    <2>2. CASE c.trim # NULL
      <3>1. c.track \notin Range(tracks)
        BY <1>1, <1>2, <1>5, <1>7, <2>2 DEF Placed
      <3>2. \A j \in 1..Len(S) : tracks[j] \in Range(tracks) /\ tracks[j] \in DOMAIN heap
        <4>1. DOMAIN tracks = 1..Len(S) /\ Range(tracks) \subseteq DOMAIN heap
          BY <1>3 DEF Tidy, Listed, IsList
        <4>2. \A j \in 1..Len(S) : tracks[j] \in Range(tracks)
          BY <4>1, Zenon DEF Range
        <4> QED BY <4>1, <4>2
      <3> QED BY <1>3, <1>7, <2>2, <3>1, <3>2
    <2> QED BY <2>1, <2>2
  <1>9. ASSUME NEW n \in 1..(N - 1)
        PROVE  Underway(heap', calls'[n], S, full) /\ Due(heap', calls'[n]) = Due(heap, calls[n])
    <2>1. n \in 1..N /\ n # N /\ calls'[n] = calls[n]
      BY <1>2
    <2>2. Underway(heap, calls[n], S, full) /\ Placed(n)
      BY <1>3, <1>4, <2>1
    <2>3. calls[n].track # NULL => calls[n].track \in DOMAIN heap /\ calls[n].track # c.track
      <3>1. N \in DOMAIN calls
        BY <1>5 DEF Tidy, Called, IsList
      <3> QED BY <1>2, <2>1, <2>2, <3>1 DEF Placed, Fresh
    <2>4. calls[n].track # NULL => heap'[calls[n].track] = heap[calls[n].track]
      BY <1>7, <2>3
    <2> PICK m : m = calls[n]
      OBVIOUS
    <2>5. Underway(heap', m, S, full) /\ Due(heap', m) = Due(heap, m)
      BY <2>2, <2>4, StillUnderway
    <2> QED BY <2>1, <2>5
  <1>10. ASSUME NEW n \in 1..((N - 1) - 1) PROVE Due(heap', calls'[n]) = To(calls'[n + 1], full)
    <2>1. n \in 1..(N - 1) /\ n + 1 \in 1..(N - 1)
      BY <1>2
    <2> QED BY <1>2, <1>3, <1>9, <2>1
  <1>11. CASE N = 1
    <2>1. calls' = <<>>
      BY <1>2, <1>11 DEF IsList
    <2>2. Due(heap, c) = full
      BY <1>6, <1>7, <1>11 DEF To
    <2> QED BY <1>1, <1>2, <1>3, <1>8, <1>9, <1>10, <2>1, <2>2 DEF Playing
  <1>12. CASE N # 1
    <2>1. N - 1 \in 1..(N - 1) /\ (N - 1) + 1 = N
      BY <1>2, <1>12
    <2>2. calls' # <<>>
      BY <1>2, <2>1
    <2>3. Due(heap', calls'[N - 1]) = Due(heap, c)
      BY <1>2, <1>3, <1>6, <1>9, <2>1
    <2> QED BY <1>1, <1>2, <1>3, <1>8, <1>9, <1>10, <2>2, <2>3 DEF Playing
  <1> QED BY <1>11, <1>12

\* The latest call, before it has a track.
LEMMA AtEntry ==
    ASSUME Tidy, Flattening, Top.track = NULL, NEW S, NEW C, NEW full \in Nat, Playing(S, C, full)
    PROVE  /\ Called /\ DOMAIN Top = {"index", "trim", "track", "next"}
           /\ Top.index \in 1..Len(S) /\ Underway(heap, Top, S, full)
           /\ Plays(heap[tracks[Top.index]], S[Top.index], 0, full)
           /\ \A j \in 1..Len(S) : tracks[j] \in DOMAIN heap
           /\ \A n \in 1..Len(calls) : calls[n].track # NULL => calls[n].track \in DOMAIN heap
           /\ NULL \notin DOMAIN heap
  <1> PICK N : N = Len(calls)
    OBVIOUS
  <1>1. Called /\ IsList(calls) /\ calls # <<>> /\ NULL \notin DOMAIN heap
    BY DEF Tidy, Called, Flattening, Given
  <1>2. N \in Nat \ {0} /\ DOMAIN calls = 1..N /\ Last(calls) = calls[N]
    BY <1>1, PoppedList
  <1>3. N \in 1..N
    BY ONLY <1>2
  <1>4. \A n \in 1..N : Formed(n) /\ Placed(n) /\ Underway(heap, calls[n], S, full)
    BY <1>1, <1>2 DEF Called, Playing
  <1>5. Top = calls[N] /\ DOMAIN Top = {"index", "trim", "track", "next"} /\ Underway(heap, Top, S, full)
    BY <1>2, <1>3, <1>4 DEF Top, Formed
  <1> HIDE DEF Top
  <1>6. Top.index \in 1..Len(S)
    BY <1>5 DEF Underway
  <1>7. /\ Len(tracks) = Len(S) /\ \A j \in 1..Len(S) : Plays(heap[tracks[j]], S[j], 0, full)
    BY DEF Playing
  <1>8. \A j \in 1..Len(S) : tracks[j] \in DOMAIN heap
    <2>1. DOMAIN tracks = 1..Len(S) /\ Range(tracks) \subseteq DOMAIN heap
      BY <1>7 DEF Tidy, Listed, IsList
    <2>2. \A j \in 1..Len(S) : tracks[j] \in Range(tracks)
      BY <2>1, Zenon DEF Range
    <2> QED BY <2>1, <2>2
  <1>9. \A n \in 1..N : calls[n].track # NULL => calls[n].track \in DOMAIN heap
    BY <1>4 DEF Placed, Fresh
  <1> QED BY <1>1, <1>5, <1>6, <1>7, <1>8, <1>9

\* The first call enters the track as it is.
LEMMA EnterWholePlays ==
    ASSUME Tidy, EnterWhole, NEW S, NEW C, NEW full \in Nat, Playing(S, C, full)
    PROVE  Playing(S, C, full)'
  <1> PICK a : a = tracks[Top.index]
    OBVIOUS
  <1>1. /\ Flattening /\ Top.track = NULL /\ Top.trim = NULL
        /\ calls' = WithTop([Top EXCEPT !.track = a])
        /\ UNCHANGED <<heap, tracks, flat>>
    BY DEF EnterWhole
  <1>2. /\ Called /\ DOMAIN Top = {"index", "trim", "track", "next"}
        /\ Plays(heap[a], S[Top.index], 0, full) /\ a # NULL
    BY <1>1, AtEntry
  <1>3. From(Top) = 0 /\ To(Top, full) = full
    BY <1>1 DEF From, To
  <1>4. Plays(heap'[a], S[Top.index], From(Top), To(Top, full))
    BY <1>1, <1>2, <1>3
  <1>5. /\ \A n \in 1..Len(calls) : calls[n].track # NULL => heap'[calls[n].track] = heap[calls[n].track]
        /\ \A j \in 1..Len(S) : heap'[tracks[j]] = heap[tracks[j]]
    BY <1>1
  <1> QED BY <1>1, <1>2, <1>4, <1>5, EnterPlays

\* Any other enters a copy that is trimmed to its part.
LEMMA EnterTrimmedPlays ==
    ASSUME Tidy, NEW a \in Addresses \ DOMAIN heap, EnterTrimmed(a),
           NEW S, NEW C, NEW full \in Nat, Playing(S, C, full)
    PROVE  Playing(S, C, full)'
  <1> PICK k : k = heap[tracks[Top.index]]
    OBVIOUS
  <1>1. /\ Flattening /\ Top.track = NULL /\ Top.trim # NULL
        /\ calls' = WithTop([Top EXCEPT !.track = a])
        /\ Trimmed(k, Top.trim).status = "OK" /\ heap' = With(heap, a, Trimmed(k, Top.trim).kids)
        /\ UNCHANGED <<tracks, flat>>
    BY DEF EnterTrimmed, Enters, Copy
  <1>2. /\ Called /\ DOMAIN Top = {"index", "trim", "track", "next"}
        /\ Underway(heap, Top, S, full) /\ Plays(k, S[Top.index], 0, full)
        /\ \A j \in 1..Len(S) : tracks[j] \in DOMAIN heap
        /\ \A n \in 1..Len(calls) : calls[n].track # NULL => calls[n].track \in DOMAIN heap
    BY <1>1, AtEntry
  <1>3. a # NULL /\ a \notin DOMAIN heap
    BY FlattenAssumption
  <1> HIDE DEF Top
  <1>4. /\ From(Top) = Top.trim.start /\ To(Top, full) = Top.trim.start + Top.trim.dur
        /\ Top.trim.start \in Nat /\ Top.trim.dur \in Nat /\ Top.trim.start + Top.trim.dur <= full
    BY <1>1, <1>2 DEF From, To, Underway
  <1> PICK u : u = Trimmed(k, Top.trim).kids
    OBVIOUS
  <1>5. heap'[a] = u /\ \A b \in DOMAIN heap : heap'[b] = heap[b]
    <2>1. heap' = With(heap, a, u)
      BY <1>1
    <2> QED BY <1>3, <2>1 DEF With
  <1>6. Plays(u, S[Top.index], Top.trim.start, Top.trim.start + Top.trim.dur)
    BY <1>1, <1>2, <1>4, TrimmedPlays
  <1>7. Plays(heap'[a], S[Top.index], From(Top), To(Top, full))
    BY <1>4, <1>5, <1>6
  <1>8. /\ \A n \in 1..Len(calls) : calls[n].track # NULL => heap'[calls[n].track] = heap[calls[n].track]
        /\ \A j \in 1..Len(S) : heap'[tracks[j]] = heap[tracks[j]]
    BY <1>2, <1>5
  <1> QED BY <1>1, <1>2, <1>3, <1>7, <1>8, EnterPlays

--------------------------------------------------------------------------------
(* Every step.                                                                 *)

\* At the start nothing is flattened.
LEMMA InitBuilds == Init => Builds
  <1> SUFFICES ASSUME Init, NEW S, NEW C, NEW full PROVE input \in Stacks /\ Progress(S, C, full)
    BY DEF Builds
  <1>1. input \in Stacks /\ phase = "prepare" /\ seen = 0 /\ flat = <<>> /\ tracks = <<>>
    BY DEF Init
  <1>2. 1..seen = {} /\ Len(tracks) = 0 /\ 1..Len(tracks) = {}
    BY <1>1
  <1>3. ASSUME NEW h, IsFilter(h, input, Counted, Range(input)) PROVE Len(h[seen]) = 0
    <2>1. h[seen] = <<>>
      BY <1>1, <1>3 DEF IsFilter
    <2> QED BY <2>1
  <1> QED BY <1>1, <1>2, <1>3 DEF Progress, Prepared

\* What is flattened stays the same, and so do the films.
LEMMA SameStack == ASSUME [Next]_vars PROVE UNCHANGED <<input, list>>
  <1>1. CASE Mixed \/ EnterRefused \/ NeitherItemNorTransition \/ Return
    BY <1>1 DEF Mixed, EnterRefused, NeitherItemNorTransition, Return
  <1>2. CASE Collect \/ Begin \/ EnterWhole
    BY <1>2 DEF Collect, Begin, EnterWhole
  <1>3. CASE InsertChild \/ LookBelow \/ Leave
    BY <1>3 DEF InsertChild, LookBelow, Leave
  <1>4. ASSUME NEW a, Normalize(a) \/ EnterTrimmed(a) PROVE UNCHANGED <<input, list>>
    BY <1>4 DEF Normalize, EnterTrimmed
  <1>5. CASE Done \/ UNCHANGED vars
    BY <1>5 DEF Done, vars
  <1> QED BY <1>1, <1>2, <1>3, <1>4, <1>5 DEF Next

LEMMA SameFilms ==
    ASSUME UNCHANGED <<input, list>>
    PROVE  /\ Films' = Films /\ Whole' = Whole /\ FullLength' = FullLength
           /\ NoneAtTheEnds' = NoneAtTheEnds
  <1>1. Used' = Used
    BY DEF Used
  <1>2. Films' = Films
    BY <1>1 DEF Films
  <1>3. \A n : Composite(n)' = Composite(n)
    BY <1>1 DEF Composite
  <1>4. Whole' = Whole
    BY <1>3 DEF Whole
  <1>5. FullLength' = FullLength
    BY <1>1 DEF FullLength
  <1>6. NoneAtTheEnds' = NoneAtTheEnds
    BY <1>1 DEF NoneAtTheEnds
  <1> QED BY <1>2, <1>4, <1>5, <1>6

\* One step, of stacks of which no track begins or ends with a transition.
LEMMA StepProgresses ==
    ASSUME NullIsNoRange, NullIsNoFrame, Tidy, input \in Stacks, NoneAtTheEnds, Next,
           NEW S, S = Films, NEW C, Composes(S, C), NEW full, full = FullLength, Progress(S, C, full)
    PROVE  Progress(S, C, full)'
  <1>1. Called
    BY DEF Tidy
  <1>2. phase = "prepare" => Prepared(full) /\ Prepared(FullLength)
    BY DEF Progress
  <1>3. phase = "flatten" => Playing(S, C, full) /\ full \in Nat
    BY DEF Progress, Playing
  <1>4. CASE Mixed \/ EnterRefused \/ NeitherItemNorTransition
    <2>1. phase' = "done" /\ status' # "OK"
      BY <1>4 DEF Mixed, EnterRefused, NeitherItemNorTransition, Stop
    <2> QED BY <2>1 DEF Progress
  <1>5. CASE Collect
    <2>1. phase = "prepare" /\ phase' = "prepare"
      BY <1>5 DEF Collect, Collecting
    <2>2. Prepared(full)'
      BY <1>2, <1>5, <2>1, CollectPrepares
    <2> QED BY <2>1, <2>2 DEF Progress
  <1>6. ASSUME NEW a \in Addresses \ DOMAIN heap, Normalize(a) PROVE Progress(S, C, full)'
    <2>1. phase = "prepare" /\ phase' = "prepare"
      BY <1>6 DEF Normalize, Collected
    <2>2. Prepared(full)'
      BY <1>2, <1>6, <2>1, NormalizePrepares
    <2> QED BY <2>1, <2>2 DEF Progress
  <1>7. CASE Begin
    <2>1. phase = "prepare" /\ phase' = "flatten"
      BY <1>7 DEF Begin, Collected
    <2>2. Playing(S, C, full)'
      BY <1>2, <1>7, <2>1, BeginPlays
    <2> QED BY <2>1, <2>2 DEF Progress
  <1>8. CASE EnterWhole
    <2>1. phase = "flatten" /\ phase' = "flatten"
      BY <1>8 DEF EnterWhole, Flattening
    <2>2. Playing(S, C, full)'
      BY <1>3, <1>8, <2>1, EnterWholePlays
    <2> QED BY <2>1, <2>2 DEF Progress
  <1>9. ASSUME NEW a \in Addresses \ DOMAIN heap, EnterTrimmed(a) PROVE Progress(S, C, full)'
    <2>1. phase = "flatten" /\ phase' = "flatten"
      BY <1>9 DEF EnterTrimmed, Enters, Flattening
    <2>2. Playing(S, C, full)'
      BY <1>3, <1>9, <2>1, EnterTrimmedPlays
    <2> QED BY <2>1, <2>2 DEF Progress
  <1>10. CASE InsertChild
    <2>1. phase = "flatten" /\ phase' = "flatten"
      BY <1>10 DEF InsertChild, HasNext, Inside, Flattening
    <2>2. Playing(S, C, full)'
      BY <1>1, <1>3, <1>10, <2>1, InsertChildPlays
    <2> QED BY <2>1, <2>2 DEF Progress
  <1>11. CASE LookBelow
    <2>1. phase = "flatten" /\ phase' = "flatten"
      BY <1>11 DEF LookBelow, HasNext, Inside, Flattening
    <2>2. Playing(S, C, full)'
      BY <1>1, <1>3, <1>11, <2>1, LookBelowPlays
    <2> QED BY <2>1, <2>2 DEF Progress
  <1>12. CASE Leave
    <2>1. phase = "flatten" /\ phase' = "flatten"
      BY <1>12 DEF Leave, Inside, Flattening
    <2>2. Playing(S, C, full)'
      BY <1>3, <1>12, <2>1, LeavePlays
    <2> QED BY <2>1, <2>2 DEF Progress
  <1>13. CASE Return
    <2>1. phase = "flatten" /\ phase' = "done" /\ calls = <<>> /\ flat' = flat
      BY <1>13 DEF Return, Stop
    <2>2. Plays(flat, C, 0, full)
      BY <1>3, <2>1 DEF Playing
    <2>3. Plays(flat', C, 0, full)
      BY <2>1, <2>2
    <2> QED BY <2>1, <2>3 DEF Progress
  <1>14. CASE Done
    <2>1. phase = "done" /\ phase' = phase /\ status' = status /\ flat' = flat
      BY <1>14 DEF Done, vars
    <2> QED BY <2>1 DEF Progress
  <1> QED BY <1>4, <1>5, <1>6, <1>7, <1>8, <1>9, <1>10, <1>11, <1>12, <1>13, <1>14 DEF Next

\* The invariant is inductive.
LEMMA NextBuilds ==
    ASSUME NullIsNoRange, NullIsNoFrame, Tidy, Builds, [Next]_vars PROVE Builds'
  <1>1. UNCHANGED <<input, list>>
    BY SameStack
  <1>2. input \in Stacks /\ input' \in Stacks
    BY <1>1 DEF Builds
  <1>3. /\ Films' = Films /\ Whole' = Whole /\ FullLength' = FullLength
        /\ NoneAtTheEnds' = NoneAtTheEnds
    BY <1>1, SameFilms
  <1>4. ASSUME NoneAtTheEnds PROVE Progress(Films, Whole, FullLength)'
    <2> PICK S : S = Films
      OBVIOUS
    <2> PICK C : C = Whole
      OBVIOUS
    <2> PICK full : full = FullLength
      OBVIOUS
    <2>1. Composes(S, C)
      BY <1>2, WholeComposes
    <2>2. Progress(S, C, full)
      BY <1>4 DEF Builds
    <2>3. Progress(S, C, full)'
      <3>1. CASE Next
        BY <1>2, <1>4, <2>1, <2>2, <3>1, StepProgresses
      <3>2. CASE UNCHANGED vars
        BY <2>2, <3>2 DEF vars, Progress, Prepared, Playing, Counted
      <3> QED BY <3>1, <3>2
    <2>4. S = Films' /\ C = Whole' /\ full = FullLength'
      BY <1>3
    <2> QED BY <2>3, <2>4
  <1> QED BY <1>2, <1>3, <1>4 DEF Builds

\* What it says when all is flattened.
LEMMA BuildsMeans == ASSUME Builds PROVE ShowsTheTopmost
  <1> SUFFICES ASSUME Flattened, NoneAtTheEnds
               PROVE  Frames(flat) = [n \in 1..FullLength |-> Composite(n)]
    BY DEF ShowsTheTopmost
  <1> PICK C : C = Whole
    OBVIOUS
  <1> PICK full : full = FullLength
    OBVIOUS
  <1>1. Plays(flat, C, 0, full)
    BY DEF Builds, Progress, Flattened
  <1>2. 0 \in Int
    OBVIOUS
  <1>3. Frames(flat) = [p \in 1..(full - 0) |-> C[0 + p]]
    BY <1>1, <1>2, FramesOfPlay
  <1>4. full \in Nat
    <2>1. Kids(flat) /\ 0 + Laid(flat)[Len(flat)] = full
      BY <1>1 DEF Plays
    <2>2. Len(flat) \in 0..Len(flat)
      BY <2>1, KidsAre
    <2>3. Laid(flat)[Len(flat)] \in Nat
      BY <2>1, <2>2, LaidIs
    <2> QED BY <2>1, <2>3
  <1>5. full - 0 = full /\ \A p \in 1..full : C[0 + p] = Composite(p)
    <2>1. \A p \in 1..full : p \in Nat /\ 0 + p = p
      BY <1>4
    <2> QED BY <1>4, <2>1 DEF Whole
  <1> QED BY <1>3, <1>5

\* However many tracks are flattened, of any length and with any children: where it
\* ends well and no track begins or ends with a transition, the flat track is as long
\* as the longest of the tracks and shows the frame of the topmost that shows one.
THEOREM TopmostShows ==
    ASSUME NullIsNoRange, NullIsNoFrame PROVE Spec => []ShowsTheTopmost
  <1>1. Init => Tidy /\ Builds
    BY InitTidy, InitBuilds
  <1>2. Tidy /\ Builds /\ [Next]_vars => (Tidy /\ Builds)'
    BY NextTidy, NextBuilds
  <1>3. Tidy /\ Builds => ShowsTheTopmost
    BY BuildsMeans
  <1> QED BY <1>1, <1>2, <1>3, PTL DEF Spec

================================================================================
