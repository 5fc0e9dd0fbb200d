--------------------------- MODULE ContainersProofs ---------------------------
(* However many dictionaries, proxies and iterators there are, and however     *)
(* often a dictionary changes: dictionary and proxy name each other or nothing, *)
(* an iterator that is not refused is safe, and one that is refused stays so.   *)
EXTENDS Containers, FiniteSetTheorems, WellFoundedInduction, TLAPS

--------------------------------------------------------------------------------
(* Maps.                                                                       *)

\* A map has keys and values; what is not a map's key is not looked up.
LEMMA MapsMean ==
    ASSUME NEW f
    PROVE  f \in Maps <=> /\ DOMAIN f \subseteq Key
                          /\ f = [k \in DOMAIN f |-> f[k]]
                          /\ \A k \in DOMAIN f : f[k] \in Datum \cup Dict
<1>1. f \in Maps <=> \E K \in SUBSET Key : f \in [K -> Datum \cup Dict]
    BY DEF Maps
<1>2. QED
    BY <1>1

LEMMA EmptyIsMap == Empty \in Maps /\ DOMAIN Empty = {}
<1>1. DOMAIN Empty = {} /\ Empty = [k \in DOMAIN Empty |-> Empty[k]]
    BY DEF Empty
<1>2. QED
    BY <1>1, MapsMean

LEMMA PutIsMap ==
    ASSUME NEW f \in Maps, NEW k \in Key, NEW v \in Datum \cup Dict
    PROVE  /\ Put(f, k, v) \in Maps
           /\ DOMAIN Put(f, k, v) = DOMAIN f \cup {k}
           /\ \A i \in DOMAIN f \cup {k} : Put(f, k, v)[i] = IF i = k THEN v ELSE f[i]
    BY MapsMean DEF Put

LEMMA WithoutIsMap ==
    ASSUME NEW f \in Maps, NEW k \in Key
    PROVE  /\ Without(f, k) \in Maps
           /\ DOMAIN Without(f, k) = DOMAIN f \ {k}
           /\ \A i \in DOMAIN f \ {k} : Without(f, k)[i] = f[i]
    BY MapsMean DEF Without

Less == {p \in Nat \X Nat : p[1] < p[2]}

LEMMA LessIsWellFounded == IsWellFoundedOn(Less, Nat)
<1>1. OpToRel(<, Nat) = Less
    BY Zenon DEF OpToRel, Less
<1>2. QED
    BY <1>1, NatLessThanWellFounded, Zenon

\* The first of some keys is the least of them.
LEMMA FirstIsLeast ==
    ASSUME NEW K \in SUBSET Key
    PROVE  /\ K = {} => First(K) = End
           /\ K # {} => First(K) \in K /\ \A j \in K : First(K) <= j
<1> USE ContainersAssumption
<1>1. CASE K = {}
    BY <1>1 DEF First
<1>2. CASE K # {}
    <2>1. \E k \in K : \A j \in K : <<j, k>> \notin Less
        <3>1. K \subseteq Nat
            OBVIOUS
        <3>2. QED
            BY <1>2, <3>1, LessIsWellFounded, WFMin, Zenon
    <2>2. \E k \in K : \A j \in K : k <= j
        <3>1. PICK k \in K : \A j \in K : <<j, k>> \notin Less
            BY <2>1
        <3>2. ASSUME NEW j \in K PROVE k <= j
            <4>1. <<j, k>> \notin Less /\ j \in Nat /\ k \in Nat
                BY <3>1
            <4>2. j < k => <<j, k>> \in Less
                BY <4>1 DEF Less
            <4>3. QED
                BY <4>1, <4>2
        <3>3. QED
            BY <3>2
    <2>3. First(K) = CHOOSE k \in K : \A j \in K : k <= j
        BY <1>2 DEF First
    <2>4. QED
        BY <1>2, <2>2, <2>3, Zenon
<1>3. QED
    BY <1>1, <1>2

--------------------------------------------------------------------------------
(* Dictionaries and their proxies.                                             *)

\* A proxy's count is -1 exactly when its dictionary is gone.
CountsTell == \A s \in Stamp : stamp[s] # None => (stamp[s].dict = None <=> stamp[s].count = -1)

Pointed == TypeOK /\ CountsTell /\ StampsAgree /\ OwnedWhileNamed

LEMMA InitPointed == Init => Pointed
<1> SUFFICES ASSUME Init PROVE Pointed
    OBVIOUS
<1>1. TypeOK
    BY EmptyIsMap DEF Init, TypeOK
<1>2. QED
    BY <1>1 DEF Init, Pointed, CountsTell, StampsAgree, OwnedWhileNamed, Usable

LEMMA BumpedIsProxy ==
    ASSUME NEW p \in Proxy, p.count + 1 \in Counts
    PROVE  /\ Bumped(p) \in Proxy /\ Bumped(p).count = p.count + 1
           /\ Bumped(p).dict = p.dict /\ Bumped(p).owning = p.owning
    BY DEF Bumped, Proxy

\* What a proxy is after its dictionary changed, or died.
LEMMA StampAfter ==
    ASSUME TypeOK, CountsTell, NEW changed \in SUBSET Dict, CanBump(changed),
           NEW dead \in SUBSET Dict, NEW s \in Stamp,
           NEW t, t = Orphan(Mutate(stamp, changed), dead)[s]
    PROVE  /\ t \in Proxy \cup {None}
           /\ stamp[s] = None <=> t = None
           /\ stamp[s] # None => t.owning = stamp[s].owning
           /\ stamp[s] # None /\ stamp[s].dict \in dead => t.count = -1 /\ t.dict = None
           /\ stamp[s] # None /\ stamp[s].dict \notin dead =>
                  /\ t.dict = stamp[s].dict
                  /\ t.count = IF stamp[s].dict \in changed THEN stamp[s].count + 1
                                                            ELSE stamp[s].count
<1> USE ContainersAssumption
<1>1. CASE stamp[s] = None
    BY <1>1 DEF Orphan, Mutate
<1>2. CASE stamp[s] # None
    <2> DEFINE p == stamp[s]
    <2>1. p \in Proxy
        BY <1>2 DEF TypeOK
    <2>2. p.dict \in changed => p.count \in 1..(MaxCount - 1)
        BY <1>2, <2>1 DEF CanBump, CountsTell, Proxy, Counts
    <2> DEFINE m == IF p.dict \in changed THEN Bumped(p) ELSE p
    <2>3. Mutate(stamp, changed)[s] = m
        BY <1>2 DEF Mutate
    <2>4. /\ m \in Proxy /\ m.dict = p.dict /\ m.owning = p.owning
          /\ m.count = IF p.dict \in changed THEN p.count + 1 ELSE p.count
        BY <2>1, <2>2 DEF Proxy, Counts, Bumped
    <2> HIDE DEF m
    <2>5. m # None
        BY <2>4
    <2>6. t = IF m.dict \in dead THEN [m EXCEPT !.count = -1, !.dict = None] ELSE m
        BY <2>3, <2>5 DEF Orphan
    <2>7. CASE m.dict \in dead
        <3>1. t \in Proxy /\ t.count = -1 /\ t.dict = None /\ t.owning = m.owning
            BY <2>4, <2>6, <2>7 DEF Proxy, Counts
        <3>2. QED
            BY <1>2, <2>4, <2>7, <3>1
    <2>8. CASE m.dict \notin dead
        BY <1>2, <2>4, <2>6, <2>8
    <2>9. QED
        BY <2>7, <2>8
<1>3. QED
    BY <1>1, <1>2

\* Iterators stay iterators when nodes are deleted; only where they stand changes.
LEMMA StrandedAfter ==
    ASSUME TypeOK, NEW lost, NEW c \in Cursor, NEW t, t = Strand(cursor, lost)[c]
    PROVE  /\ t \in Iterator \cup {None}
           /\ cursor[c] = None <=> t = None
           /\ cursor[c] # None =>
                /\ t.stamp = cursor[c].stamp /\ t.in = cursor[c].in
                /\ t.start = cursor[c].start /\ t.owed = cursor[c].owed
                /\ t.at = IF <<cursor[c].in, cursor[c].at>> \in lost THEN Gone ELSE cursor[c].at
<1> USE ContainersAssumption
<1>1. CASE cursor[c] = None
    BY <1>1 DEF Strand
<1>2. CASE cursor[c] # None
    <2> DEFINE i == cursor[c]
    <2>1. i \in Iterator
        BY <1>2 DEF TypeOK
    <2>2. t = IF <<i.in, i.at>> \in lost THEN [i EXCEPT !.at = Gone] ELSE i
        BY <1>2 DEF Strand
    <2> HIDE DEF i
    <2>3. CASE <<i.in, i.at>> \in lost
        <3>1. /\ t \in Iterator /\ t.stamp = i.stamp /\ t.in = i.in
              /\ t.start = i.start /\ t.owed = i.owed /\ t.at = Gone
            BY <2>1, <2>2, <2>3 DEF Iterator, Places
        <3>2. QED
            BY <1>2, <2>3, <3>1 DEF i
    <2>4. CASE <<i.in, i.at>> \notin lost
        BY <1>2, <2>1, <2>2, <2>4 DEF i
    <2>5. QED
        BY <2>3, <2>4
<1>3. QED
    BY <1>1, <1>2

\* A change of maps, with the dictionaries that die and those that are made with
\* it, leaves dictionaries and proxies naming each other.
LEMMA ChangePointed ==
    ASSUME Pointed, NEW maps \in [Dict -> Maps], NEW changed \in SUBSET Dict,
           NEW dead \in SUBSET Dict, NEW born \in SUBSET Unused, NEW lost,
           Change(maps, changed, dead, born, lost)
    PROVE  Pointed'
<1> USE ContainersAssumption
<1>1. /\ TypeOK /\ CountsTell /\ StampsAgree /\ OwnedWhileNamed
      /\ CanBump(changed)
    BY DEF Pointed, Change
<1>2. /\ entries' = [d \in Dict |-> IF d \in dead THEN Empty ELSE maps[d]]
      /\ holder' = [d \in Dict |-> IF d \in dead THEN "none" ELSE IF d \in born THEN "value"
                                   ELSE holder[d]]
      /\ mark' = [d \in Dict |-> IF d \in dead THEN None ELSE mark[d]]
      /\ stamp' = Orphan(Mutate(stamp, changed), dead)
      /\ cursor' = Strand(cursor, lost \cup (dead \X Places))
    BY DEF Change, Held, Marked
<1>3. ASSUME NEW s \in Stamp
      PROVE  /\ stamp'[s] \in Proxy \cup {None}
             /\ stamp[s] = None <=> stamp'[s] = None
             /\ stamp[s] # None => stamp'[s].owning = stamp[s].owning
             /\ stamp[s] # None /\ stamp[s].dict \in dead =>
                    stamp'[s].count = -1 /\ stamp'[s].dict = None
             /\ stamp[s] # None /\ stamp[s].dict \notin dead =>
                  /\ stamp'[s].dict = stamp[s].dict
                  /\ stamp'[s].count = IF stamp[s].dict \in changed THEN stamp[s].count + 1
                                                                    ELSE stamp[s].count
    <2>1. stamp'[s] = Orphan(Mutate(stamp, changed), dead)[s]
        BY <1>2
    <2>2. QED
        BY <1>1, <2>1, StampAfter
<1>4. TypeOK'
    <2>1. entries' \in [Dict -> Maps]
        BY <1>2, EmptyIsMap
    <2>2. holder' \in [Dict -> {"none", "object", "value", "stamp"}]
          /\ mark' \in [Dict -> Stamp \cup {None}]
        BY <1>1, <1>2 DEF TypeOK
    <2>3. stamp' \in [Stamp -> Proxy \cup {None}]
        BY <1>2, <1>3 DEF Orphan
    <2>4. cursor' \in [Cursor -> Iterator \cup {None}]
        <3>1. \A c \in Cursor : cursor'[c] \in Iterator \cup {None}
            BY <1>1, <1>2, StrandedAfter, Zenon
        <3>2. QED
            BY <1>2, <3>1 DEF Strand
    <2>5. QED
        BY <2>1, <2>2, <2>3, <2>4 DEF TypeOK
<1>5. ASSUME NEW s \in Stamp, stamp[s] # None
      PROVE  stamp[s].dict \in Dict \cup {None} /\ stamp[s].count \in Counts
    BY <1>1, <1>5 DEF TypeOK, Proxy
<1>6. CountsTell'
    BY <1>1, <1>3, <1>5 DEF CountsTell, Counts
<1>7. ASSUME NEW d \in Dict
      PROVE  /\ d \in dead => mark'[d] = None
             /\ d \notin dead => mark'[d] = mark[d]
    BY <1>2
<1>8. StampsAgree'
    <2>1. ASSUME NEW d \in Dict, mark'[d] # None
          PROVE  d \in Alive' /\ stamp'[mark'[d]] # None /\ stamp'[mark'[d]].dict = d
        <3>1. d \notin dead /\ mark'[d] = mark[d] /\ mark[d] # None /\ mark[d] \in Stamp
            BY <1>1, <1>2, <2>1 DEF TypeOK
        <3>2. d \in Alive /\ stamp[mark[d]] # None /\ stamp[mark[d]].dict = d
            BY <1>1, <3>1 DEF StampsAgree
        <3>3. d \in Alive'
            BY <1>2, <3>1, <3>2 DEF Alive
        <3>4. QED
            BY <1>3, <3>1, <3>2, <3>3
    <2>2. ASSUME NEW s \in Stamp, stamp'[s] # None, stamp'[s].dict # None
          PROVE  mark'[stamp'[s].dict] = s
        <3>1. stamp[s] # None /\ stamp[s].dict \notin dead /\ stamp'[s].dict = stamp[s].dict
            BY <1>3, <2>2
        <3>2. mark[stamp[s].dict] = s
            BY <1>1, <2>2, <3>1 DEF StampsAgree, Usable
        <3>3. QED
            BY <1>2, <1>5, <2>2, <3>1, <3>2
    <2>3. QED
        BY <2>1, <2>2 DEF StampsAgree, Usable
<1>9. OwnedWhileNamed'
    <2> SUFFICES ASSUME NEW d \in Dict
                 PROVE  holder'[d] = "stamp" <=>
                        \E s \in Stamp : stamp'[s] # None /\ stamp'[s].dict = d /\ stamp'[s].owning
        BY DEF OwnedWhileNamed
    <2>1. holder'[d] = "stamp" <=> d \notin dead /\ holder[d] = "stamp"
        BY <1>2 DEF Unused, Alive
    <2>2. ASSUME NEW s \in Stamp
          PROVE  stamp'[s] # None /\ stamp'[s].dict = d /\ stamp'[s].owning
                 <=> d \notin dead /\ stamp[s] # None /\ stamp[s].dict = d /\ stamp[s].owning
        BY <1>3
    <2>3. QED
        BY <1>1, <2>1, <2>2 DEF OwnedWhileNamed
<1>10. QED
    BY <1>4, <1>6, <1>8, <1>9 DEF Pointed

--------------------------------------------------------------------------------
(* Iterators.                                                                  *)

\* An iterator keeps its proxy, which was never bumped less than when the
\* iteration began.  While it is not refused it stands in the proxy's dictionary,
\* and what it owes is there and still before it.
Following(c) ==
    LET i == cursor[c]
        p == stamp[i.stamp]
    IN  /\ p # None
        /\ p.dict # None => i.start <= p.count
        /\ Accepted(c) =>
               /\ i.in = p.dict
               /\ i.at \in DOMAIN entries[i.in] \cup {End}
               /\ \A k \in i.owed : k \in DOMAIN entries[i.in] /\ i.at # End /\ i.at <= k

Followed == \A c \in Cursor : cursor[c] # None => Following(c)

\* Nothing that was refused is accepted after the step.
RefusedStay == \A c \in Cursor : cursor[c] # None /\ Accepted(c)' => Accepted(c)

LEMMA InitFollowed == Init => Followed
    BY DEF Init, Followed

\* What a step must not do: turn a count back, take a proxy from under an
\* iterator, or move or starve an iterator whose proxy it does not bump.
LEMMA FollowedAfter ==
    ASSUME TypeOK, TypeOK', Followed,
           \A c \in Cursor : cursor'[c] # None =>
               /\ cursor[c] # None
               /\ cursor'[c].stamp = cursor[c].stamp /\ cursor'[c].start = cursor[c].start
               /\ cursor'[c].owed = cursor[c].owed
               /\ stamp'[cursor[c].stamp] # None,
           \A s \in Stamp : stamp[s] # None /\ stamp'[s] # None /\ stamp'[s].dict # None =>
               /\ stamp'[s].dict = stamp[s].dict
               /\ stamp'[s].count \in {stamp[s].count, stamp[s].count + 1},
           \A c \in Cursor : \A s \in Stamp :
               /\ cursor'[c] # None /\ Accepted(c) /\ cursor[c].stamp = s
               /\ stamp'[s].dict = stamp[s].dict /\ stamp'[s].count = stamp[s].count
               => /\ cursor'[c].in = cursor[c].in /\ cursor'[c].at = cursor[c].at
                  /\ DOMAIN entries[cursor[c].in] \subseteq DOMAIN entries'[cursor[c].in]
    PROVE  Followed' /\ RefusedStay
<1>1. SUFFICES ASSUME NEW c \in Cursor, cursor'[c] # None
               PROVE  Following(c)' /\ (Accepted(c)' => Accepted(c))
    BY DEF Followed, RefusedStay, Accepted
<1> DEFINE s == cursor[c].stamp
<1>2. /\ cursor[c] \in Iterator /\ s \in Stamp /\ cursor[c].start \in Int
      /\ cursor[c] # None /\ Following(c)
    BY <1>1 DEF TypeOK, Iterator, Followed, Counts
<1>3. /\ stamp[s] # None /\ stamp[s].count \in Int
      /\ stamp'[s] # None
    BY <1>1, <1>2, ContainersAssumption DEF Following, TypeOK, Proxy, Counts
<1>4. stamp'[s].dict # None => /\ cursor[c].start <= stamp[s].count
                               /\ cursor[c].start <= stamp'[s].count
    BY <1>2, <1>3 DEF Following
<1>5. ASSUME Accepted(c)'
      PROVE  /\ Accepted(c)
             /\ cursor'[c].in = cursor[c].in /\ cursor'[c].at = cursor[c].at
             /\ stamp'[s].dict = stamp[s].dict
             /\ DOMAIN entries[cursor[c].in] \subseteq DOMAIN entries'[cursor[c].in]
    <2>1. stamp'[s].dict # None /\ stamp'[s].count = cursor[c].start
        BY <1>1, <1>5 DEF Accepted, Usable
    <2>2. stamp'[s].dict = stamp[s].dict /\ stamp'[s].count = stamp[s].count
        BY <1>2, <1>3, <1>4, <2>1
    <2>3. Accepted(c)
        BY <1>2, <1>3, <2>1, <2>2 DEF Accepted, Usable
    <2>4. QED
        BY <1>1, <1>2, <2>2, <2>3
<1>6. Following(c)'
    BY <1>1, <1>2, <1>3, <1>4, <1>5 DEF Following
<1>7. QED
    BY <1>5, <1>6

LEMMA ChangeFollowed ==
    ASSUME Pointed, Followed, NEW maps \in [Dict -> Maps], NEW changed \in SUBSET Dict,
           NEW dead \in SUBSET Dict, NEW born \in SUBSET Unused,
           NEW lost \in SUBSET (changed \X Places),
           Change(maps, changed, dead, born, lost),
           \A b \in Dict \ changed : b \notin dead => DOMAIN entries[b] \subseteq DOMAIN maps[b]
    PROVE  Followed' /\ RefusedStay
<1> DEFINE wrecked == lost \cup (dead \X Places)
<1>1. /\ TypeOK /\ CountsTell /\ CanBump(changed) /\ TypeOK'
      /\ entries' = [d \in Dict |-> IF d \in dead THEN Empty ELSE maps[d]]
      /\ stamp' = Orphan(Mutate(stamp, changed), dead)
      /\ cursor' = Strand(cursor, wrecked)
    BY ChangePointed DEF Pointed, Change
<1>2. ASSUME NEW s \in Stamp
      PROVE  /\ stamp[s] = None <=> stamp'[s] = None
             /\ stamp[s] # None /\ stamp[s].dict \in dead =>
                    stamp'[s].count = -1 /\ stamp'[s].dict = None
             /\ stamp[s] # None /\ stamp[s].dict \notin dead =>
                  /\ stamp'[s].dict = stamp[s].dict
                  /\ stamp'[s].count = IF stamp[s].dict \in changed THEN stamp[s].count + 1
                                                                    ELSE stamp[s].count
    <2>1. stamp'[s] = Orphan(Mutate(stamp, changed), dead)[s]
        BY <1>1
    <2>2. QED
        BY <1>1, <2>1, StampAfter
<1>3. ASSUME NEW c \in Cursor, cursor'[c] # None
      PROVE  /\ cursor[c] # None
             /\ cursor'[c].stamp = cursor[c].stamp /\ cursor'[c].start = cursor[c].start
             /\ cursor'[c].owed = cursor[c].owed /\ cursor'[c].in = cursor[c].in
             /\ cursor'[c].at = IF <<cursor[c].in, cursor[c].at>> \in wrecked
                                THEN Gone ELSE cursor[c].at
             /\ stamp[cursor[c].stamp] # None
             /\ cursor[c].stamp \in Stamp /\ cursor[c].in \in Dict /\ cursor[c].at \in Places
    <2>1. cursor'[c] = Strand(cursor, wrecked)[c]
        BY <1>1
    <2>2. /\ cursor[c] # None
          /\ cursor'[c].stamp = cursor[c].stamp /\ cursor'[c].start = cursor[c].start
          /\ cursor'[c].owed = cursor[c].owed /\ cursor'[c].in = cursor[c].in
          /\ cursor'[c].at = IF <<cursor[c].in, cursor[c].at>> \in wrecked
                             THEN Gone ELSE cursor[c].at
        BY <1>1, <1>3, <2>1, StrandedAfter
    <2>3. QED
        BY <1>1, <2>2 DEF TypeOK, Iterator, Followed, Following
<1>4. ASSUME NEW c \in Cursor, NEW s \in Stamp, cursor'[c] # None, Accepted(c),
             cursor[c].stamp = s,
             stamp'[s].dict = stamp[s].dict, stamp'[s].count = stamp[s].count
      PROVE  /\ cursor'[c].in = cursor[c].in /\ cursor'[c].at = cursor[c].at
             /\ DOMAIN entries[cursor[c].in] \subseteq DOMAIN entries'[cursor[c].in]
    <2>1. cursor[c].in = stamp[s].dict /\ stamp[s].dict # None /\ stamp[s] # None
        BY <1>3, <1>4 DEF Followed, Following, Accepted, Usable
    <2>2. stamp[s].count \in Int /\ cursor[c].in \in Dict
        BY <1>1, <1>3, <1>4, <2>1 DEF TypeOK, Proxy, Counts
    <2>3. cursor[c].in \notin dead /\ cursor[c].in \notin changed
        BY <1>2, <1>4, <2>1, <2>2
    <2>4. <<cursor[c].in, cursor[c].at>> \notin wrecked
        BY <2>3
    <2>5. QED
        BY <1>1, <1>3, <1>4, <2>2, <2>3, <2>4
<1>5. QED
    BY <1>1, <1>2, <1>3, <1>4, FollowedAfter

--------------------------------------------------------------------------------
(* Where dictionaries that are values are.                                     *)

FreshIsEmpty == \A d \in Unused : DOMAIN entries[d] = {}

ValuesAreValues == \A e \in Dict : \A k \in DOMAIN entries[e] : entries[e][k] \in Dict =>
    holder[entries[e][k]] = "value" /\ holder[e] \in {"object", "stamp"}

ValuesHavePlaces == \A d \in Dict : holder[d] = "value" =>
    \E e \in Dict : \E k \in DOMAIN entries[e] : entries[e][k] = d

PlacesDiffer == \A e, f \in Dict : \A j \in DOMAIN entries[e], k \in DOMAIN entries[f] :
    entries[e][j] = entries[f][k] /\ entries[e][j] \in Dict => e = f /\ j = k

NestedProperly == FreshIsEmpty /\ ValuesAreValues /\ ValuesHavePlaces /\ PlacesDiffer

\* What is inductive.
Sound == Pointed /\ Followed /\ NestedProperly

\* What operator= does: every dictionary among the source's values is copied to
\* an address of its own, and the target has the copies where the source has them.
Copies(new, maps, d, e, moving) ==
    /\ \A x, y \in DOMAIN new : new[x] = new[y] => x = y
    /\ DOMAIN maps[d] = DOMAIN entries[e]
    /\ \A k \in DOMAIN entries[e] :
         maps[d][k] = IF entries[e][k] \in Dict THEN new[entries[e][k]] ELSE entries[e][k]
    /\ \A x \in DOMAIN new : maps[new[x]] = entries[x]
    /\ \A b \in Dict \ {d} : (\A x \in DOMAIN new : new[x] # b) => maps[b] = entries[b]
    /\ Change(maps, IF moving THEN {d, e} ELSE {d}, Nested(entries[d]),
              {new[x] : x \in DOMAIN new}, {d} \X DOMAIN entries[d])

LEMMA AssignMeans ==
    ASSUME TypeOK, NEW d \in Dict, NEW e \in Dict, NEW moving \in BOOLEAN,
           Assign(d, e, moving)
    PROVE  \E new \in [Nested(entries[e]) -> Unused], maps \in [Dict -> Maps] :
               Copies(new, maps, d, e, moving)
<1> USE ContainersAssumption
<1>1. /\ d \in Alive /\ e \in Alive /\ d # e
      /\ entries \in [Dict -> Maps]
    BY DEF Assign, TypeOK
<1> DEFINE born(new) == {new[x] : x \in DOMAIN new}
           copied(new, x) == IF x \in Dict THEN new[x] ELSE x
           copy(new) == [k \in DOMAIN entries[e] |-> copied(new, entries[e][k])]
           maps(new) == [b \in Dict |->
               IF b = d THEN copy(new)
               ELSE IF b \in born(new) THEN entries[CHOOSE x \in DOMAIN new : new[x] = b]
               ELSE entries[b]]
<1>2. PICK new \in [Nested(entries[e]) -> Unused] :
          /\ \A x, y \in DOMAIN new : new[x] = new[y] => x = y
          /\ Change(maps(new), IF moving THEN {d, e} ELSE {d}, Nested(entries[d]),
                    born(new), {d} \X DOMAIN entries[d])
    BY Zenon DEF Assign
<1>3. copy(new) \in Maps
    <2>1. /\ DOMAIN entries[e] \subseteq Key
          /\ \A k \in DOMAIN entries[e] : entries[e][k] \in Datum \cup Dict
        BY <1>1, MapsMean
    <2>2. ASSUME NEW k \in DOMAIN entries[e] PROVE copied(new, entries[e][k]) \in Datum \cup Dict
        <3>1. entries[e][k] \in Dict => entries[e][k] \in Nested(entries[e])
            BY DEF Nested
        <3>2. QED
            BY <1>2, <2>1, <2>2, <3>1 DEF Unused
    <2> HIDE DEF copied
    <2>3. QED
        BY <2>1, <2>2, MapsMean
<1>4. ASSUME NEW x \in DOMAIN new
      PROVE  /\ new[x] \in Dict /\ new[x] # d
             /\ (CHOOSE y \in DOMAIN new : new[y] = new[x]) = x
    <2>1. new[x] \in Unused
        BY <1>2
    <2>2. \E y \in DOMAIN new : new[y] = new[x]
        BY <1>4
    <2>3. /\ (CHOOSE y \in DOMAIN new : new[y] = new[x]) \in DOMAIN new
          /\ new[CHOOSE y \in DOMAIN new : new[y] = new[x]] = new[x]
        BY <2>2, Zenon
    <2>4. QED
        BY <1>1, <1>2, <2>1, <2>3 DEF Unused
<1>5. \A x \in DOMAIN new : maps(new)[new[x]] = entries[x]
    <2>1. ASSUME NEW x \in DOMAIN new PROVE maps(new)[new[x]] = entries[x]
        <3>1. new[x] \in born(new)
            OBVIOUS
        <3>2. maps(new)[new[x]] = entries[CHOOSE y \in DOMAIN new : new[y] = new[x]]
            BY <1>4, <3>1, Zenon
        <3>3. QED
            BY <1>4, <3>2, Zenon
    <2>2. QED
        BY <2>1, Zenon
<1>6. \A b \in Dict \ {d} : (\A x \in DOMAIN new : new[x] # b) => maps(new)[b] = entries[b]
    <2>1. \A b \in Dict : (\A x \in DOMAIN new : new[x] # b) => b \notin born(new)
        OBVIOUS
    <2> HIDE DEF born, copy
    <2>2. QED
        BY <2>1
<1>7. maps(new) \in [Dict -> Maps]
    <2>1. ASSUME NEW b \in Dict PROVE maps(new)[b] \in Maps
        <3>1. CASE b = d
            <4> HIDE DEF copy, born
            <4>1. maps(new)[b] = copy(new)
                BY <3>1
            <4>2. QED
                BY <1>3, <4>1
        <3>2. CASE \E x \in DOMAIN new : new[x] = b
            <4>1. PICK x \in DOMAIN new : new[x] = b
                BY <3>2
            <4>2. x \in Dict
                BY <1>2 DEF Nested
            <4>3. entries[x] \in Maps
                BY <1>1, <4>2
            <4>4. maps(new)[new[x]] = entries[x]
                BY <1>5, Zenon
            <4>5. QED
                BY <4>1, <4>3, <4>4, Zenon
        <3>3. CASE b # d /\ \A x \in DOMAIN new : new[x] # b
            BY <1>1, <1>6, <3>3
        <3>4. QED
            BY <3>1, <3>2, <3>3
    <2> HIDE DEF copy, born
    <2>2. QED
        BY <2>1
<1>8. maps(new)[d] = copy(new)
    BY Zenon
<1> HIDE DEF maps
<1>9. Copies(new, maps(new), d, e, moving)
    BY <1>2, <1>5, <1>6, <1>8 DEF Copies
<1>10. QED
    BY <1>7, <1>9, Zenon

LEMMA InitNested == Init => NestedProperly
<1> SUFFICES ASSUME Init PROVE NestedProperly
    OBVIOUS
<1>1. \A d \in Dict : holder[d] = "none" /\ DOMAIN entries[d] = {}
    BY EmptyIsMap DEF Init
<1>2. FreshIsEmpty
    BY <1>1 DEF FreshIsEmpty, Unused
<1>3. ValuesAreValues /\ PlacesDiffer
    BY <1>1 DEF ValuesAreValues, PlacesDiffer
<1>4. ValuesHavePlaces
    BY <1>1 DEF ValuesHavePlaces
<1>5. QED
    BY <1>2, <1>3, <1>4 DEF NestedProperly

\* Entries that go take their dictionaries with them, and no others.
LEMMA RemovalNested ==
    ASSUME NestedProperly, NEW dead \in SUBSET Dict,
           \A b \in Dict : holder'[b] = IF b \in dead THEN "none" ELSE holder[b],
           \A b \in dead : DOMAIN entries'[b] = {},
           \A b \in Dict : /\ DOMAIN entries'[b] \subseteq DOMAIN entries[b]
                           /\ \A k \in DOMAIN entries'[b] : entries'[b][k] = entries[b][k],
           \A b \in Dict : \A k \in DOMAIN entries[b] : entries[b][k] \in Dict =>
               (entries[b][k] \in dead <=> k \notin DOMAIN entries'[b])
    PROVE  NestedProperly'
<1> USE DEF NestedProperly
<1>1. FreshIsEmpty'
    BY DEF FreshIsEmpty, Unused, Alive
<1>2. ValuesAreValues'
    BY DEF ValuesAreValues
<1>3. ValuesHavePlaces'
    <2>1. SUFFICES ASSUME NEW d \in Dict, holder'[d] = "value"
                   PROVE  \E b \in Dict : \E k \in DOMAIN entries'[b] : entries'[b][k] = d
        BY DEF ValuesHavePlaces
    <2>2. d \notin dead /\ holder[d] = "value"
        BY <2>1
    <2>3. PICK b \in Dict : \E k \in DOMAIN entries[b] : entries[b][k] = d
        BY <2>2 DEF ValuesHavePlaces
    <2>4. PICK k \in DOMAIN entries[b] : entries[b][k] = d
        BY <2>3
    <2>5. k \in DOMAIN entries'[b]
        BY <2>2, <2>4
    <2>6. QED
        BY <2>4, <2>5
<1>4. PlacesDiffer'
    BY DEF PlacesDiffer
<1>5. QED
    BY <1>1, <1>2, <1>3, <1>4

\* The value at k of d is replaced, or there was none; a dictionary that is
\* put there is new.
LEMMA PutNested ==
    ASSUME TypeOK, NestedProperly, NEW d \in Alive, NEW k \in Key, NEW v \in Storable(d),
           NEW dead \in SUBSET Dict,
           \A b \in Dict : b \in dead <=> k \in DOMAIN entries[d] /\ entries[d][k] = b,
           \A b \in Dict : holder'[b] = IF b \in dead THEN "none"
                                        ELSE IF b = v THEN "value" ELSE holder[b],
           \A b \in Dict : DOMAIN entries'[b] = IF b \in dead THEN {}
                               ELSE IF b = d THEN DOMAIN entries[d] \cup {k} ELSE DOMAIN entries[b],
           \A b \in Dict : \A j \in DOMAIN entries'[b] :
               entries'[b][j] = IF b = d /\ j = k THEN v ELSE entries[b][j]
    PROVE  NestedProperly'
<1> USE DEF NestedProperly
<1>1. /\ d \in Dict /\ holder[d] # "none"
      /\ v \in Dict => holder[v] = "none" /\ holder[d] # "value"
    BY ContainersAssumption DEF Alive, Storable, Unused
<1>2. ASSUME NEW b \in dead PROVE b # d /\ b # v /\ holder[b] = "value" /\ holder[d] \in {"object", "stamp"}
    BY <1>1 DEF ValuesAreValues
<1>3. v # d
    BY <1>1
<1>4. FreshIsEmpty'
    BY <1>1 DEF FreshIsEmpty, Unused, Alive
<1>5. ValuesAreValues'
    <2>1. SUFFICES ASSUME NEW e \in Dict, NEW j \in DOMAIN entries'[e], entries'[e][j] \in Dict
                   PROVE  holder'[entries'[e][j]] = "value" /\ holder'[e] \in {"object", "stamp"}
        BY DEF ValuesAreValues
    <2>2. e \notin dead
        BY <2>1
    <2>3. CASE e = d /\ j = k
        <3>1. v \in Dict /\ entries'[e][j] = v
            BY <2>1, <2>3
        <3>2. holder[d] \in {"object", "stamp"}
            BY <1>1, <3>1 DEF TypeOK
        <3>3. QED
            BY <1>2, <1>3, <2>2, <2>3, <3>1, <3>2
    <2>4. CASE ~(e = d /\ j = k)
        <3>1. j \in DOMAIN entries[e] /\ entries'[e][j] = entries[e][j]
            BY <2>1, <2>2, <2>4
        <3>2. holder[entries[e][j]] = "value" /\ holder[e] \in {"object", "stamp"}
            BY <2>1, <3>1 DEF ValuesAreValues
        <3>3. entries[e][j] \notin dead
            BY <1>1, <2>1, <2>4, <3>1 DEF PlacesDiffer
        <3>4. e # v /\ entries[e][j] # v
            BY <1>1, <2>1, <3>1, <3>2
        <3>5. QED
            BY <2>1, <2>2, <3>1, <3>2, <3>3, <3>4
    <2>5. QED
        BY <2>3, <2>4
<1>6. ValuesHavePlaces'
    <2>1. SUFFICES ASSUME NEW w \in Dict, holder'[w] = "value"
                   PROVE  \E b \in Dict : \E j \in DOMAIN entries'[b] : entries'[b][j] = w
        BY DEF ValuesHavePlaces
    <2>2. CASE w = v
        <3>1. k \in DOMAIN entries'[d] /\ entries'[d][k] = w
            BY <1>1, <1>2, <2>2
        <3>2. QED
            BY <1>1, <3>1
    <2>3. CASE w # v
        <3>1. w \notin dead /\ holder[w] = "value"
            BY <2>1, <2>3
        <3>2. PICK b \in Dict : \E j \in DOMAIN entries[b] : entries[b][j] = w
            BY <3>1 DEF ValuesHavePlaces
        <3>3. PICK j \in DOMAIN entries[b] : entries[b][j] = w
            BY <3>2
        <3>4. holder[b] \in {"object", "stamp"} /\ ~(b = d /\ j = k)
            BY <3>1, <3>3 DEF ValuesAreValues
        <3>5. b \notin dead
            BY <1>2, <3>4
        <3>6. j \in DOMAIN entries'[b] /\ entries'[b][j] = w
            BY <3>3, <3>4, <3>5
        <3>7. QED
            BY <3>6
    <2>4. QED
        BY <2>2, <2>3
<1>7. PlacesDiffer'
    <2>1. SUFFICES ASSUME NEW e \in Dict, NEW f \in Dict,
                          NEW i \in DOMAIN entries'[e], NEW j \in DOMAIN entries'[f],
                          entries'[e][i] = entries'[f][j], entries'[e][i] \in Dict
                   PROVE  e = f /\ i = j
        BY DEF PlacesDiffer
    <2>2. ASSUME NEW b \in Dict, NEW l \in DOMAIN entries'[b], ~(b = d /\ l = k),
                 entries'[b][l] \in Dict
          PROVE  /\ l \in DOMAIN entries[b] /\ entries'[b][l] = entries[b][l]
                 /\ entries[b][l] # v
        <3>1. l \in DOMAIN entries[b] /\ entries'[b][l] = entries[b][l]
            BY <2>2
        <3>2. holder[entries[b][l]] = "value"
            BY <2>2, <3>1 DEF ValuesAreValues
        <3>3. QED
            BY <1>1, <2>2, <3>1, <3>2
    <2>3. ASSUME NEW l \in DOMAIN entries'[d], l = k PROVE entries'[d][l] = v
        BY <1>1, <2>3
    <2>4. CASE e = d /\ i = k
        BY <2>1, <2>2, <2>3, <2>4
    <2>5. CASE f = d /\ j = k
        BY <2>1, <2>2, <2>3, <2>5
    <2>6. CASE ~(e = d /\ i = k) /\ ~(f = d /\ j = k)
        BY <2>1, <2>2, <2>6 DEF PlacesDiffer
    <2>7. QED
        BY <2>4, <2>5, <2>6
<1>8. QED
    BY <1>4, <1>5, <1>6, <1>7

--------------------------------------------------------------------------------
(* The steps.                                                                  *)

\* Every step of a client keeps what is sound, and accepts nothing that was refused.
LEMMA CreateSound ==
    ASSUME Sound, NEW d \in Dict, Create(d)
    PROVE  Sound' /\ RefusedStay
<1> USE ContainersAssumption DEF Sound
<1>1. /\ d \in Dict /\ holder[d] = "none" /\ TypeOK
      /\ holder' = [holder EXCEPT ![d] = "object"]
      /\ UNCHANGED <<entries, mark, stamp, cursor>>
    BY DEF Create, Unused, Alive, Pointed
<1>2. Pointed'
    <2>1. TypeOK' /\ CountsTell'
        BY <1>1 DEF TypeOK, Pointed, CountsTell
    <2>2. StampsAgree'
        BY <1>1 DEF TypeOK, Pointed, StampsAgree, Alive, Usable
    <2>3. OwnedWhileNamed'
        BY <1>1 DEF TypeOK, Pointed, OwnedWhileNamed
    <2>4. QED
        BY <2>1, <2>2, <2>3 DEF Pointed
<1>3. Followed' /\ RefusedStay
    BY <1>1 DEF Followed, RefusedStay, Following, Accepted, Usable
<1>4. NestedProperly'
    <2>1. \A b \in Dict : holder'[b] = IF b = d THEN "object" ELSE holder[b]
        BY <1>1 DEF TypeOK
    <2>2. FreshIsEmpty'
        BY <1>1, <2>1 DEF NestedProperly, FreshIsEmpty, Unused, Alive
    <2>3. ValuesAreValues'
        BY <1>1, <2>1 DEF NestedProperly, ValuesAreValues
    <2>4. ValuesHavePlaces' /\ PlacesDiffer'
        BY <1>1, <2>1 DEF NestedProperly, ValuesHavePlaces, PlacesDiffer
    <2>5. QED
        BY <2>2, <2>3, <2>4 DEF NestedProperly
<1>5. QED
    BY <1>2, <1>3, <1>4

\* What Change does, dictionary by dictionary.
LEMMA ChangeMeans ==
    ASSUME NEW maps \in [Dict -> Maps], NEW changed \in SUBSET Dict,
           NEW dead \in SUBSET Dict, NEW born \in SUBSET Dict, NEW lost,
           Change(maps, changed, dead, born, lost)
    PROVE  /\ \A b \in Dict : holder'[b] = IF b \in dead THEN "none"
                                           ELSE IF b \in born THEN "value" ELSE holder[b]
           /\ \A b \in Dict : entries'[b] = IF b \in dead THEN Empty ELSE maps[b]
    BY DEF Change, Held

LEMMA DestroySound ==
    ASSUME Sound, NEW d \in Dict, Destroy(d)
    PROVE  Sound' /\ RefusedStay
<1> USE ContainersAssumption DEF Sound
<1> DEFINE dead == {d} \cup Nested(entries[d])
<1>1. /\ entries \in [Dict -> Maps] /\ dead \in SUBSET Dict /\ holder[d] \in {"object", "stamp"}
      /\ Change(entries, {}, dead, {}, {})
    BY DEF Destroy, Nested, Pointed, TypeOK
<1>2. \A b \in Dict : b \in dead <=> b = d \/ \E k \in DOMAIN entries[d] : entries[d][k] = b
    BY DEF Nested
<1> HIDE DEF dead
<1>3. Pointed' /\ Followed' /\ RefusedStay
    BY <1>1, ChangePointed, ChangeFollowed
<1>4. NestedProperly'
    <2>1. \A b \in Dict : /\ holder'[b] = IF b \in dead THEN "none" ELSE holder[b]
                          /\ entries'[b] = IF b \in dead THEN Empty ELSE entries[b]
        BY <1>1, ChangeMeans
    <2>2. ASSUME NEW b \in Dict, NEW k \in DOMAIN entries[b], entries[b][k] \in Dict
          PROVE  entries[b][k] \in dead <=> b \in dead
        <3>1. holder[entries[b][k]] = "value" /\ holder[b] \in {"object", "stamp"}
            BY <2>2 DEF NestedProperly, ValuesAreValues
        <3>2. b \in dead => b = d
            BY <1>2, <3>1 DEF NestedProperly, ValuesAreValues
        <3>3. entries[b][k] \in dead => b = d
            BY <1>1, <1>2, <2>2, <3>1 DEF NestedProperly, PlacesDiffer
        <3>4. QED
            BY <1>2, <2>2, <3>2, <3>3
    <2>3. QED
        BY <1>1, <2>1, <2>2, EmptyIsMap, RemovalNested
<1>5. QED
    BY <1>3, <1>4

LEMMA ClearSound ==
    ASSUME Sound, NEW d \in Dict, Clear(d)
    PROVE  Sound' /\ RefusedStay
<1> USE ContainersAssumption DEF Sound
<1> DEFINE dead == Nested(entries[d])
           lost == {d} \X DOMAIN entries[d]
           maps == [entries EXCEPT ![d] = Empty]
<1>1. /\ entries \in [Dict -> Maps] /\ dead \in SUBSET Dict /\ d \in Alive
      /\ DOMAIN entries[d] \subseteq Key
      /\ Change(maps, {d}, dead, {}, lost)
    BY MapsMean DEF Clear, Nested, Pointed, TypeOK
<1>2. \A b \in Dict : b \in dead <=> \E k \in DOMAIN entries[d] : entries[d][k] = b
    BY DEF Nested
<1>3. lost \in SUBSET ({d} \X Places)
    BY <1>1 DEF Places
<1>4. /\ maps \in [Dict -> Maps]
      /\ \A b \in Dict : maps[b] = IF b = d THEN Empty ELSE entries[b]
    BY <1>1, EmptyIsMap
<1> HIDE DEF dead, lost, maps
<1>5. Pointed'
    BY <1>1, <1>4, ChangePointed
<1>6. Followed' /\ RefusedStay
    BY <1>1, <1>3, <1>4, ChangeFollowed
<1>7. NestedProperly'
    <2>1. \A b \in Dict : /\ holder'[b] = IF b \in dead THEN "none" ELSE holder[b]
                          /\ entries'[b] = IF b \in dead THEN Empty ELSE maps[b]
        BY <1>1, <1>4, ChangeMeans
    <2>2. ASSUME NEW b \in Dict, NEW k \in DOMAIN entries[b], entries[b][k] \in Dict
          PROVE  entries[b][k] \in dead <=> b = d
        BY <1>2, <2>2 DEF NestedProperly, PlacesDiffer
    <2>3. ASSUME NEW b \in dead, NEW k \in DOMAIN entries[b]
          PROVE  entries[b][k] \notin Dict
        BY <1>1, <1>2, <2>3 DEF NestedProperly, ValuesAreValues
    <2>4. QED
        BY <1>1, <1>4, <2>1, <2>2, <2>3, EmptyIsMap, RemovalNested
<1>8. QED
    BY <1>5, <1>6, <1>7

LEMMA EraseSound ==
    ASSUME Sound, NEW d \in Dict, NEW k \in Key, EraseKey(d, k)
    PROVE  Sound' /\ RefusedStay
<1> USE ContainersAssumption DEF Sound
<1> DEFINE dead == IF k \in DOMAIN entries[d] THEN {entries[d][k]} \cap Dict ELSE {}
           maps == [entries EXCEPT ![d] = Without(@, k)]
<1>1. /\ entries \in [Dict -> Maps] /\ dead \in SUBSET Dict /\ d \in Alive
      /\ Change(maps, {d}, dead, {}, {<<d, k>>})
    BY DEF EraseKey, Pointed, TypeOK
<1>2. \A b \in Dict : b \in dead <=> k \in DOMAIN entries[d] /\ entries[d][k] = b
    OBVIOUS
<1>3. {<<d, k>>} \in SUBSET ({d} \X Places)
    BY DEF Places
<1>4. /\ maps \in [Dict -> Maps]
      /\ \A b \in Dict : maps[b] = IF b = d THEN Without(entries[d], k) ELSE entries[b]
    BY <1>1, WithoutIsMap
<1> HIDE DEF dead, maps
<1>5. Pointed'
    BY <1>1, <1>4, ChangePointed
<1>6. Followed' /\ RefusedStay
    BY <1>1, <1>3, <1>4, ChangeFollowed
<1>7. NestedProperly'
    <2>1. \A b \in Dict : /\ holder'[b] = IF b \in dead THEN "none" ELSE holder[b]
                          /\ entries'[b] = IF b \in dead THEN Empty ELSE maps[b]
        BY <1>1, <1>4, ChangeMeans
    <2>2. /\ DOMAIN Without(entries[d], k) = DOMAIN entries[d] \ {k}
          /\ \A j \in DOMAIN entries[d] \ {k} : Without(entries[d], k)[j] = entries[d][j]
        BY <1>1, WithoutIsMap
    <2>3. ASSUME NEW b \in Dict, NEW j \in DOMAIN entries[b], entries[b][j] \in Dict
          PROVE  entries[b][j] \in dead <=> b = d /\ j = k
        BY <1>2, <2>3 DEF NestedProperly, PlacesDiffer
    <2>4. ASSUME NEW b \in dead, NEW j \in DOMAIN entries[b]
          PROVE  entries[b][j] \notin Dict
        BY <1>1, <1>2, <2>4 DEF NestedProperly, ValuesAreValues
    <2>5. d \notin dead
        BY <1>1, <1>2 DEF NestedProperly, ValuesAreValues
    <2>6. \A b \in Dict : /\ DOMAIN entries'[b] = IF b \in dead THEN {}
                                 ELSE IF b = d THEN DOMAIN entries[d] \ {k} ELSE DOMAIN entries[b]
                          /\ \A j \in DOMAIN entries'[b] : entries'[b][j] = entries[b][j]
        BY <1>4, <2>1, <2>2, EmptyIsMap
    <2>7. QED
        <3>1. \A b \in Dict : holder'[b] = IF b \in dead THEN "none" ELSE holder[b]
            BY <2>1
        <3>2. \A b \in dead : DOMAIN entries'[b] = {}
            BY <1>1, <2>6
        <3>3. \A b \in Dict : /\ DOMAIN entries'[b] \subseteq DOMAIN entries[b]
                              /\ \A j \in DOMAIN entries'[b] : entries'[b][j] = entries[b][j]
            BY <2>6
        <3>4. ASSUME NEW b \in Dict, NEW j \in DOMAIN entries[b], entries[b][j] \in Dict
              PROVE  entries[b][j] \in dead <=> j \notin DOMAIN entries'[b]
            BY <2>3, <2>4, <2>5, <2>6, <3>4
        <3>5. QED
            BY <1>1, <3>1, <3>2, <3>3, <3>4, RemovalNested
<1>8. QED
    BY <1>5, <1>6, <1>7

\* Insert and Store differ in what was there before.
LEMMA PutSound ==
    ASSUME Sound, NEW d \in Dict, NEW k \in Key, NEW v \in Datum \cup Dict,
           Insert(d, k, v) \/ Store(d, k, v)
    PROVE  Sound' /\ RefusedStay
<1> USE ContainersAssumption DEF Sound
<1> DEFINE dead == IF k \in DOMAIN entries[d] THEN {entries[d][k]} \cap Dict ELSE {}
           born == {v} \cap Dict
           maps == [entries EXCEPT ![d] = Put(@, k, v)]
<1>1. /\ entries \in [Dict -> Maps] /\ dead \in SUBSET Dict /\ d \in Alive
      /\ v \in Storable(d) /\ TypeOK
      /\ Change(maps, {}, dead, born, {})
    BY DEF Insert, Store, Pointed, TypeOK
<1>2. /\ \A b \in Dict : b \in dead <=> k \in DOMAIN entries[d] /\ entries[d][k] = b
      /\ \A b \in Dict : b \in born <=> b = v
    OBVIOUS
<1>3. born \in SUBSET Unused
    BY <1>1 DEF Storable
<1>4. /\ maps \in [Dict -> Maps]
      /\ \A b \in Dict : maps[b] = IF b = d THEN Put(entries[d], k, v) ELSE entries[b]
    BY <1>1, PutIsMap
<1>5. /\ DOMAIN Put(entries[d], k, v) = DOMAIN entries[d] \cup {k}
      /\ \A j \in DOMAIN entries[d] \cup {k} :
            Put(entries[d], k, v)[j] = IF j = k THEN v ELSE entries[d][j]
    BY <1>1, PutIsMap
<1> HIDE DEF dead, maps, born
<1>6. Pointed'
    BY <1>1, <1>3, <1>4, ChangePointed
<1>7. Followed' /\ RefusedStay
    <2>1. \A b \in Dict : DOMAIN entries[b] \subseteq DOMAIN maps[b]
        BY <1>4, <1>5
    <2>2. QED
        BY <1>1, <1>3, <1>4, <2>1, ChangeFollowed
<1>8. NestedProperly'
    <2>1. \A b \in Dict : /\ holder'[b] = IF b \in dead THEN "none"
                                          ELSE IF b = v THEN "value" ELSE holder[b]
                          /\ entries'[b] = IF b \in dead THEN Empty ELSE maps[b]
        <3>1. born \in SUBSET Dict
            BY <1>3 DEF Unused
        <3>2. QED
            BY <1>1, <1>2, <1>4, <3>1, ChangeMeans
    <2>2. ASSUME NEW b \in Dict
          PROVE  /\ DOMAIN entries'[b] = IF b \in dead THEN {}
                        ELSE IF b = d THEN DOMAIN entries[d] \cup {k} ELSE DOMAIN entries[b]
                 /\ \A j \in DOMAIN entries'[b] :
                        entries'[b][j] = IF b = d /\ j = k THEN v ELSE entries[b][j]
        <3>1. CASE b \in dead
            BY <2>1, <3>1, EmptyIsMap
        <3>2. CASE b \notin dead /\ b = d
            BY <1>4, <1>5, <2>1, <3>2
        <3>3. CASE b \notin dead /\ b # d
            BY <1>4, <2>1, <3>3
        <3>4. QED
            BY <3>1, <3>2, <3>3
    <2>3. /\ \A b \in Dict : holder'[b] = IF b \in dead THEN "none"
                                          ELSE IF b = v THEN "value" ELSE holder[b]
          /\ \A b \in Dict : DOMAIN entries'[b] = IF b \in dead THEN {}
                 ELSE IF b = d THEN DOMAIN entries[d] \cup {k} ELSE DOMAIN entries[b]
          /\ \A b \in Dict : \A j \in DOMAIN entries'[b] :
                 entries'[b][j] = IF b = d /\ j = k THEN v ELSE entries[b][j]
        BY <2>1, <2>2, Zenon
    <2>4. /\ TypeOK /\ NestedProperly /\ d \in Alive /\ v \in Storable(d) /\ dead \in SUBSET Dict
          /\ \A b \in Dict : b \in dead <=> k \in DOMAIN entries[d] /\ entries[d][k] = b
        BY <1>1, <1>2
    <2>5. QED
        BY ONLY <2>3, <2>4, k \in Key, PutNested
<1>9. QED
    BY <1>6, <1>7, <1>8

LEMMA AssignSound ==
    ASSUME Sound, NEW d \in Dict, NEW e \in Dict, NEW moving \in BOOLEAN, Assign(d, e, moving)
    PROVE  Sound' /\ RefusedStay
<1> USE ContainersAssumption DEF Sound
<1> DEFINE changed == IF moving THEN {d, e} ELSE {d}
           dead == Nested(entries[d])
           lost == {d} \X DOMAIN entries[d]
           born(new) == {new[x] : x \in DOMAIN new}
<1>1. /\ TypeOK /\ entries \in [Dict -> Maps] /\ DOMAIN entries[d] \subseteq Key
      /\ holder[d] \in {"object", "stamp"} /\ holder[e] \in {"object", "stamp"} /\ d # e
    BY MapsMean DEF Assign, Pointed, TypeOK, Alive
<1>2. PICK new \in [Nested(entries[e]) -> Unused], maps \in [Dict -> Maps] :
          Copies(new, maps, d, e, moving)
    BY <1>1, AssignMeans
<1>2a. /\ \A x, y \in DOMAIN new : new[x] = new[y] => x = y
       /\ DOMAIN maps[d] = DOMAIN entries[e]
       /\ \A k \in DOMAIN entries[e] :
            maps[d][k] = IF entries[e][k] \in Dict THEN new[entries[e][k]] ELSE entries[e][k]
       /\ \A x \in DOMAIN new : maps[new[x]] = entries[x]
       /\ \A b \in Dict \ {d} : (\A x \in DOMAIN new : new[x] # b) => maps[b] = entries[b]
       /\ Change(maps, changed, dead, born(new), lost)
    BY <1>2, Zenon DEF Copies
<1> DEFINE B == born(new)
<1>3. /\ \A b \in Dict : b \in dead <=> \E k \in DOMAIN entries[d] : entries[d][k] = b
      /\ dead \in SUBSET Dict
    BY DEF Nested
<1>4. /\ \A b \in Dict : b \in B <=> \E k \in DOMAIN entries[e] :
                             entries[e][k] \in Dict /\ new[entries[e][k]] = b
      /\ B \in SUBSET Unused
      /\ \A x \in DOMAIN new : new[x] \in B
    BY <1>2, <1>2a DEF Nested
<1>5. \A b \in Dict : b \in B <=> \E x \in DOMAIN new : new[x] = b
    BY <1>2, <1>2a
<1>6. \A x : x \in DOMAIN new <=> x \in Dict /\ \E k \in DOMAIN entries[e] : entries[e][k] = x
    BY <1>2, <1>2a DEF Nested
<1>7. /\ changed \in SUBSET Dict /\ d \in changed
      /\ lost \in SUBSET (changed \X Places)
    BY <1>1 DEF Places
<1>8. Change(maps, changed, dead, B, lost)
    BY <1>2a
<1> HIDE DEF changed, dead, lost, born, B
<1>9. ASSUME NEW b \in B PROVE b # d /\ b # e /\ b \notin dead /\ holder[b] = "none"
                               /\ DOMAIN entries[b] = {} /\ b \in Dict
    <2>1. b \in Dict /\ holder[b] = "none"
        BY <1>4 DEF Unused, Alive
    <2>2. DOMAIN entries[b] = {}
        BY <1>4 DEF NestedProperly, FreshIsEmpty
    <2>3. b \notin dead
        BY <1>3, <2>1 DEF NestedProperly, ValuesAreValues
    <2>4. QED
        BY <1>1, <2>1, <2>2, <2>3
<1>10. Pointed'
    BY <1>2, <1>2a, <1>3, <1>4, <1>7, <1>8, ChangePointed
<1>11. Followed' /\ RefusedStay
    <2>1. ASSUME NEW b \in Dict \ changed, b \notin dead
          PROVE  DOMAIN entries[b] \subseteq DOMAIN maps[b]
        <3>1. CASE b \in B
            BY <1>9, <3>1
        <3>2. CASE b \notin B
            BY <1>2, <1>2a, <1>5, <1>7, <2>1, <3>2
        <3>3. QED
            BY <3>1, <3>2
    <2>2. QED
        BY <1>2, <1>2a, <1>3, <1>4, <1>7, <1>8, <2>1, ChangeFollowed
<1>12. \A b \in Dict : /\ holder'[b] = IF b \in dead THEN "none"
                                       ELSE IF b \in B THEN "value" ELSE holder[b]
                       /\ entries'[b] = IF b \in dead THEN Empty ELSE maps[b]
    <2>1. B \in SUBSET Dict
        BY <1>9
    <2>2. QED
        BY <1>2, <1>2a, <1>3, <1>7, <1>8, <2>1, ChangeMeans
<1>13. d \notin dead /\ d \notin B
    BY <1>1, <1>3, <1>9 DEF NestedProperly, ValuesAreValues
\* the source's values that are dictionaries have no dictionaries in them
<1>14. ASSUME NEW b \in B, NEW k \in DOMAIN maps[b] PROVE maps[b][k] \notin Dict
    <2>1. PICK x \in DOMAIN new : new[x] = b
        BY <1>5, <1>9
    <2>2. maps[b] = entries[x] /\ x \in Dict
        BY <1>2, <1>2a, <1>6, <2>1
    <2>3. holder[x] = "value"
        BY <1>6, <2>1, <2>2 DEF NestedProperly, ValuesAreValues
    <2>4. QED
        BY <1>14, <2>2, <2>3 DEF NestedProperly, ValuesAreValues
\* where the dictionaries are after the step
<1>15. ASSUME NEW b \in Dict, NEW k \in DOMAIN entries'[b], entries'[b][k] \in Dict
       PROVE  \/ /\ b = d /\ k \in DOMAIN entries[e] /\ entries[e][k] \in Dict
                 /\ entries[e][k] \in DOMAIN new
                 /\ entries'[b][k] = new[entries[e][k]] /\ entries'[b][k] \in B
              \/ /\ b # d /\ b \notin dead /\ b \notin B
                 /\ k \in DOMAIN entries[b] /\ entries'[b][k] = entries[b][k]
                 /\ entries'[b][k] \notin B
    <2>1. b \notin dead /\ entries'[b] = maps[b]
        BY <1>12, <1>15, EmptyIsMap
    <2>2. CASE b = d
        <3>1. k \in DOMAIN entries[e]
            BY <1>2, <1>2a, <1>15, <2>1, <2>2
        <3>2. entries[e][k] \in Dict
            BY <1>2, <1>2a, <1>15, <2>1, <2>2, <3>1
        <3>3. entries[e][k] \in DOMAIN new /\ entries'[b][k] = new[entries[e][k]]
            BY <1>2, <1>2a, <1>6, <2>1, <2>2, <3>1, <3>2
        <3>4. entries'[b][k] \in B
            BY <1>4, <3>3
        <3>5. QED
            BY <2>2, <3>1, <3>2, <3>3, <3>4
    <2>3. CASE b # d
        <3>1. b \notin B
            BY <1>14, <1>15, <2>1
        <3>2. maps[b] = entries[b]
            BY <1>2, <1>2a, <1>5, <2>3, <3>1
        <3>3. k \in DOMAIN entries[b] /\ entries'[b][k] = entries[b][k]
            BY <1>15, <2>1, <3>2
        <3>4. holder[entries[b][k]] = "value"
            BY <1>15, <3>3 DEF NestedProperly, ValuesAreValues
        <3>5. QED
            BY <1>9, <2>1, <2>3, <3>1, <3>3, <3>4
    <2>4. QED
        BY <2>2, <2>3
<1>16. FreshIsEmpty'
    <2>1. SUFFICES ASSUME NEW b \in Dict, holder'[b] = "none" PROVE DOMAIN entries'[b] = {}
        BY DEF FreshIsEmpty, Unused, Alive
    <2>2. CASE b \in dead
        BY <1>12, <2>2, EmptyIsMap
    <2>3. CASE b \notin dead
        <3>1. b \notin B /\ holder[b] = "none" /\ b # d
            BY <1>1, <1>12, <2>1, <2>3
        <3>2. entries'[b] = entries[b]
            BY <1>2, <1>2a, <1>5, <1>12, <2>3, <3>1
        <3>3. QED
            BY <3>1, <3>2 DEF NestedProperly, FreshIsEmpty, Unused, Alive
    <2>4. QED
        BY <2>2, <2>3
<1>17. ValuesAreValues'
    <2>1. SUFFICES ASSUME NEW b \in Dict, NEW k \in DOMAIN entries'[b], entries'[b][k] \in Dict
                   PROVE  holder'[entries'[b][k]] = "value" /\ holder'[b] \in {"object", "stamp"}
        BY DEF ValuesAreValues
    <2>2. CASE b = d
        <3>1. entries'[b][k] \in B
            BY <1>15, <2>1, <2>2
        <3>2. QED
            BY <1>1, <1>9, <1>12, <1>13, <2>1, <2>2, <3>1
    <2>3. CASE b # d
        <3>1. /\ b \notin dead /\ b \notin B
              /\ k \in DOMAIN entries[b] /\ entries'[b][k] = entries[b][k]
              /\ entries'[b][k] \notin B
            BY <1>15, <2>1, <2>3
        <3>2. holder[entries[b][k]] = "value" /\ holder[b] \in {"object", "stamp"}
            BY <2>1, <3>1 DEF NestedProperly, ValuesAreValues
        <3>3. entries[b][k] \notin dead
            BY <1>3, <2>1, <2>3, <3>1 DEF NestedProperly, PlacesDiffer
        <3>4. QED
            BY <1>12, <2>1, <3>1, <3>2, <3>3
    <2>4. QED
        BY <2>2, <2>3
<1>18. ValuesHavePlaces'
    <2>1. SUFFICES ASSUME NEW v \in Dict, holder'[v] = "value"
                   PROVE  \E b \in Dict : \E k \in DOMAIN entries'[b] : entries'[b][k] = v
        BY DEF ValuesHavePlaces
    <2>2. CASE v \in B
        <3>1. PICK k \in DOMAIN entries[e] : entries[e][k] \in Dict /\ new[entries[e][k]] = v
            BY <1>4, <2>2
        <3>2. entries'[d] = maps[d] /\ k \in DOMAIN maps[d] /\ maps[d][k] = v
            BY <1>2, <1>2a, <1>12, <1>13, <3>1
        <3>3. QED
            BY <3>2
    <2>3. CASE v \notin B
        <3>1. v \notin dead /\ holder[v] = "value"
            BY <1>12, <2>1, <2>3
        <3>2. PICK b \in Dict : \E k \in DOMAIN entries[b] : entries[b][k] = v
            BY <3>1 DEF NestedProperly, ValuesHavePlaces
        <3>3. PICK k \in DOMAIN entries[b] : entries[b][k] = v
            BY <3>2
        <3>4. b # d
            BY <1>3, <3>1, <3>3
        <3>5. holder[b] \in {"object", "stamp"}
            BY <3>3 DEF NestedProperly, ValuesAreValues
        <3>6. b \notin dead /\ b \notin B
            BY <1>3, <1>9, <3>5 DEF NestedProperly, ValuesAreValues
        <3>7. entries'[b] = entries[b]
            BY <1>2, <1>2a, <1>5, <1>12, <3>4, <3>6
        <3>8. QED
            BY <3>3, <3>7
    <2>4. QED
        BY <2>2, <2>3
<1>19. PlacesDiffer'
    <2>1. SUFFICES ASSUME NEW a \in Dict, NEW b \in Dict,
                          NEW j \in DOMAIN entries'[a], NEW k \in DOMAIN entries'[b],
                          entries'[a][j] = entries'[b][k], entries'[a][j] \in Dict
                   PROVE  a = b /\ j = k
        BY DEF PlacesDiffer
    <2>2. CASE a = d
        <3>1. b = d
            BY <1>15, <2>1, <2>2
        <3>2. /\ entries[e][j] \in DOMAIN new /\ entries[e][k] \in DOMAIN new
              /\ entries[e][j] \in Dict /\ j \in DOMAIN entries[e] /\ k \in DOMAIN entries[e]
              /\ new[entries[e][j]] = new[entries[e][k]]
            BY <1>15, <2>1, <2>2, <3>1
        <3>3. entries[e][j] = entries[e][k]
            BY <1>2, <1>2a, <3>2
        <3>4. QED
            BY <2>2, <3>1, <3>2, <3>3 DEF NestedProperly, PlacesDiffer
    <2>3. CASE a # d
        <3>1. b # d
            BY <1>15, <2>1, <2>3
        <3>2. /\ j \in DOMAIN entries[a] /\ k \in DOMAIN entries[b]
              /\ entries[a][j] = entries[b][k] /\ entries[a][j] \in Dict
            BY <1>15, <2>1, <2>3, <3>1
        <3>3. QED
            BY <3>2 DEF NestedProperly, PlacesDiffer
    <2>4. QED
        BY <2>2, <2>3
<1>20. QED
    BY <1>10, <1>11, <1>16, <1>17, <1>18, <1>19 DEF NestedProperly

\* Iterators follow their nodes into the other map; those at the end do not.
LEMMA ExchangedAfter ==
    ASSUME TypeOK, NEW d \in Dict, NEW e \in Dict, NEW c \in Cursor,
           NEW t, t = Exchanged(cursor, d, e)[c]
    PROVE  /\ t \in Iterator \cup {None}
           /\ cursor[c] = None <=> t = None
           /\ cursor[c] # None =>
                /\ t.stamp = cursor[c].stamp /\ t.start = cursor[c].start
                /\ t.owed = cursor[c].owed /\ t.at = cursor[c].at
                /\ cursor[c].in \notin {d, e} => t.in = cursor[c].in
<1> USE ContainersAssumption
<1>1. CASE cursor[c] = None
    BY <1>1 DEF Exchanged
<1>2. CASE cursor[c] # None
    <2> DEFINE i == cursor[c]
               there == CASE i.in = d -> e [] i.in = e -> d [] OTHER -> i.in
    <2>1. i \in Iterator
        BY <1>2 DEF TypeOK
    <2>2. t = IF i.at = End THEN i ELSE [i EXCEPT !.in = there]
        BY <1>2 DEF Exchanged
    <2>3. there \in Dict /\ (i.in \notin {d, e} => there = i.in)
        BY <2>1 DEF Iterator
    <2> HIDE DEF there
    <2>4. /\ t \in Iterator /\ t.stamp = i.stamp /\ t.start = i.start
          /\ t.owed = i.owed /\ t.at = i.at
          /\ i.in \notin {d, e} => t.in = i.in
        BY <2>1, <2>2, <2>3 DEF Iterator
    <2>5. QED
        BY <1>2, <2>4
<1>3. QED
    BY <1>1, <1>2

\* A proxy is bumped and names what it named.
LEMMA BumpedAfter ==
    ASSUME TypeOK, CountsTell, NEW changed \in SUBSET Dict, CanBump(changed),
           NEW s \in Stamp, NEW t, t = Mutate(stamp, changed)[s]
    PROVE  /\ t \in Proxy \cup {None}
           /\ stamp[s] = None <=> t = None
           /\ stamp[s] # None =>
                /\ t.owning = stamp[s].owning /\ t.dict = stamp[s].dict
                /\ t.count = IF stamp[s].dict \in changed THEN stamp[s].count + 1
                                                          ELSE stamp[s].count
<1> USE ContainersAssumption
<1>1. CASE stamp[s] = None
    BY <1>1 DEF Mutate
<1>2. CASE stamp[s] # None
    <2> DEFINE p == stamp[s]
    <2>1. p \in Proxy
        BY <1>2 DEF TypeOK
    <2>2. p.dict \in changed => p.count \in 1..(MaxCount - 1)
        BY <1>2, <2>1 DEF CanBump, CountsTell, Proxy, Counts
    <2>3. t = IF p.dict \in changed THEN Bumped(p) ELSE p
        BY <1>2 DEF Mutate
    <2>4. /\ t \in Proxy /\ t.dict = p.dict /\ t.owning = p.owning
          /\ t.count = IF p.dict \in changed THEN p.count + 1 ELSE p.count
        BY <2>1, <2>2, <2>3 DEF Proxy, Counts, Bumped
    <2>5. QED
        BY <1>2, <2>4
<1>3. QED
    BY <1>1, <1>2

\* Bumping changes no pointer.
LEMMA SameNames ==
    ASSUME TypeOK, StampsAgree, OwnedWhileNamed, holder' = holder, mark' = mark,
           \A s \in Stamp : /\ stamp[s] = None <=> stamp'[s] = None
                            /\ stamp[s] # None => /\ stamp'[s].owning = stamp[s].owning
                                                  /\ stamp'[s].dict = stamp[s].dict
    PROVE  StampsAgree' /\ OwnedWhileNamed'
<1>1. ASSUME NEW d \in Dict, mark'[d] # None
      PROVE  d \in Alive' /\ stamp'[mark'[d]] # None /\ stamp'[mark'[d]].dict = d
    <2>1. mark[d] \in Stamp /\ d \in Alive /\ stamp[mark[d]] # None /\ stamp[mark[d]].dict = d
        BY <1>1 DEF TypeOK, StampsAgree
    <2>2. QED
        BY <2>1 DEF Alive
<1>2. ASSUME NEW s \in Stamp, stamp'[s] # None, stamp'[s].dict # None
      PROVE  mark'[stamp'[s].dict] = s
    BY <1>2 DEF StampsAgree, Usable
<1>3. ASSUME NEW d \in Dict, NEW s \in Stamp
      PROVE  stamp'[s] # None /\ stamp'[s].dict = d /\ stamp'[s].owning
             <=> stamp[s] # None /\ stamp[s].dict = d /\ stamp[s].owning
    OBVIOUS
<1>4. QED
    BY <1>1, <1>2, <1>3 DEF StampsAgree, Usable, OwnedWhileNamed

LEMMA SwapSound ==
    ASSUME Sound, NEW d \in Dict, NEW e \in Dict, Swap(d, e)
    PROVE  Sound' /\ RefusedStay
<1> USE ContainersAssumption DEF Sound
<1>1. /\ TypeOK /\ CountsTell /\ StampsAgree /\ OwnedWhileNamed
      /\ d # e /\ CanBump({d, e})
      /\ holder[d] \in {"object", "stamp"} /\ holder[e] \in {"object", "stamp"}
      /\ entries \in [Dict -> Maps]
    BY DEF Swap, Pointed, TypeOK, Alive
<1>2. /\ entries' = [entries EXCEPT ![d] = entries[e], ![e] = entries[d]]
      /\ stamp' = Mutate(stamp, {d, e})
      /\ cursor' = Exchanged(cursor, d, e)
      /\ holder' = holder /\ mark' = mark
    BY DEF Swap
<1>3. ASSUME NEW s \in Stamp
      PROVE  /\ stamp'[s] \in Proxy \cup {None}
             /\ stamp[s] = None <=> stamp'[s] = None
             /\ stamp[s] # None =>
                  /\ stamp'[s].owning = stamp[s].owning /\ stamp'[s].dict = stamp[s].dict
                  /\ stamp'[s].count = IF stamp[s].dict \in {d, e} THEN stamp[s].count + 1
                                                                  ELSE stamp[s].count
    BY <1>1, <1>2, BumpedAfter
<1>4. ASSUME NEW c \in Cursor
      PROVE  /\ cursor'[c] \in Iterator \cup {None}
             /\ cursor[c] = None <=> cursor'[c] = None
             /\ cursor[c] # None =>
                /\ cursor'[c].stamp = cursor[c].stamp /\ cursor'[c].start = cursor[c].start
                /\ cursor'[c].owed = cursor[c].owed /\ cursor'[c].at = cursor[c].at
                /\ cursor[c].in \notin {d, e} => cursor'[c].in = cursor[c].in
    BY <1>1, <1>2, ExchangedAfter
<1>5. ASSUME NEW b \in Dict
      PROVE  entries'[b] = IF b = d THEN entries[e] ELSE IF b = e THEN entries[d] ELSE entries[b]
    BY <1>1, <1>2
<1>6. Pointed'
    <2>1. TypeOK'
        <3>1. stamp' \in [Stamp -> Proxy \cup {None}]
            BY <1>2, <1>3 DEF Mutate
        <3>2. cursor' \in [Cursor -> Iterator \cup {None}]
            BY <1>2, <1>4 DEF Exchanged
        <3>3. entries' \in [Dict -> Maps]
            BY <1>1, <1>2
        <3>4. QED
            BY <1>1, <1>2, <3>1, <3>2, <3>3 DEF TypeOK
    <2>2. CountsTell'
        <3>1. ASSUME NEW s \in Stamp, stamp[s] # None
              PROVE  stamp[s].count \in Counts /\ (stamp[s].dict \in {d, e} => stamp[s].dict # None)
            BY <1>1, <3>1 DEF TypeOK, Proxy
        <3>2. QED
            BY <1>1, <1>3, <3>1 DEF CountsTell, Counts
    <2>3. StampsAgree' /\ OwnedWhileNamed'
        BY <1>1, <1>2, <1>3, SameNames
    <2>4. QED
        BY <2>1, <2>2, <2>3 DEF Pointed
<1>7. Followed' /\ RefusedStay
    <2>1. ASSUME NEW c \in Cursor, cursor[c] # None
          PROVE  stamp[cursor[c].stamp] # None /\ cursor[c].stamp \in Stamp /\ cursor[c].in \in Dict
        BY <1>1, <2>1 DEF Followed, Following, TypeOK, Iterator
    <2>2. ASSUME NEW c \in Cursor, NEW s \in Stamp,
                 cursor'[c] # None, Accepted(c), cursor[c].stamp = s,
                 stamp'[s].dict = stamp[s].dict, stamp'[s].count = stamp[s].count
          PROVE  /\ cursor'[c].in = cursor[c].in /\ cursor'[c].at = cursor[c].at
                 /\ DOMAIN entries[cursor[c].in] \subseteq DOMAIN entries'[cursor[c].in]
        <3>1. cursor[c] # None /\ cursor[c].in = stamp[s].dict /\ stamp[s] # None
            BY <1>4, <2>2 DEF Followed, Following, Accepted, Usable
        <3>2. stamp[s].count \in Int
            BY <1>1, <3>1 DEF TypeOK, Proxy, Counts
        <3>3. cursor[c].in \notin {d, e}
            BY <1>3, <2>2, <3>1, <3>2
        <3>4. QED
            BY <1>4, <1>5, <2>1, <3>1, <3>3
    <2>3. TypeOK'
        BY <1>6 DEF Pointed
    <2>4. ASSUME NEW c \in Cursor, cursor'[c] # None
          PROVE  /\ cursor[c] # None
                 /\ cursor'[c].stamp = cursor[c].stamp /\ cursor'[c].start = cursor[c].start
                 /\ cursor'[c].owed = cursor[c].owed
                 /\ stamp'[cursor[c].stamp] # None
        BY <1>3, <1>4, <2>1, <2>4
    <2>5. QED
        BY <1>1, <1>3, <2>2, <2>3, <2>4, FollowedAfter
<1>8. NestedProperly'
    <2> DEFINE over(b) == IF b = d THEN e ELSE IF b = e THEN d ELSE b
    <2>1. \A b \in Dict : over(b) \in Dict /\ entries'[b] = entries[over(b)]
        BY <1>5
    <2>2. \A a, b \in Dict : over(a) = over(b) => a = b
        BY <1>1
    <2>3. \A b \in Dict : over(over(b)) = b
        BY <1>1
    <2>4. \A b \in Dict : b # over(b) =>
              holder[b] \in {"object", "stamp"} /\ holder[over(b)] \in {"object", "stamp"}
        BY <1>1
    <2> HIDE DEF over
    <2>5. FreshIsEmpty'
        BY <1>2, <2>1, <2>4 DEF NestedProperly, FreshIsEmpty, Unused, Alive
    <2>6. ValuesAreValues'
        <3>1. ASSUME NEW b \in Dict, NEW k \in DOMAIN entries'[b], entries'[b][k] \in Dict
              PROVE  holder[entries'[b][k]] = "value" /\ holder[b] \in {"object", "stamp"}
            <4>1. /\ over(b) \in Dict /\ k \in DOMAIN entries[over(b)]
                  /\ entries[over(b)][k] = entries'[b][k]
                BY <2>1, <3>1
            <4>2. holder[entries[over(b)][k]] = "value" /\ holder[over(b)] \in {"object", "stamp"}
                BY <3>1, <4>1 DEF NestedProperly, ValuesAreValues
            <4>3. QED
                BY <2>4, <4>1, <4>2
        <3>2. QED
            BY <1>2, <3>1 DEF ValuesAreValues
    <2>7. ValuesHavePlaces'
        <3>1. SUFFICES ASSUME NEW v \in Dict, holder[v] = "value"
                       PROVE  \E b \in Dict : \E k \in DOMAIN entries'[b] : entries'[b][k] = v
            BY <1>2 DEF ValuesHavePlaces
        <3>2. PICK b \in Dict : \E k \in DOMAIN entries[b] : entries[b][k] = v
            BY <3>1 DEF NestedProperly, ValuesHavePlaces
        <3>3. over(b) \in Dict /\ entries'[over(b)] = entries[b]
            BY <2>1, <2>3
        <3>4. QED
            BY <3>2, <3>3
    <2>8. PlacesDiffer'
        <3>1. SUFFICES ASSUME NEW a \in Dict, NEW b \in Dict,
                              NEW j \in DOMAIN entries'[a], NEW k \in DOMAIN entries'[b],
                              entries'[a][j] = entries'[b][k], entries'[a][j] \in Dict
                       PROVE  a = b /\ j = k
            BY DEF PlacesDiffer
        <3>2. over(a) = over(b) /\ j = k
            BY <2>1, <3>1 DEF NestedProperly, PlacesDiffer
        <3>3. QED
            BY <2>2, <3>2
    <2>9. QED
        BY <2>5, <2>6, <2>7, <2>8 DEF NestedProperly
<1>9. QED
    BY <1>6, <1>7, <1>8

\* A new proxy and a dictionary that had none name each other; it owns the
\* dictionary if the dictionary was made for it.
LEMMA ProxyMade ==
    ASSUME TypeOK, StampsAgree, OwnedWhileNamed,
           NEW s \in Stamp, stamp[s] = None, NEW d \in Dict, mark[d] = None,
           mark' = [mark EXCEPT ![d] = s],
           stamp'[s] # None, stamp'[s].dict = d,
           \A t \in Stamp \ {s} :
               /\ stamp[t] = None <=> stamp'[t] = None
               /\ stamp[t] # None => /\ stamp'[t].owning = stamp[t].owning
                                     /\ stamp'[t].dict = stamp[t].dict,
           \A b \in Dict \ {d} : holder'[b] = holder[b],
           holder'[d] # "none", holder'[d] = "stamp" <=> stamp'[s].owning
    PROVE  StampsAgree' /\ OwnedWhileNamed'
<1> USE ContainersAssumption
<1>1. \A b \in Dict : mark'[b] = IF b = d THEN s ELSE mark[b]
    BY DEF TypeOK
<1>2. ASSUME NEW t \in Stamp, stamp[t] # None PROVE stamp[t].dict # d
    BY <1>2 DEF StampsAgree, Usable
<1>3. ASSUME NEW b \in Dict, mark'[b] # None
      PROVE  b \in Alive' /\ stamp'[mark'[b]] # None /\ stamp'[mark'[b]].dict = b
    <2>1. CASE b = d
        BY <1>1, <2>1 DEF Alive
    <2>2. CASE b # d
        <3>1. mark'[b] = mark[b] /\ mark[b] \in Stamp /\ b \in Alive
              /\ stamp[mark[b]] # None /\ stamp[mark[b]].dict = b
            BY <1>1, <1>3, <2>2 DEF TypeOK, StampsAgree
        <3>2. mark[b] # s
            BY <3>1
        <3>3. QED
            BY <2>2, <3>1, <3>2 DEF Alive
    <2>3. QED
        BY <2>1, <2>2
<1>4. ASSUME NEW t \in Stamp, stamp'[t] # None, stamp'[t].dict # None
      PROVE  mark'[stamp'[t].dict] = t
    <2>1. CASE t = s
        BY <1>1, <2>1
    <2>2. CASE t # s
        <3>1. stamp[t] # None /\ stamp'[t].dict = stamp[t].dict /\ stamp[t].dict # d
            BY <1>2, <1>4, <2>2
        <3>2. mark[stamp[t].dict] = t
            BY <1>4, <3>1 DEF StampsAgree, Usable
        <3>3. stamp[t].dict \in Dict
            BY <1>4, <3>1 DEF TypeOK, Proxy
        <3>4. QED
            BY <1>1, <3>1, <3>2, <3>3
    <2>3. QED
        BY <2>1, <2>2
<1>5. ASSUME NEW b \in Dict
      PROVE  holder'[b] = "stamp" <=>
             \E t \in Stamp : stamp'[t] # None /\ stamp'[t].dict = b /\ stamp'[t].owning
    <2>1. CASE b = d
        <3>1. ASSUME NEW t \in Stamp, stamp'[t] # None, stamp'[t].dict = d PROVE t = s
            BY <1>2, <3>1
        <3>2. QED
            BY <2>1, <3>1
    <2>2. CASE b # d
        <3>1. ASSUME NEW t \in Stamp
              PROVE  stamp'[t] # None /\ stamp'[t].dict = b /\ stamp'[t].owning
                     <=> stamp[t] # None /\ stamp[t].dict = b /\ stamp[t].owning
            BY <2>2
        <3>2. QED
            BY <2>2, <3>1 DEF OwnedWhileNamed
    <2>3. QED
        BY <2>1, <2>2
<1>6. QED
    BY <1>3, <1>4, <1>5 DEF StampsAgree, Usable, OwnedWhileNamed

LEMMA NewProxySound ==
    ASSUME Sound, NEW s \in Stamp, NEW d \in Dict, NewProxy(s, d) \/ Reach(s, d)
    PROVE  Sound' /\ RefusedStay
<1> USE ContainersAssumption DEF Sound
<1> DEFINE p == [count |-> 1, dict |-> d, owning |-> IF d \in Unused THEN TRUE ELSE FALSE]
<1>1. /\ TypeOK /\ CountsTell /\ StampsAgree /\ OwnedWhileNamed
      /\ stamp[s] = None /\ mark[d] = None
      /\ mark' = [mark EXCEPT ![d] = s]
      /\ UNCHANGED <<entries, cursor>>
    <2>1. TypeOK /\ CountsTell /\ StampsAgree /\ OwnedWhileNamed
        BY DEF Pointed
    <2>2. CASE NewProxy(s, d)
        <3>1. d \in Dict /\ d \notin Alive
            BY <2>2 DEF NewProxy, Unused
        <3>2. mark[d] = None
            BY <2>1, <3>1 DEF StampsAgree
        <3>3. QED
            BY <2>1, <2>2, <3>2 DEF NewProxy
    <2>3. CASE Reach(s, d)
        BY <2>1, <2>3 DEF Reach
    <2>4. QED
        BY <2>2, <2>3
<1>2. /\ stamp' = [stamp EXCEPT ![s] = p]
      /\ holder' = IF d \in Unused THEN [holder EXCEPT ![d] = "stamp"] ELSE holder
    <2>1. CASE NewProxy(s, d)
        <3>1. d \in Unused /\ p = [count |-> 1, dict |-> d, owning |-> TRUE]
            BY <2>1 DEF NewProxy
        <3>2. QED
            BY <2>1, <3>1 DEF NewProxy
    <2>2. CASE Reach(s, d)
        <3>1. d \notin Unused
            BY <2>2 DEF Reach, Unused
        <3>2. p = [count |-> 1, dict |-> d, owning |-> FALSE]
            BY <3>1
        <3>3. QED
            BY <2>2, <3>1, <3>2 DEF Reach
    <2>3. QED
        BY <2>1, <2>2
<1>3. /\ p \in Proxy /\ p # None /\ p.dict = d /\ p.count = 1 /\ (p.owning <=> d \in Unused)
    <2>1. p \in Proxy
        BY DEF Proxy, Counts
    <2>2. p # None
        BY <2>1
    <2>3. QED
        BY <2>1, <2>2
<1> HIDE DEF p
<1>4. /\ stamp'[s] = p
      /\ \A t \in Stamp \ {s} : stamp'[t] = stamp[t]
    BY <1>1, <1>2 DEF TypeOK
<1>5. /\ \A b \in Dict \ {d} : holder'[b] = holder[b]
      /\ holder'[d] # "none"
      /\ holder'[d] = "stamp" <=> d \in Unused
      /\ holder' \in [Dict -> {"none", "object", "value", "stamp"}]
    <2>1. d \notin Unused => holder[d] # "none" /\ holder[d] # "stamp"
        BY <1>1 DEF OwnedWhileNamed, StampsAgree, Usable, Unused, Alive
    <2>2. QED
        BY <1>1, <1>2, <2>1 DEF TypeOK
<1>6. Pointed'
    <2>1. TypeOK'
        <3>1. stamp' \in [Stamp -> Proxy \cup {None}]
            BY <1>1, <1>2, <1>3 DEF TypeOK
        <3>2. QED
            BY <1>1, <1>5, <3>1 DEF TypeOK
    <2>2. CountsTell'
        BY <1>1, <1>3, <1>4 DEF CountsTell
    <2>3. StampsAgree' /\ OwnedWhileNamed'
        BY <1>1, <1>3, <1>4, <1>5, ProxyMade
    <2>4. QED
        BY <2>1, <2>2, <2>3 DEF Pointed
<1>7. Followed' /\ RefusedStay
    <2>1. ASSUME NEW c \in Cursor, cursor[c] # None
          PROVE  cursor[c].stamp \in Stamp /\ cursor[c].stamp # s
        BY <1>1, <2>1 DEF Followed, Following, TypeOK, Iterator
    <2>2. QED
        BY <1>1, <1>4, <2>1 DEF Followed, RefusedStay, Following, Accepted, Usable
<1>8. NestedProperly'
    <2>1. FreshIsEmpty'
        BY <1>1, <1>5 DEF NestedProperly, FreshIsEmpty, Unused, Alive
    <2>2. ValuesAreValues'
        <3>1. ASSUME NEW b \in Dict, NEW k \in DOMAIN entries[b], entries[b][k] \in Dict
              PROVE  holder'[entries[b][k]] = "value" /\ holder'[b] \in {"object", "stamp"}
            <4>1. holder[entries[b][k]] = "value" /\ holder[b] \in {"object", "stamp"}
                BY <3>1 DEF NestedProperly, ValuesAreValues
            <4>2. QED
                BY <1>1, <1>2, <1>5, <3>1, <4>1 DEF TypeOK, Unused, Alive
        <3>2. QED
            BY <1>1, <3>1 DEF ValuesAreValues
    <2>3. ValuesHavePlaces'
        <3>1. \A v \in Dict : holder'[v] = "value" => holder[v] = "value"
            BY <1>1, <1>2 DEF TypeOK
        <3>2. QED
            BY <1>1, <3>1 DEF NestedProperly, ValuesHavePlaces
    <2>4. PlacesDiffer'
        BY <1>1 DEF NestedProperly, PlacesDiffer
    <2>5. QED
        BY <2>1, <2>2, <2>3, <2>4 DEF NestedProperly
<1>9. QED
    BY <1>6, <1>7, <1>8

LEMMA HandOverSound ==
    ASSUME Sound, NEW s \in Stamp, NEW d \in Dict, NEW n \in Dict, HandOver(s, d, n)
    PROVE  Sound' /\ RefusedStay
<1> USE ContainersAssumption DEF Sound
<1> DEFINE p == Bumped([count |-> 1, dict |-> n, owning |-> TRUE])
<1>1. /\ TypeOK /\ CountsTell /\ StampsAgree /\ OwnedWhileNamed
      /\ stamp[s] = None /\ holder[n] = "none" /\ holder[d] = "object" /\ d # n
      /\ CanBump({d}) /\ entries \in [Dict -> Maps] /\ DOMAIN entries[n] = {}
    BY DEF HandOver, Pointed, TypeOK, Unused, Alive, NestedProperly, FreshIsEmpty
<1>2. mark[n] = None
    BY <1>1 DEF StampsAgree, Alive
<1>3. /\ stamp' = [Mutate(stamp, {d}) EXCEPT ![s] = p]
      /\ mark' = [mark EXCEPT ![n] = s]
      /\ holder' = [holder EXCEPT ![n] = "stamp"]
      /\ entries' = [entries EXCEPT ![n] = entries[d], ![d] = Empty]
      /\ cursor' = Exchanged(cursor, d, n)
    BY DEF HandOver
<1>4. p \in Proxy /\ p.count = 2 /\ p.dict = n /\ p.owning
    <2> DEFINE q == [count |-> 1, dict |-> n, owning |-> TRUE]
    <2>1. q \in Proxy /\ q.count = 1 /\ q.dict = n /\ q.owning
        BY DEF Proxy, Counts
    <2>2. p = Bumped(q) /\ 2 \in Counts
        BY DEF Counts
    <2> HIDE DEF p, q
    <2>3. QED
        BY <2>1, <2>2, BumpedIsProxy
<1>5. p # None
    BY <1>4
<1> HIDE DEF p
<1>6. ASSUME NEW t \in Stamp \ {s}
      PROVE  /\ stamp'[t] \in Proxy \cup {None}
             /\ stamp[t] = None <=> stamp'[t] = None
             /\ stamp[t] # None =>
                  /\ stamp'[t].owning = stamp[t].owning /\ stamp'[t].dict = stamp[t].dict
                  /\ stamp'[t].count = IF stamp[t].dict \in {d} THEN stamp[t].count + 1
                                                               ELSE stamp[t].count
    <2>1. stamp'[t] = Mutate(stamp, {d})[t]
        BY <1>3 DEF Mutate
    <2>2. {d} \in SUBSET Dict
        OBVIOUS
    <2>3. QED
        BY <1>1, <2>1, <2>2, BumpedAfter
<1>7. stamp'[s] = p
    BY <1>3 DEF Mutate
<1>8. ASSUME NEW c \in Cursor
      PROVE  /\ cursor'[c] \in Iterator \cup {None}
             /\ cursor[c] = None <=> cursor'[c] = None
             /\ cursor[c] # None =>
                /\ cursor'[c].stamp = cursor[c].stamp /\ cursor'[c].start = cursor[c].start
                /\ cursor'[c].owed = cursor[c].owed /\ cursor'[c].at = cursor[c].at
                /\ cursor[c].in \notin {d, n} => cursor'[c].in = cursor[c].in
    BY <1>1, <1>3, ExchangedAfter
<1>9. \A b \in Dict : /\ entries'[b] = IF b = n THEN entries[d] ELSE IF b = d THEN Empty
                                       ELSE entries[b]
                      /\ holder'[b] = IF b = n THEN "stamp" ELSE holder[b]
    BY <1>1, <1>3 DEF TypeOK
<1>10. Pointed'
    <2>1. TypeOK'
        <3>1. stamp' \in [Stamp -> Proxy \cup {None}]
            <4>1. \A t \in Stamp : stamp'[t] \in Proxy \cup {None}
                BY <1>4, <1>6, <1>7
            <4>2. QED
                BY <1>3, <4>1 DEF Mutate
        <3>2. cursor' \in [Cursor -> Iterator \cup {None}]
            BY <1>3, <1>8 DEF Exchanged
        <3>3. entries' \in [Dict -> Maps]
            BY <1>1, <1>3, EmptyIsMap
        <3>4. QED
            BY <1>1, <1>3, <3>1, <3>2, <3>3 DEF TypeOK
    <2>2. CountsTell'
        <3>1. ASSUME NEW t \in Stamp \ {s}, stamp'[t] # None
              PROVE  stamp'[t].dict = None <=> stamp'[t].count = -1
            <4>1. /\ stamp[t] # None /\ stamp[t].count \in Counts
                  /\ stamp[t].dict = None <=> stamp[t].count = -1
                BY <1>1, <1>6, <3>1 DEF TypeOK, Proxy, CountsTell
            <4>2. QED
                BY <1>6, <4>1 DEF Counts
        <3>2. QED
            BY <1>4, <1>7, <3>1 DEF CountsTell
    <2>3. StampsAgree' /\ OwnedWhileNamed'
        <3>1. /\ stamp'[s] # None /\ stamp'[s].dict = n /\ stamp'[s].owning
              /\ \A b \in Dict \ {n} : holder'[b] = holder[b]
              /\ holder'[n] = "stamp"
            BY <1>4, <1>5, <1>7, <1>9
        <3>2. holder'[n] # "none" /\ (holder'[n] = "stamp" <=> stamp'[s].owning)
            BY <3>1
        <3>3. \A t \in Stamp \ {s} :
                  /\ stamp[t] = None <=> stamp'[t] = None
                  /\ stamp[t] # None => /\ stamp'[t].owning = stamp[t].owning
                                        /\ stamp'[t].dict = stamp[t].dict
            BY <1>6
        <3>4. mark' = [mark EXCEPT ![n] = s]
            BY <1>3
        <3>5. QED
            BY ONLY <1>1, <1>2, <3>1, <3>2, <3>3, <3>4, s \in Stamp, n \in Dict, ProxyMade
    <2>4. QED
        BY <2>1, <2>2, <2>3 DEF Pointed
<1>11. Followed' /\ RefusedStay
    <2>1. ASSUME NEW c \in Cursor, cursor[c] # None
          PROVE  /\ stamp[cursor[c].stamp] # None /\ cursor[c].stamp \in Stamp \ {s}
                 /\ cursor[c].in \in Dict
        BY <1>1, <2>1 DEF Followed, Following, TypeOK, Iterator
    <2>2. ASSUME NEW c \in Cursor, NEW t \in Stamp,
                 cursor'[c] # None, Accepted(c), cursor[c].stamp = t,
                 stamp'[t].dict = stamp[t].dict, stamp'[t].count = stamp[t].count
          PROVE  /\ cursor'[c].in = cursor[c].in /\ cursor'[c].at = cursor[c].at
                 /\ DOMAIN entries[cursor[c].in] \subseteq DOMAIN entries'[cursor[c].in]
        <3>1. /\ cursor[c] # None /\ cursor[c].in = stamp[t].dict /\ stamp[t] # None
              /\ stamp[t].dict # None /\ t # s
            BY <1>1, <1>8, <2>2 DEF Followed, Following, Accepted, Usable
        <3>2. stamp[t].count \in Int
            BY <1>1, <3>1 DEF TypeOK, Proxy, Counts
        <3>3. cursor[c].in # d
            BY <1>6, <2>2, <3>1, <3>2
        <3>4. cursor[c].in # n
            BY <1>1, <1>2, <3>1 DEF StampsAgree, Usable
        <3>5. QED
            BY <1>8, <1>9, <2>1, <3>1, <3>3, <3>4
    <2>3. TypeOK'
        BY <1>10 DEF Pointed
    <2>4. ASSUME NEW c \in Cursor, cursor'[c] # None
          PROVE  /\ cursor[c] # None
                 /\ cursor'[c].stamp = cursor[c].stamp /\ cursor'[c].start = cursor[c].start
                 /\ cursor'[c].owed = cursor[c].owed
                 /\ stamp'[cursor[c].stamp] # None
        BY <1>6, <1>8, <2>1, <2>4
    <2>5. ASSUME NEW t \in Stamp, stamp[t] # None
          PROVE  /\ stamp'[t].dict = stamp[t].dict
                 /\ stamp'[t].count \in {stamp[t].count, stamp[t].count + 1}
        BY <1>1, <1>6, <2>5
    <2>6. QED
        BY <1>1, <2>2, <2>3, <2>4, <2>5, FollowedAfter
<1>12. NestedProperly'
    <2>1. ASSUME NEW b \in Dict, NEW k \in DOMAIN entries'[b]
          PROVE  \/ b = n /\ k \in DOMAIN entries[d] /\ entries'[b][k] = entries[d][k]
                 \/ b # n /\ b # d /\ k \in DOMAIN entries[b] /\ entries'[b][k] = entries[b][k]
        BY <1>9, <2>1, EmptyIsMap
    <2>2. FreshIsEmpty'
        BY <1>1, <1>9, EmptyIsMap DEF NestedProperly, FreshIsEmpty, Unused, Alive
    <2>3. ValuesAreValues'
        <3>1. ASSUME NEW b \in Dict, NEW k \in DOMAIN entries'[b], entries'[b][k] \in Dict
              PROVE  holder'[entries'[b][k]] = "value" /\ holder'[b] \in {"object", "stamp"}
            <4>1. holder[entries'[b][k]] = "value" /\ (b # n => holder[b] \in {"object", "stamp"})
                BY <2>1, <3>1 DEF NestedProperly, ValuesAreValues
            <4>2. QED
                BY <1>1, <1>9, <3>1, <4>1
        <3>2. QED
            BY <3>1 DEF ValuesAreValues
    <2>4. ValuesHavePlaces'
        <3>1. SUFFICES ASSUME NEW v \in Dict, holder'[v] = "value"
                       PROVE  \E b \in Dict : \E k \in DOMAIN entries'[b] : entries'[b][k] = v
            BY DEF ValuesHavePlaces
        <3>2. PICK b \in Dict : \E k \in DOMAIN entries[b] : entries[b][k] = v
            BY <1>9, <3>1 DEF NestedProperly, ValuesHavePlaces
        <3>3. b # n
            BY <1>1, <3>2
        <3>4. CASE b = d
            BY <1>9, <3>2, <3>4
        <3>5. CASE b # d
            BY <1>9, <3>2, <3>3, <3>5
        <3>6. QED
            BY <3>4, <3>5
    <2>5. PlacesDiffer'
        <3>1. SUFFICES ASSUME NEW a \in Dict, NEW b \in Dict,
                              NEW j \in DOMAIN entries'[a], NEW k \in DOMAIN entries'[b],
                              entries'[a][j] = entries'[b][k], entries'[a][j] \in Dict
                       PROVE  a = b /\ j = k
            BY DEF PlacesDiffer
        <3>2. QED
            BY <2>1, <3>1 DEF NestedProperly, PlacesDiffer
    <2>6. QED
        BY <2>2, <2>3, <2>4, <2>5 DEF NestedProperly
<1>13. QED
    BY <1>10, <1>11, <1>12

\* Nothing but iterators changes.
LEMMA OnlyCursors ==
    ASSUME Sound, UNCHANGED <<holder, entries, mark, stamp>>,
           cursor' \in [Cursor -> Iterator \cup {None}]
    PROVE  Pointed' /\ NestedProperly'
<1> USE DEF Sound
<1>1. TypeOK' /\ CountsTell'
    BY DEF Pointed, TypeOK, CountsTell
<1>2. StampsAgree' /\ OwnedWhileNamed'
    BY DEF Pointed, StampsAgree, OwnedWhileNamed, Alive, Usable
<1>3. FreshIsEmpty' /\ ValuesAreValues'
    BY DEF NestedProperly, FreshIsEmpty, ValuesAreValues, Unused, Alive
<1>4. ValuesHavePlaces' /\ PlacesDiffer'
    BY DEF NestedProperly, ValuesHavePlaces, PlacesDiffer
<1>5. QED
    BY <1>1, <1>2, <1>3, <1>4 DEF Pointed, NestedProperly

LEMMA IterateSound ==
    ASSUME Sound, NEW s \in Stamp, NEW c \in Cursor, Iterate(s, c)
    PROVE  Sound' /\ RefusedStay
<1> USE ContainersAssumption DEF Sound
<1> DEFINE keys == DOMAIN entries[stamp[s].dict]
           i == [stamp |-> s, in |-> stamp[s].dict, at |-> First(keys),
                 start |-> stamp[s].count, owed |-> keys]
<1>1. /\ TypeOK /\ stamp[s] # None /\ stamp[s].dict # None /\ cursor[c] = None
      /\ cursor' = [cursor EXCEPT ![c] = i]
      /\ UNCHANGED <<holder, entries, mark, stamp>>
    BY DEF Iterate, Usable, Pointed
<1>2. stamp[s].dict \in Dict /\ stamp[s].count \in Counts
    BY <1>1 DEF TypeOK, Proxy
<1>3. keys \in SUBSET Key
    BY <1>1, <1>2, MapsMean DEF TypeOK
<1>4. First(keys) \in keys \cup {End} /\ \A k \in keys : First(keys) # End /\ First(keys) <= k
    BY <1>3, FirstIsLeast DEF End
<1>5. /\ i \in Iterator /\ i.stamp = s /\ i.in = stamp[s].dict /\ i.at = First(keys)
      /\ i.start = stamp[s].count /\ i.owed = keys
    <2>1. First(keys) \in Places
        BY <1>3, <1>4 DEF Places
    <2> HIDE DEF keys
    <2>2. QED
        BY <1>2, <1>3, <2>1 DEF Iterator
<1> HIDE DEF i
<1>6. \A b \in Cursor : cursor'[b] = IF b = c THEN i ELSE cursor[b]
    BY <1>1 DEF TypeOK
<1>7. cursor' \in [Cursor -> Iterator \cup {None}]
    BY <1>1, <1>5 DEF TypeOK
<1>8. Followed'
    <2>1. Following(c)'
        BY <1>1, <1>2, <1>4, <1>5, <1>6 DEF Following, Counts
    <2>2. ASSUME NEW b \in Cursor, b # c, cursor[b] # None PROVE Following(b)'
        BY <1>1, <1>6, <2>2 DEF Followed, Following, Accepted, Usable
    <2>3. QED
        BY <1>6, <2>1, <2>2 DEF Followed
<1>9. RefusedStay
    BY <1>1, <1>6 DEF RefusedStay, Accepted, Usable
<1>10. QED
    BY <1>1, <1>7, <1>8, <1>9, OnlyCursors

LEMMA AdvanceSound ==
    ASSUME Sound, NEW c \in Cursor, Advance(c)
    PROVE  Sound' /\ RefusedStay
<1> USE ContainersAssumption DEF Sound
<1> DEFINE i == cursor[c]
           left == {j \in DOMAIN entries[i.in] : j > i.at}
           n == [i EXCEPT !.at = First(left), !.owed = @ \ {i.at}]
<1>1. /\ TypeOK /\ Accepted(c) /\ i # None /\ i.at \in Key
      /\ UNCHANGED <<holder, entries, mark, stamp>>
    BY DEF Advance, Accepted, Pointed
<1>1a. cursor' = [cursor EXCEPT ![c] = n]
    BY Zenon DEF Advance, After
<1>2. i \in Iterator /\ Following(c)
    BY <1>1 DEF TypeOK, Followed
<1>3. /\ i.in = stamp[i.stamp].dict /\ i.in \in Dict
      /\ \A k \in i.owed : k \in DOMAIN entries[i.in] /\ i.at <= k
    BY <1>1, <1>2 DEF Following, Iterator
<1>4. left \in SUBSET Key /\ left \in SUBSET DOMAIN entries[i.in]
    BY <1>1, <1>3, MapsMean DEF TypeOK
<1>5. First(left) \in left \cup {End} /\ \A k \in left : First(left) # End /\ First(left) <= k
    BY <1>4, FirstIsLeast DEF End
<1>6. /\ n \in Iterator /\ n.stamp = i.stamp /\ n.in = i.in /\ n.start = i.start
      /\ n.at = First(left) /\ n.owed = i.owed \ {i.at}
    <2>1. First(left) \in Places
        BY <1>4, <1>5 DEF Places
    <2> HIDE DEF left, i
    <2>2. QED
        BY <1>2, <2>1 DEF Iterator
<1>7. \A b \in Cursor : cursor'[b] = IF b = c THEN n ELSE cursor[b]
    <2> HIDE DEF n
    <2>1. QED
        BY <1>1, <1>1a DEF TypeOK
<1>8. ASSUME NEW k \in i.owed, k # i.at PROVE k \in left
    <2>1. k \in DOMAIN entries[i.in] /\ k \in Nat /\ i.at \in Nat /\ i.at <= k
        BY <1>1, <1>2, <1>3, <1>8 DEF Iterator
    <2>2. k > i.at
        BY <1>8, <2>1
    <2>3. QED
        BY <2>1, <2>2
<1>9. n # None
    BY <1>6
<1> HIDE DEF n
<1>10. cursor' \in [Cursor -> Iterator \cup {None}]
    BY <1>1, <1>1a, <1>6 DEF TypeOK
<1>11. Following(c)'
    <2>1. stamp'[n.stamp] # None /\ (stamp'[n.stamp].dict # None => n.start <= stamp'[n.stamp].count)
        BY <1>1, <1>2, <1>6 DEF Following
    <2>2. n.in = stamp'[n.stamp].dict
        BY <1>1, <1>3, <1>6
    <2>3. n.at \in DOMAIN entries'[n.in] \cup {End}
        BY <1>1, <1>4, <1>5, <1>6
    <2>4. \A k \in n.owed : k \in DOMAIN entries'[n.in] /\ n.at # End /\ n.at <= k
        BY <1>1, <1>4, <1>5, <1>6, <1>8
    <2>5. QED
        BY <1>7, <2>1, <2>2, <2>3, <2>4 DEF Following
<1>12. Followed'
    <2>1. ASSUME NEW b \in Cursor, b # c, cursor[b] # None PROVE Following(b)'
        BY <1>1, <1>7, <2>1 DEF Followed, Following, Accepted, Usable
    <2>2. QED
        BY <1>7, <1>11, <2>1 DEF Followed
<1>13. RefusedStay
    BY <1>1, <1>7 DEF RefusedStay, Accepted, Usable
<1>14. QED
    BY <1>1, <1>10, <1>12, <1>13, OnlyCursors

LEMMA DropSound ==
    ASSUME Sound, NEW c \in Cursor, Drop(c)
    PROVE  Sound' /\ RefusedStay
<1> USE DEF Sound
<1>1. /\ TypeOK /\ cursor' = [cursor EXCEPT ![c] = None]
      /\ UNCHANGED <<holder, entries, mark, stamp>>
    BY DEF Drop, Pointed
<1>2. \A b \in Cursor : cursor'[b] = IF b = c THEN None ELSE cursor[b]
    BY <1>1 DEF TypeOK
<1>3. cursor' \in [Cursor -> Iterator \cup {None}]
    BY <1>1 DEF TypeOK
<1>4. Followed'
    BY <1>1, <1>2 DEF Followed, Following, Accepted, Usable
<1>5. RefusedStay
    BY <1>1, <1>2 DEF RefusedStay, Accepted, Usable
<1>6. QED
    BY <1>1, <1>3, <1>4, <1>5, OnlyCursors

LEMMA ReleaseSound ==
    ASSUME Sound, NEW s \in Stamp, Release(s)
    PROVE  Sound' /\ RefusedStay
<1> USE ContainersAssumption DEF Sound
<1> DEFINE d == stamp[s].dict
           dead == IF Usable(s) /\ stamp[s].owning THEN {d} \cup Nested(entries[d]) ELSE {}
\* only a proxy's own dictionary dies, and what is in it
<1>1. /\ TypeOK /\ CountsTell /\ StampsAgree /\ OwnedWhileNamed
      /\ stamp[s] # None /\ d \in Dict \cup {None} /\ entries \in [Dict -> Maps]
      /\ \A c \in Cursor : cursor[c] # None => cursor[c].stamp # s
    BY DEF Release, Pointed, TypeOK, Proxy
<1>2. /\ stamp' = [Orphan(stamp, dead) EXCEPT ![s] = None]
      /\ mark' = Marked(mark, dead \cup {d})
      /\ entries' = [b \in Dict |-> IF b \in dead THEN Empty ELSE entries[b]]
      /\ holder' = Held(holder, dead, {})
      /\ cursor' = Strand(cursor, dead \X Places)
    BY Zenon DEF Release
<1>3. \/ dead = {} /\ (d = None \/ ~stamp[s].owning)
      \/ /\ d \in Dict /\ mark[d] = s /\ holder[d] = "stamp"
         /\ \A b \in Dict : b \in dead <=> b = d \/ \E k \in DOMAIN entries[d] : entries[d][k] = b
         /\ dead \in SUBSET Dict
    <2>1. CASE Usable(s) /\ stamp[s].owning
        <3>1. d \in Dict /\ mark[d] = s /\ holder[d] = "stamp"
            BY <1>1, <2>1 DEF Usable, StampsAgree, OwnedWhileNamed
        <3>2. dead = {d} \cup Nested(entries[d])
            BY <2>1
        <3> HIDE DEF dead
        <3>3. QED
            BY <3>1, <3>2 DEF Nested
    <2>2. CASE ~(Usable(s) /\ stamp[s].owning)
        BY <1>1, <2>2 DEF Usable
    <2>3. QED
        BY <2>1, <2>2
<1>4. dead \in SUBSET Dict
    BY <1>3
<1> HIDE DEF dead
<1>5. \A b \in Dict : /\ holder'[b] = IF b \in dead THEN "none" ELSE holder[b]
                      /\ entries'[b] = IF b \in dead THEN Empty ELSE entries[b]
                      /\ mark'[b] = IF b \in dead \/ b = d THEN None ELSE mark[b]
    BY <1>2 DEF Held, Marked
\* no other proxy names what dies: it would be the mark of it, and values that
\* die with their dictionary may have proxies that are told
<1>6. stamp'[s] = None
    BY <1>2 DEF Orphan
<1>7. ASSUME NEW t \in Stamp \ {s}
      PROVE  /\ stamp'[t] \in Proxy \cup {None}
             /\ stamp[t] = None <=> stamp'[t] = None
             /\ stamp[t] # None => stamp'[t].owning = stamp[t].owning
             /\ stamp[t] # None /\ stamp[t].dict \in dead =>
                    stamp'[t].count = -1 /\ stamp'[t].dict = None
             /\ stamp[t] # None /\ stamp[t].dict \notin dead =>
                    stamp'[t].dict = stamp[t].dict /\ stamp'[t].count = stamp[t].count
    <2>1. Mutate(stamp, {}) = stamp
        BY <1>1 DEF Mutate, TypeOK
    <2>2. stamp'[t] = Orphan(Mutate(stamp, {}), dead)[t]
        BY <1>2, <2>1 DEF Orphan
    <2>3. CanBump({}) /\ {} \in SUBSET Dict
        BY DEF CanBump
    <2>4. QED
        BY <1>1, <1>4, <2>2, <2>3, StampAfter
<1>8. ASSUME NEW c \in Cursor
      PROVE  /\ cursor'[c] \in Iterator \cup {None}
             /\ cursor[c] = None <=> cursor'[c] = None
             /\ cursor[c] # None =>
                /\ cursor'[c].stamp = cursor[c].stamp /\ cursor'[c].in = cursor[c].in
                /\ cursor'[c].start = cursor[c].start /\ cursor'[c].owed = cursor[c].owed
                /\ cursor'[c].at = IF <<cursor[c].in, cursor[c].at>> \in dead \X Places
                                   THEN Gone ELSE cursor[c].at
    <2>1. cursor'[c] = Strand(cursor, dead \X Places)[c]
        BY <1>2
    <2>2. QED
        BY <1>1, <2>1, StrandedAfter
<1>9. TypeOK'
    <2>1. stamp' \in [Stamp -> Proxy \cup {None}]
        <3>1. \A t \in Stamp : stamp'[t] \in Proxy \cup {None}
            BY <1>6, <1>7
        <3>2. QED
            BY <1>2, <3>1 DEF Orphan
    <2>2. cursor' \in [Cursor -> Iterator \cup {None}]
        BY <1>2, <1>8 DEF Strand
    <2>3. entries' \in [Dict -> Maps]
        BY <1>1, <1>2, EmptyIsMap
    <2>4. /\ holder' \in [Dict -> {"none", "object", "value", "stamp"}]
          /\ mark' \in [Dict -> Stamp \cup {None}]
        BY <1>1, <1>2 DEF TypeOK, Held, Marked
    <2>5. QED
        BY <2>1, <2>2, <2>3, <2>4 DEF TypeOK
<1>10. Pointed'
    <2>1. CountsTell'
        <3>1. ASSUME NEW t \in Stamp \ {s}, stamp'[t] # None
              PROVE  stamp'[t].dict = None <=> stamp'[t].count = -1
            BY <1>1, <1>7, <3>1 DEF CountsTell
        <3>2. QED
            BY <1>6, <3>1 DEF CountsTell
    <2>2. ASSUME NEW b \in Dict, mark'[b] # None
          PROVE  b \in Alive' /\ stamp'[mark'[b]] # None /\ stamp'[mark'[b]].dict = b
        <3>1. b \notin dead /\ b # d /\ mark'[b] = mark[b] /\ mark[b] # None /\ mark[b] \in Stamp
            BY <1>1, <1>5, <2>2 DEF TypeOK
        <3>2. b \in Alive /\ stamp[mark[b]] # None /\ stamp[mark[b]].dict = b
            BY <1>1, <3>1 DEF StampsAgree
        <3>3. mark[b] # s
            BY <3>1, <3>2
        <3>4. QED
            BY <1>5, <1>7, <3>1, <3>2, <3>3 DEF Alive
    <2>3. ASSUME NEW t \in Stamp, stamp'[t] # None, stamp'[t].dict # None
          PROVE  mark'[stamp'[t].dict] = t
        <3>1. /\ t # s /\ stamp[t] # None /\ stamp[t].dict \notin dead
              /\ stamp'[t].dict = stamp[t].dict
            BY <1>6, <1>7, <2>3
        <3>2. mark[stamp[t].dict] = t /\ stamp[t].dict \in Dict
            BY <1>1, <2>3, <3>1 DEF StampsAgree, Usable, TypeOK, Proxy
        <3>3. stamp[t].dict # d
            BY <1>1, <3>1, <3>2 DEF StampsAgree, Usable
        <3>4. QED
            BY <1>5, <3>1, <3>2, <3>3
    <2>4. OwnedWhileNamed'
        <3>1. ASSUME NEW b \in Dict
              PROVE  holder'[b] = "stamp" <=>
                     \E t \in Stamp : stamp'[t] # None /\ stamp'[t].dict = b /\ stamp'[t].owning
            <4>1. holder'[b] = "stamp" <=> b \notin dead /\ holder[b] = "stamp"
                BY <1>5
            <4>2. ASSUME NEW t \in Stamp \ {s}
                  PROVE  stamp'[t] # None /\ stamp'[t].dict = b /\ stamp'[t].owning
                         <=> b \notin dead /\ stamp[t] # None /\ stamp[t].dict = b /\ stamp[t].owning
                BY <1>7
            <4>3. b \notin dead => ~(stamp[s].dict = b /\ stamp[s].owning)
                BY <1>3
            <4>4. holder[b] = "stamp" <=>
                  \E t \in Stamp : stamp[t] # None /\ stamp[t].dict = b /\ stamp[t].owning
                BY <1>1 DEF OwnedWhileNamed
            <4>5. QED
                BY <1>6, <4>1, <4>2, <4>3, <4>4
        <3>2. QED
            BY <3>1 DEF OwnedWhileNamed
    <2>5. QED
        BY <1>9, <2>1, <2>2, <2>3, <2>4 DEF Pointed, StampsAgree, Usable
<1>11. Followed' /\ RefusedStay
    <2>1. ASSUME NEW c \in Cursor, cursor[c] # None
          PROVE  /\ stamp[cursor[c].stamp] # None /\ cursor[c].stamp \in Stamp \ {s}
                 /\ cursor[c].in \in Dict
        BY <1>1, <2>1 DEF Followed, Following, TypeOK, Iterator
    <2>2. ASSUME NEW c \in Cursor, NEW t \in Stamp,
                 cursor'[c] # None, Accepted(c), cursor[c].stamp = t,
                 stamp'[t].dict = stamp[t].dict, stamp'[t].count = stamp[t].count
          PROVE  /\ cursor'[c].in = cursor[c].in /\ cursor'[c].at = cursor[c].at
                 /\ DOMAIN entries[cursor[c].in] \subseteq DOMAIN entries'[cursor[c].in]
        <3>1. /\ cursor[c] # None /\ cursor[c].in = stamp[t].dict /\ stamp[t] # None
              /\ stamp[t].dict # None /\ t # s
            BY <1>8, <2>1, <2>2 DEF Followed, Following, Accepted, Usable
        <3>2. cursor[c].in \notin dead
            BY <1>7, <2>2, <3>1
        <3>3. QED
            BY <1>5, <1>8, <2>1, <2>2, <3>1, <3>2
    <2>3. ASSUME NEW c \in Cursor, cursor'[c] # None
          PROVE  /\ cursor[c] # None
                 /\ cursor'[c].stamp = cursor[c].stamp /\ cursor'[c].start = cursor[c].start
                 /\ cursor'[c].owed = cursor[c].owed
                 /\ stamp'[cursor[c].stamp] # None
        BY <1>7, <1>8, <2>1, <2>3
    <2>4. ASSUME NEW t \in Stamp, stamp[t] # None, stamp'[t] # None, stamp'[t].dict # None
          PROVE  /\ stamp'[t].dict = stamp[t].dict
                 /\ stamp'[t].count \in {stamp[t].count, stamp[t].count + 1}
        BY <1>6, <1>7, <2>4
    <2>5. QED
        BY <1>1, <1>9, <2>2, <2>3, <2>4, FollowedAfter
<1>12. NestedProperly'
    <2>1. ASSUME NEW b \in Dict, NEW k \in DOMAIN entries[b], entries[b][k] \in Dict
          PROVE  entries[b][k] \in dead <=> b \in dead
        <3>1. CASE dead = {}
            BY <3>1
        <3>2. CASE dead # {}
            <4>1. /\ d \in Dict /\ holder[d] = "stamp"
                  /\ \A a \in Dict : a \in dead <=> a = d \/ \E j \in DOMAIN entries[d] : entries[d][j] = a
                BY <1>3, <3>2
            <4>2. holder[entries[b][k]] = "value" /\ holder[b] \in {"object", "stamp"}
                BY <2>1 DEF NestedProperly, ValuesAreValues
            <4>3. b \in dead => b = d
                BY <4>1, <4>2 DEF NestedProperly, ValuesAreValues
            <4>4. entries[b][k] \in dead => b = d
                BY <2>1, <4>1, <4>2 DEF NestedProperly, PlacesDiffer
            <4>5. QED
                BY <2>1, <4>1, <4>3, <4>4
        <3>3. QED
            BY <3>1, <3>2
    <2>2. QED
        BY <1>4, <1>5, <2>1, EmptyIsMap, RemovalNested
<1>13. QED
    BY <1>10, <1>11, <1>12

LEMMA StutterSound ==
    ASSUME Sound, UNCHANGED vars
    PROVE  Sound' /\ RefusedStay
<1>1. Pointed' /\ NestedProperly'
    BY OnlyCursors DEF Sound, vars, Pointed, TypeOK
<1>2. Followed' /\ RefusedStay
    BY DEF Sound, vars, Followed, RefusedStay, Following, Accepted, Usable
<1>3. QED
    BY <1>1, <1>2 DEF Sound

LEMMA NextSound ==
    ASSUME Sound, [Next]_vars
    PROVE  Sound' /\ RefusedStay
<1>1. ASSUME NEW s \in Stamp, stamp[s] # None, stamp[s].dict # None
      PROVE  stamp[s].dict \in Dict
    BY <1>1 DEF Sound, Pointed, TypeOK, Proxy
<1>2. ASSUME NEW s \in Stamp, NEW k \in Key, NEW v \in Datum \cup Dict, SetItem(s, k, v)
      PROVE  Sound' /\ RefusedStay
    BY <1>1, <1>2, PutSound DEF SetItem, Usable
<1>3. ASSUME NEW s \in Stamp, NEW k \in Key, DelItem(s, k)
      PROVE  Sound' /\ RefusedStay
    BY <1>1, <1>3, EraseSound DEF DelItem, Usable
<1>4. CASE UNCHANGED vars
    BY <1>4, StutterSound
<1>5. CASE \/ \E d \in Dict : Create(d) \/ Destroy(d) \/ Clear(d)
           \/ \E d \in Dict, k \in Key : EraseKey(d, k)
           \/ \E d \in Dict, k \in Key, v \in Datum \cup Dict : Insert(d, k, v) \/ Store(d, k, v)
    BY <1>5, CreateSound, DestroySound, ClearSound, EraseSound, PutSound
<1>6. CASE \/ \E d, e \in Dict, moving \in BOOLEAN : Assign(d, e, moving)
           \/ \E d, e \in Dict : Swap(d, e)
    BY <1>6, AssignSound, SwapSound
<1>7. CASE \/ \E s \in Stamp, d \in Dict : NewProxy(s, d) \/ Reach(s, d)
           \/ \E s \in Stamp, d, n \in Dict : HandOver(s, d, n)
    BY <1>7, NewProxySound, HandOverSound
<1>8. CASE \/ \E s \in Stamp, c \in Cursor : Iterate(s, c)
           \/ \E c \in Cursor : Advance(c) \/ Drop(c)
           \/ \E s \in Stamp : Release(s)
    BY <1>8, IterateSound, AdvanceSound, DropSound, ReleaseSound
<1>9. QED
    BY <1>2, <1>3, <1>4, <1>5, <1>6, <1>7, <1>8 DEF Next

LEMMA InitSound == Init => Sound
    BY InitPointed, InitFollowed, InitNested DEF Sound

--------------------------------------------------------------------------------
(* What clients rely on.                                                       *)

\* One place: the set of the places where a dictionary is has one element.
LEMMA NestedMeans == ASSUME Sound PROVE NestedInOnePlace
<1> USE DEF Sound
<1>1. SUFFICES ASSUME NEW d \in Dict,
                      NEW spots, spots = {p \in Dict \X Key :
                          p[2] \in DOMAIN entries[p[1]] /\ entries[p[1]][p[2]] = d}
               PROVE  /\ holder[d] = "value" => Cardinality(spots) = 1
                      /\ holder[d] # "value" => spots = {}
    BY DEF NestedInOnePlace
<1>2. CASE holder[d] = "value"
    <2>1. PICK e \in Dict : \E k \in DOMAIN entries[e] : entries[e][k] = d
        BY <1>2 DEF NestedProperly, ValuesHavePlaces
    <2>2. PICK k \in DOMAIN entries[e] : entries[e][k] = d
        BY <2>1
    <2>3. DOMAIN entries[e] \subseteq Key
        BY MapsMean DEF Pointed, TypeOK
    <2>4. <<e, k>> \in spots
        BY <1>1, <2>2, <2>3
    <2>5. ASSUME NEW p \in spots PROVE p = <<e, k>>
        <3>1. p \in Dict \X Key /\ p[2] \in DOMAIN entries[p[1]] /\ entries[p[1]][p[2]] = d
            BY <1>1
        <3>2. p[1] = e /\ p[2] = k
            BY <2>2, <3>1 DEF NestedProperly, PlacesDiffer
        <3>3. QED
            BY <3>1, <3>2
    <2>6. spots = {<<e, k>>}
        BY <2>4, <2>5, Zenon
    <2>7. QED
        BY <1>2, <2>6, FS_Singleton, Zenon
<1>3. CASE holder[d] # "value"
    <2>1. ASSUME NEW p \in spots PROVE FALSE
        <3>1. p \in Dict \X Key /\ p[2] \in DOMAIN entries[p[1]] /\ entries[p[1]][p[2]] = d
            BY <1>1
        <3>2. QED
            BY <1>3, <3>1 DEF NestedProperly, ValuesAreValues
    <2>2. QED
        BY <1>3, <2>1
<1>4. QED
    BY <1>2, <1>3

\* A dictionary and its proxy name each other or nothing, a dictionary made for a
\* proxy lives as long as the proxy names it, and one that is a value has one
\* place (~AnyDictionary, ~MutationStamp, and AnyDictionary's operators).
THEOREM PointersAreSound == Spec => []PointersSound
<1>1. Sound /\ [Next]_vars => Sound'
    BY NextSound
<1>2. Sound => PointersSound
    BY NestedMeans DEF Sound, Pointed, PointersSound
<1>3. QED
    BY InitSound, <1>1, <1>2, PTL DEF Spec

\* An iterator that next() does not refuse stands on an entry of its proxy's
\* dictionary or at its end, and at the end has returned every key that was there
\* when it began (AnyDictionaryProxy::Iterator::next).
THEOREM IterationStaysSound == Spec => []IterationIsSound
<1>1. Sound /\ [Next]_vars => Sound'
    BY NextSound
<1>2. Sound => IterationIsSound
    <2>1. SUFFICES ASSUME Sound, NEW c \in Cursor, Accepted(c)
                   PROVE  /\ cursor[c].in = stamp[cursor[c].stamp].dict
                          /\ cursor[c].at \in DOMAIN entries[cursor[c].in] \cup {End}
                          /\ cursor[c].at = End => cursor[c].owed = {}
        BY DEF IterationIsSound, CursorsSafe, IterationIsComplete
    <2>2. Following(c)
        BY <2>1 DEF Sound, Followed, Accepted
    <2>3. QED
        BY <2>1, <2>2 DEF Following
<1>3. QED
    BY InitSound, <1>1, <1>2, PTL DEF Spec

\* An iterator that next() refuses is refused for good: a count never comes back
\* (AnyDictionary::mutate, and the class comment of MutationStamp).
THEOREM RefusalIsForGood == Spec => RefusedForGood
<1> DEFINE Stays == \A c \in Cursor : cursor[c] # None /\ ~Accepted(c) /\ cursor'[c] # None
                                      => ~Accepted(c)'
<1>1. Sound /\ [Next]_vars => Sound'
    BY NextSound
<1>2. Sound /\ [Next]_vars => [Stays]_vars
    BY NextSound DEF RefusedStay
<1>3. QED
    BY InitSound, <1>1, <1>2, PTL DEF Spec, RefusedForGood
================================================================================
