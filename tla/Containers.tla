----------------------------- MODULE Containers -----------------------------
(***************************************************************************)
(* Metadata dictionaries (AnyDictionary), the Python proxies of them       *)
(* (MutationStamp, AnyDictionaryProxy) and the iterators of the proxies.   *)
(*                                                                         *)
(* A dictionary lives as a field of a C++ object, as a value of another    *)
(* dictionary, or owned by a Python proxy.  It and its stamp point at each *)
(* other; either may go first.  A Python iterator holds a std::map         *)
(* iterator and the stamp's count at its start, and refuses to go on when  *)
(* the count has moved.  C++ clients and Python act on the same            *)
(* dictionaries, one call at a time.                                       *)
(*                                                                         *)
(* Bounds: a dictionary that is a value holds plain data only, and arrives *)
(* empty; MaxCount bounds how often a stamp is bumped.                     *)
(***************************************************************************)
EXTENDS Integers, FiniteSets

CONSTANTS Dict,      \* addresses of dictionaries
          Stamp,     \* addresses of stamps, that is of Python proxies
          Cursor,    \* Python iterators
          Key,       \* keys, in the order of the map: numbers
          Datum,     \* values that are no dictionaries
          None,      \* a null pointer
          MaxCount

End == 0             \* where the iterator of a map past its last entry is
Gone == -1           \* where an iterator is whose node was deleted
Places == Key \cup {End, Gone}
Counts == {-1} \cup (1..MaxCount)  \* -1 once the dictionary is gone

\* MutationStamp, and AnyDictionaryProxy::Iterator with the history owed
Proxy == [count : Counts, dict : Dict \cup {None}, owning : BOOLEAN]
Iterator == [stamp : Stamp, in : Dict, at : Places, start : Counts, owed : SUBSET Key]

ASSUME ContainersAssumption ==
    /\ Key \subseteq Nat \ {0} /\ MaxCount \in Nat \ {0, 1}
    /\ None \notin Dict \cup Stamp \cup Datum \cup Proxy \cup Iterator
    /\ Dict \cap Datum = {}

VARIABLES holder,    \* who keeps a dictionary: "none", "object", "value", "stamp"
          entries,   \* the map of each dictionary
          mark,      \* AnyDictionary::_mutation_stamp
          stamp,     \* what each proxy is, or None
          cursor     \* what each iterator is, or None

vars == <<holder, entries, mark, stamp, cursor>>

Empty == [k \in {} |-> None]
Alive == {d \in Dict : holder[d] # "none"}
Unused == Dict \ Alive
Nested(f) == {f[k] : k \in DOMAIN f} \cap Dict
Put(f, k, v) == [i \in DOMAIN f \cup {k} |-> IF i = k THEN v ELSE f[i]]
Without(f, k) == [i \in DOMAIN f \ {k} |-> f[i]]

First(K) == IF K = {} THEN End ELSE CHOOSE k \in K : \A j \in K : k <= j

Init ==
    /\ holder = [d \in Dict |-> "none"]
    /\ entries = [d \in Dict |-> Empty]
    /\ mark = [d \in Dict |-> None]
    /\ stamp = [s \in Stamp |-> None]
    /\ cursor = [c \in Cursor |-> None]

(***************************************************************************)
(* What a change does to stamps and iterators.                             *)
(***************************************************************************)
\* Fault: a flag that is turned over, where the code counts.
Bumped_Flag(s) == [s EXCEPT !.count = 1 - @]

Bumped(s) == [s EXCEPT !.count = @ + 1]

\* mutate() of every dictionary in changed
Mutate(st, changed) ==
    [s \in Stamp |-> IF st[s] # None /\ st[s].dict \in changed
                     THEN Bumped(st[s]) ELSE st[s]]

\* ~AnyDictionary of every dictionary in dead
Orphan(st, dead) ==
    [s \in Stamp |-> IF st[s] # None /\ st[s].dict \in dead
                     THEN [st[s] EXCEPT !.count = -1, !.dict = None] ELSE st[s]]

\* iterators after the nodes in lost, pairs of a dictionary and a place, were deleted
Strand(cs, lost) ==
    [c \in Cursor |-> IF cs[c] # None /\ <<cs[c].in, cs[c].at>> \in lost
                      THEN [cs[c] EXCEPT !.at = Gone] ELSE cs[c]]

CanBump(D) == \A s \in Stamp :
    stamp[s] # None /\ stamp[s].dict \in D => stamp[s].count < MaxCount

Marked(mk, dead) == [d \in Dict |-> IF d \in dead THEN None ELSE mk[d]]
Held(h, dead, born) ==
    [d \in Dict |-> IF d \in dead THEN "none" ELSE IF d \in born THEN "value" ELSE h[d]]

\* The maps become maps; changed are bumped, dead destroyed, born made as
\* values, and the nodes in lost deleted.
Change(maps, changed, dead, born, lost) ==
    LET wrecked == lost \cup (dead \X Places)
    IN  /\ CanBump(changed)
        /\ entries' = [d \in Dict |-> IF d \in dead THEN Empty ELSE maps[d]]
        /\ holder' = Held(holder, dead, born)
        /\ mark' = Marked(mark, dead)
        /\ stamp' = Orphan(Mutate(stamp, changed), dead)
        /\ cursor' = Strand(cursor, wrecked)

\* What may be stored in d: data, or a new dictionary, if d is itself no value
Storable(d) == Datum \cup (IF holder[d] = "value" THEN {} ELSE Unused)

(***************************************************************************)
(* C++ clients.                                                            *)
(***************************************************************************)
Create(d) ==
    /\ d \in Unused
    /\ holder' = [holder EXCEPT ![d] = "object"]
    /\ UNCHANGED <<entries, mark, stamp, cursor>>

Destroy(d) ==
    /\ holder[d] \in {"object", "stamp"}
    /\ Change(entries, {}, {d} \cup Nested(entries[d]), {}, {})

Clear(d) ==
    /\ d \in Alive
    /\ Change([entries EXCEPT ![d] = Empty], {d}, Nested(entries[d]), {},
              {d} \X DOMAIN entries[d])

\* Fault: erase does not bump, as insert does not.
EraseKey_Unbumped(d, k) ==
    /\ d \in Alive
    /\ Change([entries EXCEPT ![d] = Without(@, k)], {},
              IF k \in DOMAIN entries[d] THEN {entries[d][k]} \cap Dict ELSE {}, {},
              {<<d, k>>})

\* erase(key) bumps whether or not the key is there
EraseKey(d, k) ==
    /\ d \in Alive
    /\ Change([entries EXCEPT ![d] = Without(@, k)], {d},
              IF k \in DOMAIN entries[d] THEN {entries[d][k]} \cap Dict ELSE {}, {},
              {<<d, k>>})

\* insert, emplace and set_default leave an entry that is there
Insert(d, k, v) ==
    /\ d \in Alive
    /\ k \notin DOMAIN entries[d] /\ v \in Storable(d)
    /\ Change([entries EXCEPT ![d] = Put(@, k, v)], {}, {}, {v} \cap Dict, {})

\* operator[] and an assignment to what it returns
Store(d, k, v) ==
    /\ d \in Alive /\ k \in DOMAIN entries[d] /\ v \in Storable(d)
    /\ Change([entries EXCEPT ![d] = Put(@, k, v)], {}, {entries[d][k]} \cap Dict,
              {v} \cap Dict, {})

\* operator=, copying and moving, which copies as well but also bumps the source;
\* the dictionaries among the values are copied, to new addresses
Assign(d, e, moving) ==
    /\ {d, e} \subseteq Alive /\ d # e
    /\ "value" \notin {holder[d], holder[e]}
    /\ \E new \in [Nested(entries[e]) -> Unused] :
        /\ \A x, y \in DOMAIN new : new[x] = new[y] => x = y
        /\ LET copied(x) == IF x \in Dict THEN new[x] ELSE x
               copy == [k \in DOMAIN entries[e] |-> copied(entries[e][k])]
               born == {new[x] : x \in DOMAIN new}
               maps == [b \in Dict |->
                   IF b = d THEN copy
                   ELSE IF b \in born THEN entries[CHOOSE x \in DOMAIN new : new[x] = b]
                   ELSE entries[b]]
           IN  Change(maps, IF moving THEN {d, e} ELSE {d}, Nested(entries[d]), born,
                      {d} \X DOMAIN entries[d])

\* After std::map::swap iterators follow their nodes; end() stays behind.
Exchanged(cs, d, e) ==
    [c \in Cursor |->
        IF cs[c] = None \/ cs[c].at = End THEN cs[c]
        ELSE [cs[c] EXCEPT !.in = CASE @ = d -> e [] @ = e -> d [] OTHER -> @]]

Swap(d, e) ==
    /\ {d, e} \subseteq Alive /\ d # e
    /\ "value" \notin {holder[d], holder[e]}
    /\ CanBump({d, e})
    /\ entries' = [entries EXCEPT ![d] = entries[e], ![e] = entries[d]]
    /\ stamp' = Mutate(stamp, {d, e})
    /\ cursor' = Exchanged(cursor, d, e)
    /\ UNCHANGED <<holder, mark>>

(***************************************************************************)
(* Python.                                                                 *)
(***************************************************************************)
\* AnyDictionary(): a proxy with a dictionary of its own
NewProxy(s, d) ==
    /\ stamp[s] = None /\ d \in Unused
    /\ stamp' = [stamp EXCEPT ![s] = [count |-> 1, dict |-> d, owning |-> TRUE]]
    /\ mark' = [mark EXCEPT ![d] = s]
    /\ holder' = [holder EXCEPT ![d] = "stamp"]
    /\ UNCHANGED <<entries, cursor>>

\* the metadata property of an object, or __getitem__ where it finds a
\* dictionary: the proxy that is there, or a new one
Reach(s, d) ==
    /\ stamp[s] = None /\ d \in Alive /\ mark[d] = None
    /\ stamp' = [stamp EXCEPT ![s] = [count |-> 1, dict |-> d, owning |-> FALSE]]
    /\ mark' = [mark EXCEPT ![d] = s]
    /\ UNCHANGED <<holder, entries, cursor>>

\* any_to_py of a result: what d holds is swapped into a new proxy's own dictionary
HandOver(s, d, n) ==
    /\ stamp[s] = None /\ n \in Unused /\ holder[d] = "object"
    /\ CanBump({d})
    /\ stamp' = [Mutate(stamp, {d}) EXCEPT
                    ![s] = Bumped([count |-> 1, dict |-> n, owning |-> TRUE])]
    /\ mark' = [mark EXCEPT ![n] = s]
    /\ holder' = [holder EXCEPT ![n] = "stamp"]
    /\ entries' = [entries EXCEPT ![n] = entries[d], ![d] = Empty]
    /\ cursor' = Exchanged(cursor, d, n)

\* fetch_any_dictionary(): every call on a proxy whose dictionary is gone is refused
Usable(s) == stamp[s] # None /\ stamp[s].dict # None

SetItem(s, k, v) ==
    /\ Usable(s)
    /\ LET d == stamp[s].dict
       IN  Insert(d, k, v) \/ Store(d, k, v)

\* erase(position), after a search that raises KeyError
DelItem(s, k) ==
    /\ Usable(s)
    /\ LET d == stamp[s].dict
       IN  /\ k \in DOMAIN entries[d]
           /\ EraseKey(d, k)

\* owed is history: the keys there at the start and not returned since
Iterate(s, c) ==
    /\ Usable(s) /\ cursor[c] = None
    /\ LET keys == DOMAIN entries[stamp[s].dict]
       IN  cursor' = [cursor EXCEPT ![c] =
               [stamp |-> s, in |-> stamp[s].dict, at |-> First(keys),
                start |-> stamp[s].count, owed |-> keys]]
    /\ UNCHANGED <<holder, entries, mark, stamp>>

\* Iterator::next refuses when the dictionary is gone or was bumped
Accepted(c) ==
    /\ cursor[c] # None
    /\ Usable(cursor[c].stamp)
    /\ stamp[cursor[c].stamp].count = cursor[c].start

After(f, k) == First({j \in DOMAIN f : j > k})

Advance(c) ==
    /\ Accepted(c) /\ cursor[c].at \in Key
    /\ LET i == cursor[c]
       IN  cursor' = [cursor EXCEPT ![c] = [i EXCEPT !.at = After(entries[i.in], @),
                                                     !.owed = @ \ {i.at}]]
    /\ UNCHANGED <<holder, entries, mark, stamp>>

Drop(c) ==
    /\ cursor[c] # None
    /\ cursor' = [cursor EXCEPT ![c] = None]
    /\ UNCHANGED <<holder, entries, mark, stamp>>

\* Fault: the proxy does not delete the dictionary it owns.
Release_Leaking(s) ==
    /\ stamp[s] # None
    /\ \A c \in Cursor : cursor[c] # None => cursor[c].stamp # s
    /\ stamp' = [stamp EXCEPT ![s] = None]
    /\ mark' = Marked(mark, {stamp[s].dict})
    /\ UNCHANGED <<holder, entries, cursor>>

\* ~MutationStamp, when Python lets the proxy go; its iterators keep it
Release(s) ==
    /\ stamp[s] # None
    /\ \A c \in Cursor : cursor[c] # None => cursor[c].stamp # s
    /\ LET d == stamp[s].dict
           dead == IF Usable(s) /\ stamp[s].owning THEN {d} \cup Nested(entries[d]) ELSE {}
       IN  /\ stamp' = [Orphan(stamp, dead) EXCEPT ![s] = None]
           /\ mark' = Marked(mark, dead \cup {d})
           /\ entries' = [b \in Dict |-> IF b \in dead THEN Empty ELSE entries[b]]
           /\ holder' = Held(holder, dead, {})
           /\ cursor' = Strand(cursor, dead \X Places)

Next ==
    \/ \E d \in Dict : Create(d) \/ Destroy(d) \/ Clear(d)
    \/ \E d \in Dict, k \in Key : EraseKey(d, k)
    \/ \E d \in Dict, k \in Key, v \in Datum \cup Dict : Insert(d, k, v) \/ Store(d, k, v)
    \/ \E d, e \in Dict, moving \in BOOLEAN : Assign(d, e, moving)
    \/ \E d, e \in Dict : Swap(d, e)
    \/ \E s \in Stamp, d \in Dict : NewProxy(s, d) \/ Reach(s, d)
    \/ \E s \in Stamp, d, n \in Dict : HandOver(s, d, n)
    \/ \E s \in Stamp, k \in Key, v \in Datum \cup Dict : SetItem(s, k, v)
    \/ \E s \in Stamp, k \in Key : DelItem(s, k)
    \/ \E s \in Stamp, c \in Cursor : Iterate(s, c)
    \/ \E c \in Cursor : Advance(c) \/ Drop(c)
    \/ \E s \in Stamp : Release(s)

Spec == Init /\ [][Next]_vars

(***************************************************************************)
(* Properties.                                                             *)
(***************************************************************************)
Maps == UNION {[K -> Datum \cup Dict] : K \in SUBSET Key}

\* Every variable has its type; counts are 1 or more, or -1 once orphaned.
TypeOK ==
    /\ holder \in [Dict -> {"none", "object", "value", "stamp"}]
    /\ entries \in [Dict -> Maps]
    /\ mark \in [Dict -> Stamp \cup {None}]
    /\ stamp \in [Stamp -> Proxy \cup {None}]
    /\ cursor \in [Cursor -> Iterator \cup {None}]

\* A dictionary and its proxy always name each other, whichever of them was
\* made, moved out of, or destroyed first: neither is left with a pointer to
\* something that is gone (~AnyDictionary, ~MutationStamp).
StampsAgree ==
    /\ \A d \in Dict : mark[d] # None =>
           /\ d \in Alive
           /\ stamp[mark[d]] # None
           /\ stamp[mark[d]].dict = d
    /\ \A s \in Stamp : Usable(s) => mark[stamp[s].dict] = s

\* A dictionary made for a proxy lives exactly as long as that proxy points at
\* it: it is neither leaked nor deleted under it, and no proxy deletes another's.
OwnedWhileNamed ==
    \A d \in Dict : holder[d] = "stamp" <=>
        \E s \in Stamp : stamp[s] # None /\ stamp[s].dict = d /\ stamp[s].owning

\* An iterator that next() would not refuse stands on an entry of the very
\* dictionary its proxy names, or at its end: the stamp is bumped by every
\* call that could take the entry away (the class comment of AnyDictionary).
CursorsSafe ==
    \A c \in Cursor : Accepted(c) =>
        /\ cursor[c].in = stamp[cursor[c].stamp].dict
        /\ cursor[c].at \in DOMAIN entries[cursor[c].in] \cup {End}

\* An iteration that comes to its end without being refused returned every key
\* that was there when it began, though keys may be added meanwhile without a bump.
IterationIsComplete ==
    \A c \in Cursor : Accepted(c) /\ cursor[c].at = End => cursor[c].owed = {}

\* A dictionary that is a value is the value of exactly one entry of one live
\* dictionary: copying a dictionary copies those in it, swapping moves them,
\* and an entry that is overwritten takes its dictionary with it.
NestedInOnePlace ==
    \A d \in Dict :
        LET spots == {p \in Dict \X Key :
                         p[2] \in DOMAIN entries[p[1]] /\ entries[p[1]][p[2]] = d}
        IN  /\ holder[d] = "value" => Cardinality(spots) = 1
            /\ holder[d] # "value" => spots = {}

\* Once next() refuses an iterator it refuses it for good: no later call, and no
\* new dictionary at the same address, makes it valid again.
RefusedForGood ==
    [][\A c \in Cursor : cursor[c] # None /\ ~Accepted(c) /\ cursor'[c] # None
           => ~Accepted(c)']_vars

\* Every dictionary has one owner, and dictionary and proxy never point at
\* something that is gone.
PointersSound == TypeOK /\ StampsAgree /\ OwnedWhileNamed /\ NestedInOnePlace

\* Iterators that are not refused are safe to use and miss no key.
IterationIsSound == CursorsSafe /\ IterationIsComplete
=============================================================================
