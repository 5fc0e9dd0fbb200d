----------------------------- MODULE KeepAliveProofs ---------------------------
(* However many Python threads and host threads there are: the count of an     *)
(* object is the number of its Retainers, the object is there exactly as long  *)
(* as there is one, and the monitor and the wrapper do not keep each other.    *)
EXTENDS KeepAlive, FiniteSetTheorems, TLAPS

\* The three facts need each other: that the count is at least one in a call on
\* the object follows from whoever makes the call, by way of the wrapper if it is
\* a Python thread.
Counted == TypeOK /\ CountExact /\ NamesAreGood

LEMMA Counts ==
    ASSUME NEW b
    PROVE  (b => Count(b) = 1) /\ (~b => Count(b) = 0) /\ Count(b) \in {0, 1}
    BY DEF Count

LEMMA OneMoreHost ==
    ASSUME held \subseteq Hosts, NEW h \in Hosts \ held
    PROVE  Cardinality(held \cup {h}) = Cardinality(held) + 1 /\ Cardinality(held) \in Nat
    BY ThreadsAssumption, FS_Subset, FS_AddElement, FS_CardinalityType

LEMMA OneHostLess ==
    ASSUME held \subseteq Hosts, NEW h \in held
    PROVE  /\ Cardinality(held \ {h}) = Cardinality(held) - 1
           /\ Cardinality(held) \in Nat /\ Cardinality(held) > 0
<1>1. IsFiniteSet(held) /\ Cardinality(held) \in Nat
    BY ThreadsAssumption, FS_Subset, FS_CardinalityType
<1>2. Cardinality(held \ {h}) = Cardinality(held) - 1
    BY <1>1, FS_RemoveElement
<1>3. Cardinality(held) # 0
    BY <1>1, FS_EmptySet
<1>4. QED
    BY <1>1, <1>2, <1>3

LEMMA HostsCounted ==
    ASSUME held \subseteq Hosts
    PROVE  Cardinality(held) \in Nat
    BY ThreadsAssumption, FS_Subset, FS_CardinalityType

\* Whoever can name the object knows that the count is not zero.
LEMMA NamedIsCounted ==
    ASSUME Counted
    PROVE  /\ stored => refs > 0 /\ alive
           /\ wrapper => refs > 0 /\ alive
           /\ held # {} => refs > 0 /\ alive
<1>1. Cardinality(held) \in Nat /\ (held # {} => Cardinality(held) > 0)
    BY HostsCounted, OneHostLess DEF Counted, TypeOK
<1>2. QED
    BY <1>1 DEF Counted, TypeOK, CountExact, Count

LEMMA InitCounted == Init => Counted
<1> SUFFICES ASSUME Init PROVE Counted
    OBVIOUS
<1>1. Cardinality(held) = 0
    BY FS_EmptySet DEF Init
<1>2. PICK t \in Pythons, fromPython \in BOOLEAN :
        /\ refs = 1 /\ alive = TRUE /\ keep = FALSE /\ dressed = FALSE /\ held = {}
        /\ installed = fromPython /\ wrapper = fromPython
        /\ named = IF fromPython THEN {t} ELSE {}
        /\ stored = ~fromPython
        /\ gil = NONE
        /\ pc = [u \in Threads |-> "idle"]
        /\ seen = [u \in Threads |-> 0]
        /\ borrowed = [u \in Threads |-> FALSE]
        /\ touched = FALSE
    BY DEF Init
<1>3. TypeOK
    BY <1>2 DEF TypeOK
<1>4. CountExact
    <2>1. Count(wrapper) + Count(stored) = 1
        <3>1. CASE fromPython
            <4>1. wrapper /\ ~stored
                BY <1>2, <3>1
            <4>2. Count(wrapper) = 1 /\ Count(stored) = 0
                BY <4>1, Counts
            <4>3. QED
                BY <4>2
        <3>2. CASE ~fromPython
            <4>1. ~wrapper /\ stored
                BY <1>2, <3>2
            <4>2. Count(wrapper) = 0 /\ Count(stored) = 1
                BY <4>1, Counts
            <4>3. QED
                BY <4>2
        <3>3. QED
            BY <3>1, <3>2
    <2>2. refs = Count(wrapper) + Count(stored) + Cardinality(held)
        <3>1. Count(wrapper) \in Nat /\ Count(stored) \in Nat
            BY DEF Count
        <3>2. QED
            BY <1>1, <1>2, <2>1, <3>1
    <2>3. alive /\ refs > 0
        BY <1>2
    <2>4. QED
        BY <2>2, <2>3 DEF CountExact
<1>5. NamesAreGood
    BY <1>2 DEF NamesAreGood
<1>6. QED
    BY <1>3, <1>4, <1>5 DEF Counted

--------------------------------------------------------------------------------
(* The three things an action does to the count.                               *)

Retainers == Count(wrapper) + Count(stored) + Cardinality(held)

LEMMA RetainersType == ASSUME TypeOK PROVE Retainers \in Nat
<1>1. Count(wrapper) \in {0, 1} /\ Count(stored) \in {0, 1}
    BY Counts
<1>2. Cardinality(held) \in Nat
    BY HostsCounted DEF TypeOK
<1>3. QED
    BY <1>1, <1>2 DEF Retainers

LEMMA NoneMore ==
    ASSUME CountExact, refs' = refs, alive' = alive, Retainers' = Retainers
    PROVE  CountExact'
    BY DEF CountExact, Retainers

LEMMA OneMore ==
    ASSUME TypeOK, CountExact, alive, refs' = refs + 1, alive' = alive,
           Retainers' = Retainers + 1
    PROVE  CountExact'
<1>1. refs \in Nat
    BY DEF TypeOK
<1>2. refs = Retainers
    BY DEF CountExact, Retainers
<1>3. refs' = Retainers'
    BY <1>2
<1>4. refs' > 0
    BY <1>1
<1>5. alive'
    OBVIOUS
<1>6. QED
    BY <1>3, <1>4, <1>5 DEF CountExact, Retainers

LEMMA OneLess ==
    ASSUME TypeOK, CountExact, refs' = refs - 1, alive' = (refs > 1),
           Retainers' = Retainers - 1
    PROVE  CountExact'
<1>1. refs \in Nat
    BY DEF TypeOK
<1>2. refs = Retainers
    BY DEF CountExact, Retainers
<1>3. refs' = Retainers'
    BY <1>2
<1>4. (refs > 1) <=> (refs' > 0)
    BY <1>1
<1>5. alive' <=> (refs' > 0)
    BY <1>4
<1>6. QED
    BY <1>3, <1>5 DEF CountExact, Retainers

LEMMA WrapperMade ==
    TypeOK /\ ~wrapper /\ wrapper' /\ stored' = stored /\ held' = held
        => Retainers' = Retainers + 1
<1>1. SUFFICES ASSUME TypeOK, ~wrapper, wrapper', stored' = stored, held' = held
               PROVE  Retainers' = Retainers + 1
    OBVIOUS
<1>2. Count(wrapper) = 0 /\ Count(wrapper') = 1
    BY <1>1, Counts
<1>3. Count(stored)' = Count(stored) /\ Cardinality(held)' = Cardinality(held)
    BY <1>1
<1>4. Count(stored) \in {0, 1} /\ Cardinality(held) \in Nat
    BY <1>1, Counts, HostsCounted DEF TypeOK
<1>5. QED
    BY <1>2, <1>3, <1>4 DEF Retainers

LEMMA WrapperGone ==
    TypeOK /\ wrapper /\ ~wrapper' /\ stored' = stored /\ held' = held
        => Retainers' = Retainers - 1
<1>1. SUFFICES ASSUME TypeOK, wrapper, ~wrapper', stored' = stored, held' = held
               PROVE  Retainers' = Retainers - 1
    OBVIOUS
<1>2. Count(wrapper) = 1 /\ Count(wrapper') = 0
    BY <1>1, Counts
<1>3. Count(stored)' = Count(stored) /\ Cardinality(held)' = Cardinality(held)
    BY <1>1
<1>4. Count(stored) \in {0, 1} /\ Cardinality(held) \in Nat
    BY <1>1, Counts, HostsCounted DEF TypeOK
<1>5. QED
    BY <1>2, <1>3, <1>4 DEF Retainers

LEMMA StoredMade ==
    TypeOK /\ ~stored /\ stored' /\ wrapper' = wrapper /\ held' = held
        => Retainers' = Retainers + 1
<1>1. SUFFICES ASSUME TypeOK, ~stored, stored', wrapper' = wrapper, held' = held
               PROVE  Retainers' = Retainers + 1
    OBVIOUS
<1>2. Count(stored) = 0 /\ Count(stored') = 1
    BY <1>1, Counts
<1>3. Count(wrapper)' = Count(wrapper) /\ Cardinality(held)' = Cardinality(held)
    BY <1>1
<1>4. Count(wrapper) \in {0, 1} /\ Cardinality(held) \in Nat
    BY <1>1, Counts, HostsCounted DEF TypeOK
<1>5. QED
    BY <1>2, <1>3, <1>4 DEF Retainers

LEMMA StoredGone ==
    TypeOK /\ stored /\ ~stored' /\ wrapper' = wrapper /\ held' = held
        => Retainers' = Retainers - 1
<1>1. SUFFICES ASSUME TypeOK, stored, ~stored', wrapper' = wrapper, held' = held
               PROVE  Retainers' = Retainers - 1
    OBVIOUS
<1>2. Count(stored) = 1 /\ Count(stored') = 0
    BY <1>1, Counts
<1>3. Count(wrapper)' = Count(wrapper) /\ Cardinality(held)' = Cardinality(held)
    BY <1>1
<1>4. Count(wrapper) \in {0, 1} /\ Cardinality(held) \in Nat
    BY <1>1, Counts, HostsCounted DEF TypeOK
<1>5. QED
    BY <1>2, <1>3, <1>4 DEF Retainers

LEMMA HostMade ==
    ASSUME TypeOK, NEW h \in Hosts \ held, held' = held \cup {h},
           wrapper' = wrapper, stored' = stored
    PROVE  Retainers' = Retainers + 1
<1>1. Cardinality(held') = Cardinality(held) + 1 /\ Cardinality(held) \in Nat
    BY OneMoreHost DEF TypeOK
<1>2. Count(wrapper)' = Count(wrapper) /\ Count(stored)' = Count(stored)
    OBVIOUS
<1>3. Count(wrapper) \in {0, 1} /\ Count(stored) \in {0, 1}
    BY Counts
<1>4. QED
    BY <1>1, <1>2, <1>3 DEF Retainers

LEMMA HostGone ==
    ASSUME TypeOK, NEW h \in held, held' = held \ {h},
           wrapper' = wrapper, stored' = stored
    PROVE  Retainers' = Retainers - 1
<1>1. Cardinality(held') = Cardinality(held) - 1 /\ Cardinality(held) \in Nat
    BY OneHostLess DEF TypeOK
<1>2. Count(wrapper)' = Count(wrapper) /\ Count(stored)' = Count(stored)
    OBVIOUS
<1>3. Count(wrapper) \in {0, 1} /\ Count(stored) \in {0, 1}
    BY Counts
<1>4. QED
    BY <1>1, <1>2, <1>3 DEF Retainers

--------------------------------------------------------------------------------
(* One lemma for each action that changes who holds the object.                *)

LEMMA StoreCounted == ASSUME Counted, NEW t \in Pythons, Store(t) PROVE Counted'
<1>1. wrapper /\ alive /\ refs' = refs + 1 /\ alive' = alive
    BY NamedIsCounted DEF Counted, NamesAreGood, Store, Retained
<1>2. TypeOK'
    BY DEF Counted, TypeOK, Store, Running, Retained, Threads
<1>3. Retainers' = Retainers + 1
    BY StoredMade DEF Counted, Store
<1>4. CountExact'
    BY <1>1, <1>3, OneMore DEF Counted
<1>5. NamesAreGood'
    BY DEF Counted, NamesAreGood, Store
<1>6. QED
    BY <1>2, <1>4, <1>5 DEF Counted

LEMMA LendCounted ==
    ASSUME Counted, NEW t \in Pythons, NEW h \in Hosts, Lend(t, h) PROVE Counted'
<1>1. wrapper /\ alive /\ refs' = refs + 1 /\ alive' = alive
    BY NamedIsCounted DEF Counted, NamesAreGood, Lend, Retained
<1>2. TypeOK'
    BY DEF Counted, TypeOK, Lend, Running, Retained, Threads
<1>3. Retainers' = Retainers + 1
    BY HostMade DEF Counted, Lend
<1>4. CountExact'
    BY <1>1, <1>3, OneMore DEF Counted
<1>5. NamesAreGood'
    BY DEF Counted, NamesAreGood, Lend
<1>6. QED
    BY <1>2, <1>4, <1>5 DEF Counted

LEMMA CopyCounted ==
    ASSUME Counted, NEW h \in Hosts, NEW g \in Hosts, Copy(h, g) PROVE Counted'
<1>1. alive /\ refs' = refs + 1 /\ alive' = alive
    BY NamedIsCounted DEF Copy, Retained
<1>2. TypeOK'
    BY DEF Counted, TypeOK, Copy, Retained, Threads
<1>3. Retainers' = Retainers + 1
    BY HostMade DEF Counted, Copy
<1>4. CountExact'
    BY <1>1, <1>3, OneMore DEF Counted
<1>5. NamesAreGood'
    BY DEF Counted, NamesAreGood, Copy
<1>6. QED
    BY <1>2, <1>4, <1>5 DEF Counted

LEMMA ReleaseCounted ==
    ASSUME Counted, NEW h \in Hosts, Release(h) PROVE Counted'
<1>1. refs > 0 /\ refs' = refs - 1 /\ alive' = (refs > 1)
    BY NamedIsCounted DEF Release, Released
<1>2. TypeOK'
    BY <1>1 DEF Counted, TypeOK, Release, Released, Threads
<1>3. Retainers' = Retainers - 1
    BY HostGone DEF Counted, Release
<1>4. CountExact'
    BY <1>1, <1>3, OneLess DEF Counted
<1>5. NamesAreGood'
    BY DEF Counted, NamesAreGood, Release
<1>6. QED
    BY <1>2, <1>4, <1>5 DEF Counted

LEMMA UnstoreCounted ==
    ASSUME Counted, NEW t \in Pythons, Unstore(t) PROVE Counted'
<1>1. refs > 0 /\ refs' = refs - 1 /\ alive' = (refs > 1)
    BY NamedIsCounted DEF Unstore, Released
<1>2. TypeOK'
    <2>1. refs' \in Nat /\ alive' \in BOOLEAN
        BY <1>1 DEF Counted, TypeOK
    <2>2. pc' \in [Threads -> {"idle", "notify", "act", "undefined"}]
        BY DEF Counted, TypeOK, Unstore, Released
    <2>3. stored' \in BOOLEAN
        BY DEF Unstore
    <2>4. QED
        BY <2>1, <2>2, <2>3 DEF Counted, TypeOK, Unstore, Running
<1>3. Retainers' = Retainers - 1
    BY StoredGone DEF Counted, Unstore
<1>4. CountExact'
    BY <1>1, <1>3, OneLess DEF Counted
<1>5. NamesAreGood'
    BY DEF Counted, NamesAreGood, Unstore
<1>6. QED
    BY <1>2, <1>4, <1>5 DEF Counted

LEMMA GetCounted == ASSUME Counted, NEW t \in Pythons, Get(t) PROVE Counted'
<1>1. alive /\ refs > 0 /\ alive' = alive /\ stored' = stored /\ held' = held /\ wrapper'
    BY NamedIsCounted DEF Get, Running
<1>2. CASE wrapper
    <2>1. refs' = refs /\ pc' = pc /\ installed' = installed
        BY <1>2 DEF Get
    <2>2. wrapper' = wrapper
        BY <1>2 DEF Counted, TypeOK, Get
    <2>3. TypeOK'
        BY <2>1, <2>2 DEF Counted, TypeOK, Get
    <2>4. Retainers' = Retainers
        BY <1>1, <2>2 DEF Retainers
    <2>5. CountExact'
        BY <1>1, <2>1, <2>4, NoneMore DEF Counted
    <2>6. NamesAreGood'
        BY <1>1 DEF NamesAreGood
    <2>7. QED
        BY <2>3, <2>5, <2>6 DEF Counted
<1>3. CASE ~wrapper
    <2>1. Retained(t) /\ installed' = TRUE /\ refs' = refs + 1
        BY <1>3 DEF Get, Retained
    <2>2. TypeOK'
        <3>1. pc' \in [Threads -> {"idle", "notify", "act", "undefined"}]
            BY <2>1 DEF Counted, TypeOK, Retained
        <3>2. refs' \in Nat
            BY <2>1 DEF Counted, TypeOK
        <3>3. QED
            BY <2>1, <3>1, <3>2 DEF Counted, TypeOK, Get
    <2>3. Retainers' = Retainers + 1
        BY <1>1, <1>3, WrapperMade DEF Counted
    <2>4. CountExact'
        BY <1>1, <2>1, <2>3, OneMore DEF Counted
    <2>5. NamesAreGood'
        BY <1>1 DEF NamesAreGood
    <2>6. QED
        BY <2>2, <2>4, <2>5 DEF Counted
<1>4. QED
    BY <1>2, <1>3

\* The wrapper goes with the last name for it, and gives its Retainer back.
LEMMA WrapperGoneCounted ==
    ASSUME Counted, NEW t \in Threads, wrapper, Released(t),
           wrapper' = FALSE, keep' = FALSE, named' = {}, dressed' \in BOOLEAN,
           gil' \in Threads \cup {NONE}, borrowed' \in [Threads -> BOOLEAN],
           UNCHANGED <<installed, stored, held, seen, touched>>
    PROVE  Counted'
<1>1. refs > 0 /\ refs' = refs - 1 /\ alive' = (refs > 1)
    BY NamedIsCounted DEF Released
<1>2. TypeOK'
    <2>1. refs' \in Nat /\ alive' \in BOOLEAN
        BY <1>1 DEF Counted, TypeOK
    <2>2. pc' \in [Threads -> {"idle", "notify", "act", "undefined"}]
        BY DEF Counted, TypeOK, Released
    <2>3. wrapper' \in BOOLEAN /\ keep' \in BOOLEAN
        OBVIOUS
    <2>4. QED
        BY <2>1, <2>2, <2>3 DEF Counted, TypeOK
<1>3. Retainers' = Retainers - 1
    BY WrapperGone DEF Counted
<1>4. CountExact'
    BY <1>1, <1>3, OneLess DEF Counted
<1>5. NamesAreGood'
    BY DEF NamesAreGood
<1>6. QED
    BY <1>2, <1>4, <1>5 DEF Counted

\* Where nothing that is counted changes, neither does the count.
LEMMA OthersCounted ==
    ASSUME Counted, TypeOK', refs' = refs, alive' = alive, wrapper' = wrapper,
           stored' = stored, held' = held,
           (keep' \/ named' # {}) => (keep \/ named # {})
    PROVE  Counted'
<1>1. CountExact'
    BY NoneMore DEF Counted, Retainers
<1>2. NamesAreGood'
    BY DEF Counted, NamesAreGood
<1>3. QED
    BY <1>1, <1>2 DEF Counted

LEMMA DropCounted == ASSUME Counted, NEW t \in Pythons, Drop(t) PROVE Counted'
<1>1. wrapper
    BY DEF Counted, NamesAreGood, Drop
<1>2. CASE named = {t} /\ ~keep
    <2>1. Released(t) /\ wrapper' = FALSE /\ dressed' = FALSE
        BY <1>2 DEF Drop
    <2>2. keep' = FALSE /\ named' = {}
        BY <1>2 DEF Counted, TypeOK, Drop
    <2>3. gil' \in Threads \cup {NONE} /\ borrowed' \in [Threads -> BOOLEAN]
        BY DEF Counted, TypeOK, Drop
    <2>4. QED
        BY <1>1, <2>1, <2>2, <2>3, WrapperGoneCounted DEF Drop, Threads
<1>3. CASE ~(named = {t} /\ ~keep)
    <2>1. UNCHANGED <<refs, alive, pc, wrapper, dressed>>
        BY <1>3 DEF Drop
    <2>2. TypeOK'
        BY <2>1 DEF Counted, TypeOK, Drop
    <2>3. named # {}
        BY DEF Drop
    <2>4. QED
        BY <2>1, <2>2, <2>3, OthersCounted DEF Drop
<1>4. QED
    BY <1>2, <1>3

LEMMA BindCounted == ASSUME Counted, NEW t \in Threads, Bind(t) PROVE Counted'
<1>1. alive /\ alive' = alive /\ stored' = stored /\ held' = held /\ wrapper'
    BY DEF Bind, owners
<1>2. refs \in Nat /\ refs > 0
    <2>1. alive <=> refs > 0
        BY DEF Counted, CountExact
    <2>2. QED
        BY <1>1, <2>1 DEF Counted, TypeOK
<1>3. refs' \in {refs, refs + 1}
    BY DEF Bind
<1>4. TypeOK'
    <2>1. refs' \in Nat
        BY <1>2, <1>3
    <2>2. /\ gil' \in Threads \cup {NONE}
          /\ borrowed' \in [Threads -> BOOLEAN]
          /\ pc' \in [Threads -> {"idle", "notify", "act", "undefined"}]
        BY DEF Counted, TypeOK, Bind, Return
    <2>3. keep' \in BOOLEAN /\ wrapper' \in BOOLEAN
        BY DEF Bind
    <2>4. QED
        BY <2>1, <2>2, <2>3 DEF Counted, TypeOK, Bind, owners
<1>5. CountExact'
    <2>1. CASE wrapper
        <3>1. refs' = refs
            BY <2>1 DEF Bind
        <3>2. wrapper' = wrapper
            BY <2>1 DEF Counted, TypeOK, Bind
        <3>3. Retainers' = Retainers
            BY <1>1, <3>2 DEF Retainers
        <3>4. QED
            BY <1>1, <3>1, <3>3, NoneMore DEF Counted
    <2>2. CASE ~wrapper
        <3>1. refs' = refs + 1
            BY <2>2 DEF Bind
        <3>2. Retainers' = Retainers + 1
            BY <1>1, <2>2, WrapperMade DEF Counted
        <3>3. QED
            BY <1>1, <3>1, <3>2, OneMore DEF Counted
    <2>3. QED
        BY <2>1, <2>2
<1>6. NamesAreGood'
    BY <1>1 DEF NamesAreGood
<1>7. QED
    BY <1>4, <1>5, <1>6 DEF Counted

LEMMA UnbindCounted == ASSUME Counted, NEW t \in Threads, Unbind(t) PROVE Counted'
<1>1. wrapper /\ keep' = FALSE
    BY DEF Counted, NamesAreGood, Unbind
<1>2. gil' \in Threads \cup {NONE} /\ borrowed' \in [Threads -> BOOLEAN]
    <2>1. CASE pc'[t] = "idle"
        BY <2>1 DEF Counted, TypeOK, Unbind, Return
    <2>2. CASE pc'[t] # "idle"
        BY <2>2 DEF Counted, TypeOK, Unbind
    <2>3. QED
        BY <2>1, <2>2
<1>3. CASE named = {}
    <2>1. Released(t) /\ wrapper' = FALSE /\ dressed' = FALSE
        BY <1>3 DEF Unbind
    <2>2. named' = {}
        BY <1>3 DEF Unbind, owners
    <2>3. QED
        BY <1>1, <1>2, <2>1, <2>2, WrapperGoneCounted DEF Unbind, owners
<1>4. CASE named # {}
    <2>1. UNCHANGED <<refs, alive, wrapper, dressed>> /\ pc' = [pc EXCEPT ![t] = "idle"]
        BY <1>4 DEF Unbind
    <2>2. pc' \in [Threads -> {"idle", "notify", "act", "undefined"}]
        BY <2>1 DEF Counted, TypeOK
    <2>3. TypeOK'
        BY <1>1, <1>2, <2>1, <2>2 DEF Counted, TypeOK, Unbind, owners
    <2>4. QED
        BY <1>4, <2>1, <2>3, OthersCounted DEF Unbind, owners
<1>5. QED
    BY <1>3, <1>4

\* The actions that change no holder.
LEMMA QuietCounted ==
    ASSUME Counted,
           \/ \E t \in Pythons : TakeGil(t) \/ GiveGil(t) \/ Dress(t)
           \/ \E t \in Threads : Look(t) \/ Stray(t) \/ LeaveAlone(t)
    PROVE  Counted'
<1>1. ASSUME NEW t \in Pythons, TakeGil(t) PROVE Counted'
    <2>1. TypeOK'
        BY <1>1 DEF Counted, TypeOK, TakeGil, Threads, object, owners
    <2>2. QED
        BY <1>1, <2>1, OthersCounted DEF TakeGil, object, owners
<1>2. ASSUME NEW t \in Pythons, GiveGil(t) PROVE Counted'
    <2>1. TypeOK'
        BY <1>2 DEF Counted, TypeOK, GiveGil, object, owners
    <2>2. QED
        BY <1>2, <2>1, OthersCounted DEF GiveGil, object, owners
<1>3. ASSUME NEW t \in Pythons, Dress(t) PROVE Counted'
    <2>1. TypeOK'
        BY <1>3 DEF Counted, TypeOK, Dress, owners
    <2>2. QED
        BY <1>3, <2>1, OthersCounted DEF Dress, owners
<1>4. ASSUME NEW t \in Threads, Look(t) PROVE Counted'
    <2>1. borrowed' \in [Threads -> BOOLEAN]
        BY <1>4 DEF Counted, TypeOK, Look
    <2>2. /\ pc' \in [Threads -> {"idle", "notify", "act", "undefined"}]
          /\ seen' \in [Threads -> Nat] /\ gil' \in Threads
        BY <1>4 DEF Counted, TypeOK, Look
    <2>3. TypeOK'
        BY <1>4, <2>1, <2>2 DEF Counted, TypeOK, Look, object, owners
    <2>4. QED
        BY <1>4, <2>3, OthersCounted DEF Look, object, owners
<1>5. ASSUME NEW t \in Threads, Stray(t) PROVE Counted'
    <2>1. TypeOK'
        BY <1>5 DEF Counted, TypeOK, Stray, object, owners
    <2>2. QED
        BY <1>5, <2>1, OthersCounted DEF Stray, object, owners
<1>6. ASSUME NEW t \in Threads, LeaveAlone(t) PROVE Counted'
    <2>1. TypeOK'
        BY <1>6 DEF Counted, TypeOK, LeaveAlone, Return, object, owners
    <2>2. QED
        BY <1>6, <2>1, OthersCounted DEF LeaveAlone, object, owners
<1>7. QED
    BY <1>1, <1>2, <1>3, <1>4, <1>5, <1>6

LEMMA StutterCounted == ASSUME Counted, UNCHANGED vars PROVE Counted'
<1>1. TypeOK'
    BY DEF Counted, TypeOK, vars
<1>2. QED
    BY <1>1, OthersCounted DEF vars

LEMMA NextCounted == ASSUME Counted, [Next]_vars PROVE Counted'
<1>1. CASE UNCHANGED vars
    BY <1>1, StutterCounted
<1>2. ASSUME NEW t \in Pythons, TakeGil(t) \/ GiveGil(t) \/ Dress(t) PROVE Counted'
    BY <1>2, QuietCounted
<1>3. ASSUME NEW t \in Pythons, Get(t) \/ Drop(t) \/ Store(t) \/ Unstore(t)
      PROVE  Counted'
    BY <1>3, GetCounted, DropCounted, StoreCounted, UnstoreCounted
<1>4. ASSUME NEW t \in Pythons, NEW h \in Hosts, Lend(t, h) PROVE Counted'
    BY <1>4, LendCounted
<1>5. ASSUME NEW h \in Hosts, NEW g \in Hosts, Copy(h, g) PROVE Counted'
    BY <1>5, CopyCounted
<1>6. ASSUME NEW h \in Hosts, Release(h) PROVE Counted'
    BY <1>6, ReleaseCounted
<1>7. ASSUME NEW t \in Threads, Monitor(t) PROVE Counted'
    BY <1>7, QuietCounted, BindCounted, UnbindCounted DEF Monitor
<1>8. QED
    BY <1>1, <1>2, <1>3, <1>4, <1>5, <1>6, <1>7 DEF Next

\* The count of an object is always the number of Retainers there are, and the
\* object is deleted exactly when there are none, whatever the threads do
\* (_managed_retain and _managed_release in serializableObject.cpp).
THEOREM CountIsExact == Spec => []CountExact
<1>1. Counted => CountExact
    BY DEF Counted
<1>2. QED
    BY <1>1, InitCounted, NextCounted, PTL DEF Spec

\* Whoever has a name for the wrapper, the monitor included, has a wrapper that
\* is still there (keep_alive_monitor in managingPtr.h and otio_utils.cpp).
THEOREM NamesStayGood == Spec => []NamesAreGood
<1>1. Counted => NamesAreGood
    BY DEF Counted
<1>2. QED
    BY <1>1, InitCounted, NextCounted, PTL DEF Spec

\* No object that somebody holds is ever deleted: the container, a host thread or
\* a Python name for it is enough for it to be there.
THEOREM HeldIsAlive == Spec => [](stored \/ held # {} \/ named # {} => alive)
<1>1. Counted => (stored \/ held # {} \/ named # {} => alive)
    BY NamedIsCounted DEF Counted, NamesAreGood
<1>2. QED
    BY <1>1, InitCounted, NextCounted, PTL DEF Spec

--------------------------------------------------------------------------------
(* Nothing of an object is left over.  While the count is one and the monitor  *)
(* keeps the wrapper, or is about to, some thread is on its way to let it go:  *)
(* it has the GIL and saw the count at one, or it has yet to ask.              *)

\* Only the thread with the GIL is between asking for the count and acting on it.
OneActs == \A t \in Threads : pc[t] = "act" => gil = t

\* A wrapper is there because it is named, and the monitor is there for it.
WrapperHasUse == wrapper => installed /\ (keep \/ named # {})
CallsAreAnswered == \A t \in Threads : pc[t] \in {"notify", "act"} => installed

MayKeep == keep \/ \E t \in Threads : pc[t] = "act" /\ seen[t] > 1
Watches(t) == pc[t] = "notify" \/ (pc[t] = "act" /\ seen[t] <= 1)
Watched == refs = 1 /\ MayKeep => \E t \in Threads : Watches(t)

Guarded == OneActs /\ WrapperHasUse /\ CallsAreAnswered /\ Watched

LEMMA InitGuarded == Init => Guarded
    BY DEF Init, Guarded, OneActs, WrapperHasUse, CallsAreAnswered, Watched, MayKeep

\* What a Python thread does between two calls leaves the others where they are.
LEMMA RunningActsNot ==
    ASSUME TypeOK, OneActs, NEW t \in Pythons, gil = t, pc[t] = "idle"
    PROVE  \A u \in Threads : pc[u] # "act"
    BY DEF TypeOK, OneActs

LEMMA OneActsKept ==
    ASSUME TypeOK, OneActs, [Next]_vars
    PROVE  OneActs'
<1> USE DEF OneActs
<1>1. CASE UNCHANGED vars
    BY <1>1 DEF vars
<1>2. ASSUME NEW t \in Pythons,
             \/ TakeGil(t) \/ GiveGil(t) \/ Get(t) \/ Drop(t) \/ Store(t) \/ Unstore(t) \/ Dress(t)
             \/ \E h \in Hosts : Lend(t, h)
      PROVE  OneActs'
    <2>1. CASE TakeGil(t)
        BY <2>1, ThreadsAssumption DEF TakeGil, Threads
    <2>2. CASE GiveGil(t)
        BY <2>2, RunningActsNot DEF GiveGil, Running
    <2>3. CASE Get(t) \/ Drop(t) \/ Store(t) \/ Unstore(t)
        BY <2>3 DEF TypeOK, Threads, Get, Drop, Store, Unstore, Retained, Released
    <2>4. CASE Dress(t)
        BY <2>4 DEF TypeOK, Dress
    <2>5. CASE \E h \in Hosts : Lend(t, h)
        BY <2>5 DEF TypeOK, Lend, Retained
    <2>6. QED
        BY <1>2, <2>1, <2>2, <2>3, <2>4, <2>5
<1>3. ASSUME NEW h \in Hosts, Release(h) \/ \E g \in Hosts : Copy(h, g)
      PROVE  OneActs'
    BY <1>3 DEF TypeOK, Threads, Release, Released, Copy, Retained
<1>4. ASSUME NEW t \in Threads, Monitor(t) PROVE OneActs'
    <2>1. CASE Look(t)
        BY <2>1, ThreadsAssumption DEF TypeOK, Look, Threads
    <2>2. CASE Stray(t)
        BY <2>2 DEF TypeOK, Stray
    <2>3. CASE Bind(t)
        BY <2>3 DEF TypeOK, Bind, Return
    <2>4. CASE Unbind(t)
        BY <2>4 DEF TypeOK, Unbind, Released, Return
    <2>5. CASE LeaveAlone(t)
        BY <2>5 DEF TypeOK, LeaveAlone, Return
    <2>6. QED
        BY <1>4, <2>1, <2>2, <2>3, <2>4, <2>5 DEF Monitor
<1>5. QED
    BY <1>1, <1>2, <1>3, <1>4 DEF Next

LEMMA CallsAreAnsweredKept ==
    ASSUME TypeOK, CallsAreAnswered, [Next]_vars
    PROVE  CallsAreAnswered' /\ (installed => installed')
<1> USE DEF CallsAreAnswered
<1>1. CASE UNCHANGED vars
    BY <1>1 DEF vars
<1>2. ASSUME NEW t \in Pythons,
             \/ TakeGil(t) \/ GiveGil(t) \/ Get(t) \/ Drop(t) \/ Store(t) \/ Unstore(t) \/ Dress(t)
             \/ \E h \in Hosts : Lend(t, h)
      PROVE  CallsAreAnswered' /\ (installed => installed')
    <2>1. CASE TakeGil(t) \/ GiveGil(t) \/ Dress(t)
        BY <2>1 DEF TypeOK, TakeGil, GiveGil, Dress, object
    <2>2. CASE Get(t)
        BY <2>2 DEF TypeOK, Get, Retained
    <2>3. CASE Drop(t) \/ Store(t) \/ Unstore(t)
        BY <2>3 DEF TypeOK, Drop, Store, Unstore, Retained, Released
    <2>4. CASE \E h \in Hosts : Lend(t, h)
        BY <2>4 DEF TypeOK, Lend, Retained
    <2>5. QED
        BY <1>2, <2>1, <2>2, <2>3, <2>4
<1>3. ASSUME NEW h \in Hosts, Release(h) \/ \E g \in Hosts : Copy(h, g)
      PROVE  CallsAreAnswered' /\ (installed => installed')
    BY <1>3 DEF TypeOK, Release, Released, Copy, Retained
<1>4. ASSUME NEW t \in Threads, Monitor(t)
      PROVE  CallsAreAnswered' /\ (installed => installed')
    BY <1>4 DEF TypeOK, Monitor, Look, Stray, Bind, Unbind, Released, LeaveAlone, object
<1>5. QED
    BY <1>1, <1>2, <1>3, <1>4 DEF Next

LEMMA WrapperHasUseKept ==
    ASSUME TypeOK, CallsAreAnswered, WrapperHasUse, [Next]_vars
    PROVE  WrapperHasUse'
<1>1. installed => installed'
    BY CallsAreAnsweredKept
<1>2. CASE wrapper' = wrapper /\ keep' = keep /\ (named # {} => named' # {})
    BY <1>1, <1>2 DEF WrapperHasUse
<1>3. CASE wrapper' = FALSE
    BY <1>3 DEF WrapperHasUse
<1>4. CASE UNCHANGED vars
    BY <1>2, <1>4 DEF vars
<1>5. ASSUME NEW t \in Pythons,
             \/ TakeGil(t) \/ GiveGil(t) \/ Get(t) \/ Drop(t) \/ Store(t) \/ Unstore(t) \/ Dress(t)
             \/ \E h \in Hosts : Lend(t, h)
      PROVE  WrapperHasUse'
    <2>1. CASE TakeGil(t) \/ GiveGil(t) \/ Store(t) \/ Unstore(t) \/ Dress(t)
        BY <1>2, <2>1 DEF TakeGil, GiveGil, Store, Unstore, Dress, object, owners
    <2>2. CASE Get(t)
        <3>1. installed' /\ named' # {}
            <4>1. CASE wrapper
                BY <2>2, <4>1, <1>1 DEF WrapperHasUse, Get
            <4>2. CASE ~wrapper
                BY <2>2, <4>2 DEF Get
            <4>3. QED
                BY <4>1, <4>2
        <3>2. QED
            BY <3>1 DEF WrapperHasUse
    <2>3. CASE Drop(t)
        <3>1. CASE named = {t} /\ ~keep
            BY <1>3, <2>3, <3>1 DEF Drop
        <3>2. CASE named # {t} /\ ~keep
            <4>1. named' # {}
                BY <2>3, <3>2 DEF Drop
            <4>2. QED
                BY <1>2, <2>3, <3>2, <4>1 DEF Drop
        <3>3. CASE keep
            BY <1>1, <2>3, <3>3 DEF Drop, WrapperHasUse
        <3>4. QED
            BY <3>1, <3>2, <3>3
    <2>4. CASE \E h \in Hosts : Lend(t, h)
        BY <1>2, <2>4 DEF Lend
    <2>5. QED
        BY <1>5, <2>1, <2>2, <2>3, <2>4
<1>6. ASSUME NEW h \in Hosts, Release(h) \/ \E g \in Hosts : Copy(h, g)
      PROVE  WrapperHasUse'
    BY <1>2, <1>6 DEF Release, Copy
<1>7. ASSUME NEW t \in Threads, Monitor(t) PROVE WrapperHasUse'
    <2>1. CASE Look(t) \/ Stray(t) \/ LeaveAlone(t)
        BY <1>2, <2>1 DEF Look, Stray, LeaveAlone, object, owners
    <2>2. CASE Bind(t)
        <3>1. installed' /\ keep'
            BY <2>2 DEF Bind, CallsAreAnswered
        <3>2. QED
            BY <3>1 DEF WrapperHasUse
    <2>3. CASE Unbind(t)
        <3>1. CASE named = {}
            BY <1>3, <2>3, <3>1 DEF Unbind
        <3>2. CASE named # {}
            BY <1>1, <2>3, <3>2 DEF Unbind, WrapperHasUse, owners
        <3>3. QED
            BY <3>1, <3>2
    <2>4. QED
        BY <1>7, <2>1, <2>2, <2>3 DEF Monitor
<1>8. QED
    BY <1>4, <1>5, <1>6, <1>7 DEF Next

\* Where the monitor is no nearer to keeping the wrapper, and who watched still does.
LEMMA StillWatched ==
    ASSUME Watched, refs' = refs, MayKeep' => MayKeep,
           \A u \in Threads : Watches(u) => Watches(u)'
    PROVE  Watched'
    BY DEF Watched

\* A retained object has a count above one.
LEMMA RetainedWatched ==
    ASSUME Counted, alive, refs' = refs + 1
    PROVE  Watched'
<1>1. refs > 0 /\ refs \in Nat
    <2>1. alive <=> refs > 0
        BY DEF Counted, CountExact
    <2>2. QED
        BY <2>1 DEF Counted, TypeOK
<1>2. refs' # 1
    BY <1>1
<1>3. QED
    BY <1>2 DEF Watched

\* Who brings the count back to one calls the monitor.
LEMMA ReleasedWatched ==
    ASSUME Counted, CallsAreAnswered, WrapperHasUse, NEW t \in Threads, Released(t),
           MayKeep' => MayKeep
    PROVE  Watched'
<1>1. SUFFICES ASSUME refs' = 1, MayKeep PROVE Watches(t)'
    BY DEF Watched
<1>2. installed
    <2>1. CASE keep
        BY <2>1 DEF Counted, NamesAreGood, WrapperHasUse
    <2>2. CASE \E u \in Threads : pc[u] = "act" /\ seen[u] > 1
        BY <2>2 DEF CallsAreAnswered
    <2>3. QED
        BY <1>1, <2>1, <2>2 DEF MayKeep
<1>3. refs = 2
    BY <1>1 DEF Counted, TypeOK, Released
<1>4. pc'[t] = "notify"
    BY <1>2, <1>3 DEF Counted, TypeOK, Released
<1>5. QED
    BY <1>4 DEF Watches

LEMMA WatchedKept ==
    ASSUME Counted, Guarded, [Next]_vars
    PROVE  Watched'
<1> USE DEF Guarded
<1>1. CASE UNCHANGED vars
    <2>1. MayKeep' => MayKeep
        BY <1>1 DEF vars, MayKeep
    <2>2. \A u \in Threads : Watches(u) => Watches(u)'
        BY <1>1 DEF vars, Watches
    <2>3. QED
        BY <1>1, <2>1, <2>2, StillWatched DEF vars
<1>2. ASSUME NEW t \in Pythons, TakeGil(t) \/ GiveGil(t) \/ Dress(t) PROVE Watched'
    <2>1. MayKeep' => MayKeep
        BY <1>2 DEF TakeGil, GiveGil, Dress, object, Counted, TypeOK, MayKeep
    <2>2. \A u \in Threads : Watches(u) => Watches(u)'
        BY <1>2 DEF TakeGil, GiveGil, Dress, Counted, TypeOK, Watches
    <2>3. QED
        BY <1>2, <2>1, <2>2, StillWatched DEF TakeGil, GiveGil, Dress, object
<1>3. ASSUME NEW t \in Pythons, Get(t) PROVE Watched'
    <2>1. CASE wrapper
        <3>1. MayKeep' => MayKeep
            BY <1>3, <2>1 DEF Get, MayKeep
        <3>2. \A u \in Threads : Watches(u) => Watches(u)'
            BY <1>3, <2>1 DEF Get, Watches
        <3>3. QED
            BY <1>3, <2>1, <3>1, <3>2, StillWatched DEF Get
    <2>2. CASE ~wrapper
        BY <1>3, <2>2, NamedIsCounted, RetainedWatched DEF Get, Retained
    <2>3. QED
        BY <2>1, <2>2
<1>4. ASSUME NEW t \in Pythons, Store(t) \/ \E h \in Hosts : Lend(t, h) PROVE Watched'
    <2>1. wrapper
        BY <1>4 DEF Store, Lend, Counted, NamesAreGood
    <2>2. QED
        BY <1>4, <2>1, NamedIsCounted, RetainedWatched DEF Store, Lend, Retained
<1>5. ASSUME NEW h \in Hosts, NEW g \in Hosts, Copy(h, g) PROVE Watched'
    BY <1>5, NamedIsCounted, RetainedWatched DEF Copy, Retained
<1>6. ASSUME NEW t \in Threads, Released(t), keep' = keep, seen' = seen PROVE Watched'
    <2>1. MayKeep' => MayKeep
        BY <1>6 DEF Released, Counted, TypeOK, MayKeep
    <2>2. QED
        BY <1>6, <2>1, ReleasedWatched
<1>7. ASSUME NEW t \in Pythons, Drop(t) PROVE Watched'
    <2>1. CASE named = {t} /\ ~keep
        BY <1>6, <1>7, <2>1 DEF Drop, Threads
    <2>2. CASE ~(named = {t} /\ ~keep)
        <3>1. MayKeep' => MayKeep
            BY <1>7, <2>2 DEF Drop, MayKeep
        <3>2. \A u \in Threads : Watches(u) => Watches(u)'
            BY <1>7, <2>2 DEF Drop, Watches
        <3>3. QED
            BY <1>7, <2>2, <3>1, <3>2, StillWatched DEF Drop
    <2>3. QED
        BY <2>1, <2>2
<1>8. ASSUME NEW t \in Threads, Unstore(t) \/ (t \in Hosts /\ Release(t)) PROVE Watched'
    BY <1>6, <1>8 DEF Unstore, Release
<1>9. ASSUME NEW t \in Threads, Look(t) PROVE Watched'
    <2>1. SUFFICES ASSUME refs' = 1, MayKeep' PROVE \E u \in Threads : Watches(u)'
        BY DEF Watched
    <2>2. refs = 1
        BY <1>9, <2>1 DEF Look, object
    <2>3. pc'[t] = "act" /\ seen'[t] = 1
        BY <1>9, <2>2 DEF Look, Counted, TypeOK
    <2>4. Watches(t)'
        BY <2>3 DEF Watches
    <2>5. QED
        BY <2>4
<1>10. ASSUME NEW t \in Threads, Stray(t) PROVE Watched'
    <2>1. refs' # 1
        <3>1. refs' = refs /\ ~alive
            BY <1>10 DEF Stray, object
        <3>2. ~(refs > 0)
            BY <3>1 DEF Counted, CountExact
        <3>3. QED
            BY <3>1, <3>2
    <2>2. QED
        BY <2>1 DEF Watched
<1>11. ASSUME NEW t \in Threads, pc[t] = "act", pc' = [pc EXCEPT ![t] = "idle"], seen' = seen
       PROVE  /\ \A u \in Threads : pc'[u] # "act"
              /\ \A u \in Threads : Watches(u) /\ u # t => Watches(u)'
    BY <1>11 DEF Counted, TypeOK, OneActs, Watches
<1>12. ASSUME NEW t \in Threads, Bind(t) PROVE Watched'
    <2>1. SUFFICES ASSUME refs' = 1 PROVE \E u \in Threads : Watches(u)'
        BY DEF Watched
    <2>2. refs = 1
        <3>1. alive /\ refs' \in {refs, refs + 1}
            BY <1>12 DEF Bind
        <3>2. alive <=> refs > 0
            BY DEF Counted, CountExact
        <3>3. refs \in Nat /\ refs > 0
            BY <3>1, <3>2 DEF Counted, TypeOK
        <3>4. QED
            BY <2>1, <3>1, <3>3
    <2>3. MayKeep /\ ~Watches(t)
        BY <1>12 DEF Bind, MayKeep, Watches, Counted, TypeOK
    <2>4. PICK u \in Threads : Watches(u)
        BY <2>2, <2>3 DEF Watched
    <2>5. QED
        BY <1>11, <1>12, <2>3, <2>4 DEF Bind
<1>13. ASSUME NEW t \in Threads, Unbind(t) PROVE Watched'
    <2>1. ~MayKeep'
        BY <1>13 DEF Unbind, Released, MayKeep, Counted, TypeOK, OneActs
    <2>2. QED
        BY <2>1 DEF Watched
<1>14. ASSUME NEW t \in Threads, LeaveAlone(t) PROVE Watched'
    <2>1. SUFFICES ASSUME refs' = 1, MayKeep' PROVE \E u \in Threads : Watches(u)'
        BY DEF Watched
    <2>2. refs = 1 /\ keep /\ seen[t] > 1
        BY <1>11, <1>14, <2>1 DEF LeaveAlone, MayKeep, object
    <2>3. MayKeep /\ ~Watches(t)
        BY <1>14, <2>2 DEF LeaveAlone, MayKeep, Watches, Counted, TypeOK
    <2>4. PICK u \in Threads : Watches(u)
        BY <2>2, <2>3 DEF Watched
    <2>5. QED
        BY <1>11, <1>14, <2>3, <2>4 DEF LeaveAlone
<1>15. QED
    BY <1>1, <1>2, <1>3, <1>4, <1>5, <1>7, <1>8, <1>9, <1>10, <1>12, <1>13, <1>14
       DEF Next, Monitor, Threads

\* When no thread is in a call and nobody names, stores or holds the object, it
\* is gone: the monitor and the wrapper do not keep each other (the release of
\* the monitor's reference in KeepaliveMonitor::monitor, otio_utils.cpp).
THEOREM NothingLeaks == Spec => []NoLeak
<1>1. Init => Counted /\ Guarded
    BY InitCounted, InitGuarded
<1>2. Counted /\ Guarded /\ [Next]_vars => Counted' /\ Guarded'
    BY NextCounted, OneActsKept, CallsAreAnsweredKept, WrapperHasUseKept, WatchedKept
       DEF Counted, Guarded
<1>3. Counted /\ Guarded => NoLeak
    <2>1. SUFFICES ASSUME Counted, Guarded, Quiet, ~stored, held = {}, named = {}, alive
                   PROVE  FALSE
        BY DEF NoLeak
    <2>2. Count(stored) = 0 /\ Cardinality(held) = 0
        BY <2>1, Counts, FS_EmptySet
    <2>3. refs > 0 /\ refs = Count(wrapper)
        <3>1. refs > 0
            BY <2>1 DEF Counted, CountExact
        <3>2. Count(wrapper) \in {0, 1}
            BY Counts
        <3>3. QED
            BY <2>1, <2>2, <3>1, <3>2 DEF Counted, CountExact
    <2>4. refs = 1 /\ wrapper
        <3>1. Count(wrapper) \in {0, 1}
            BY Counts
        <3>2. refs = 1 /\ Count(wrapper) # 0
            BY <2>3, <3>1
        <3>3. QED
            BY <3>2, Counts
    <2>5. keep
        BY <2>1, <2>4 DEF Guarded, WrapperHasUse
    <2>6. PICK t \in Threads : Watches(t)
        BY <2>1, <2>4, <2>5 DEF Guarded, Watched, MayKeep
    <2>7. QED
        BY <2>1, <2>6 DEF Quiet, Watches
<1>4. QED
    BY <1>1, <1>2, <1>3, PTL DEF Spec

--------------------------------------------------------------------------------
(* Attributes that Python set are not lost while C++ holds the object.  A      *)
(* dressed wrapper that only Python keeps, of an object that others hold too,  *)
(* is about to be kept by the monitor; the thread on its way has the GIL, so    *)
(* that no Python thread can drop the wrapper before.                          *)

Binds(t) == gil = t /\ (pc[t] = "notify" \/ (pc[t] = "act" /\ seen[t] > 1))
Slipping == dressed /\ ~keep /\ refs > 1
DressedIsKept == (dressed => wrapper) /\ (Slipping => \E t \in Threads : Binds(t))

\* A monitor that saw the wrapper to be the only owner is still right when it acts:
\* whoever could add an owner needs the GIL, or is an owner.
LowIsLow == \A t \in Threads : pc[t] = "act" /\ seen[t] <= 1 /\ wrapper => refs <= 1

Dressing == DressedIsKept /\ LowIsLow

LEMMA InitDressing == Init => Dressing
    BY DEF Init, Dressing, DressedIsKept, Slipping, LowIsLow

\* Where somebody else holds the object too, the wrapper is not its only owner.
LEMMA SharedIsMore ==
    ASSUME Counted, wrapper
    PROVE  /\ refs > 0 /\ refs \in Nat
           /\ stored \/ held # {} => refs > 1
<1>1. Count(wrapper) = 1 /\ (stored => Count(stored) = 1) /\ Count(stored) \in {0, 1}
    BY Counts
<1>2. Cardinality(held) \in Nat /\ (held # {} => Cardinality(held) > 0)
    BY HostsCounted, OneHostLess DEF Counted, TypeOK
<1>3. refs = Count(wrapper) + Count(stored) + Cardinality(held) /\ refs \in Nat
    BY DEF Counted, CountExact, TypeOK
<1>4. QED
    BY <1>1, <1>2, <1>3

\* While a Python thread is between two calls, the monitor owes the wrapper nothing.
LEMMA RunningSlipsNot ==
    ASSUME DressedIsKept, NEW t \in Pythons, Running(t)
    PROVE  ~Slipping
    BY DEF DressedIsKept, Running, Binds

\* No other Python thread or monitor is at work: nobody acts on an old count.
LEMMA RunningIsLow ==
    ASSUME Counted, OneActs, NEW t \in Pythons, Running(t),
           \A u \in Threads : pc'[u] = "act" => pc[u] = "act"
    PROVE  LowIsLow'
    BY RunningActsNot DEF Counted, LowIsLow, Running

LEMMA PythonDressing ==
    ASSUME Counted, Guarded, Dressing, NEW t \in Pythons,
           \/ TakeGil(t) \/ GiveGil(t) \/ Get(t) \/ Drop(t) \/ Store(t) \/ Unstore(t) \/ Dress(t)
           \/ \E h \in Hosts : Lend(t, h)
    PROVE  Dressing'
<1> USE DEF Dressing, Guarded
<1>0. TypeOK /\ t \in Threads
    BY DEF Counted, Threads
<1>1. CASE TakeGil(t)
    <2>1. ~Slipping /\ Slipping' = Slipping
        BY <1>1, ThreadsAssumption DEF TakeGil, object, Slipping, DressedIsKept, Binds, Threads
    <2>2. QED
        BY <1>1, <2>1 DEF TakeGil, object, DressedIsKept, LowIsLow
<1>2. CASE GiveGil(t)
    <2>1. ~Slipping /\ Slipping' = Slipping
        BY <1>2, RunningSlipsNot DEF GiveGil, object, Slipping
    <2>2. QED
        BY <1>2, <2>1 DEF GiveGil, object, DressedIsKept, LowIsLow
<1>3. CASE Get(t)
    <2>1. LowIsLow'
        BY <1>0, <1>3, RunningIsLow DEF Get, Retained, TypeOK
    <2>2. ~Slipping
        BY <1>3, RunningSlipsNot DEF Get
    <2>3. DressedIsKept'
        BY <1>3, <2>2 DEF Get, DressedIsKept, Slipping
    <2>4. QED
        BY <2>1, <2>3
<1>4. CASE Drop(t)
    <2>1. LowIsLow'
        BY <1>0, <1>4, RunningIsLow DEF Drop, Released, TypeOK
    <2>2. ~Slipping
        BY <1>4, RunningSlipsNot DEF Drop
    <2>3. DressedIsKept'
        BY <1>4, <2>2 DEF Drop, DressedIsKept, Slipping
    <2>4. QED
        BY <2>1, <2>3
<1>5. ASSUME Store(t) \/ \E h \in Hosts : Lend(t, h) PROVE Dressing'
    <2>1. /\ Running(t) /\ Retained(t)
          /\ UNCHANGED <<installed, wrapper, keep, dressed, gil>>
        BY <1>5 DEF Store, Lend
    <2>2. LowIsLow'
        BY <1>0, <2>1, RunningIsLow DEF Retained, TypeOK
    <2>3. ASSUME Slipping' PROVE Binds(t)'
        <3>1. wrapper /\ installed
            BY <2>1, <2>3 DEF Slipping, DressedIsKept, WrapperHasUse
        <3>2. refs > 0 /\ refs \in Nat /\ ~(refs > 1)
            BY <2>1, <2>3, <3>1, SharedIsMore, RunningSlipsNot DEF Slipping
        <3>3. refs = 1
            BY <3>2
        <3>4. QED
            BY <1>0, <2>1, <3>1, <3>3 DEF Retained, Running, Binds, TypeOK
    <2>4. DressedIsKept'
        BY <1>0, <2>1, <2>3 DEF DressedIsKept
    <2>5. QED
        BY <2>2, <2>4
<1>6. CASE Unstore(t)
    <2>1. LowIsLow'
        BY <1>0, <1>6, RunningIsLow DEF Unstore, Released, TypeOK
    <2>2. ~Slipping
        BY <1>6, RunningSlipsNot DEF Unstore
    <2>3. ~Slipping'
        BY <1>0, <1>6, <2>2 DEF Unstore, Released, Slipping, TypeOK
    <2>4. QED
        BY <1>6, <2>1, <2>3 DEF Unstore, DressedIsKept
<1>7. CASE Dress(t)
    <2>1. LowIsLow'
        BY <1>0, <1>7, RunningIsLow DEF Dress, TypeOK
    <2>2. wrapper'
        BY <1>7 DEF Dress, Counted, NamesAreGood
    <2>3. Binds(t)'
        BY <1>0, <1>7 DEF Dress, Running, Binds, TypeOK
    <2>4. QED
        BY <1>0, <2>1, <2>2, <2>3 DEF DressedIsKept
<1>8. QED
    BY <1>1, <1>2, <1>3, <1>4, <1>5, <1>6, <1>7

LEMMA HostDressing ==
    ASSUME Counted, Guarded, Dressing, NEW h \in Hosts,
           Release(h) \/ \E g \in Hosts : Copy(h, g)
    PROVE  Dressing'
<1> USE DEF Dressing, Guarded
<1>0. TypeOK /\ h \in Threads
    BY DEF Counted, Threads
<1>1. /\ pc[h] = "idle" /\ pc'[h] # "act"
      /\ \A u \in Threads : u # h => pc'[u] = pc[u]
      /\ UNCHANGED <<wrapper, keep, dressed, gil, seen>>
    BY <1>0 DEF Release, Copy, Released, Retained, TypeOK
<1>2. wrapper => refs > 1 \/ ~(refs' > refs)
    <2>1. CASE Release(h)
        BY <1>0, <2>1 DEF Release, Released, TypeOK
    <2>2. CASE \E g \in Hosts : Copy(h, g)
        BY <2>2, SharedIsMore DEF Copy
    <2>3. QED
        BY <2>1, <2>2
<1>3. refs \in Nat /\ refs' \in Int
    BY <1>0 DEF TypeOK, Release, Copy, Released, Retained
<1>4. ASSUME Slipping' PROVE \E u \in Threads : Binds(u)'
    <2>1. Slipping
        BY <1>1, <1>2, <1>3, <1>4 DEF Slipping, DressedIsKept
    <2>2. PICK u \in Threads : Binds(u)
        BY <2>1 DEF DressedIsKept
    <2>3. QED
        BY <1>1, <2>2 DEF Binds
<1>5. ASSUME NEW u \in Threads, pc'[u] = "act", seen'[u] <= 1, wrapper' PROVE refs' <= 1
    <2>1. pc[u] = "act" /\ seen[u] <= 1 /\ wrapper
        BY <1>1, <1>5
    <2>2. refs <= 1
        BY <2>1 DEF LowIsLow
    <2>3. QED
        BY <1>2, <1>3, <2>1, <2>2
<1>6. QED
    BY <1>1, <1>4, <1>5 DEF DressedIsKept, LowIsLow

LEMMA MonitorDressing ==
    ASSUME Counted, Guarded, Dressing, NEW t \in Threads, Monitor(t)
    PROVE  Dressing'
<1> USE DEF Dressing, Guarded
<1>0. TypeOK
    BY DEF Counted
<1>1. CASE Look(t)
    <2>1. UNCHANGED <<refs, wrapper, keep, dressed>>
        BY <1>1 DEF Look, object
    <2>2. LowIsLow'
        BY <1>0, <1>1, <2>1 DEF Look, LowIsLow, TypeOK
    <2>3. ASSUME Slipping' PROVE Binds(t)'
        BY <1>0, <1>1, <2>1, <2>3 DEF Look, Slipping, Binds, TypeOK
    <2>4. QED
        BY <2>1, <2>2, <2>3 DEF DressedIsKept
<1>2. CASE Stray(t)
    <2>1. UNCHANGED <<refs, wrapper, keep, dressed, seen>> /\ ~(refs > 0)
        BY <1>2 DEF Stray, object, Counted, CountExact
    <2>2. ~Slipping'
        BY <1>0, <2>1 DEF Slipping, TypeOK
    <2>3. LowIsLow'
        BY <1>0, <2>1 DEF LowIsLow, TypeOK
    <2>4. QED
        BY <2>1, <2>2, <2>3 DEF DressedIsKept
<1>3. ASSUME pc[t] = "act", pc'[t] # "act", \A u \in Threads : u # t => pc'[u] = pc[u]
      PROVE  LowIsLow'
    BY <1>3 DEF OneActs, LowIsLow
<1>4. CASE Bind(t)
    <2>1. LowIsLow'
        BY <1>0, <1>3, <1>4 DEF Bind, TypeOK
    <2>2. keep' /\ wrapper'
        BY <1>4 DEF Bind
    <2>3. QED
        BY <2>1, <2>2 DEF DressedIsKept, Slipping
<1>5. CASE Unbind(t)
    <2>1. LowIsLow'
        BY <1>0, <1>3, <1>5 DEF Unbind, Released, TypeOK
    <2>2. CASE named = {}
        BY <1>5, <2>1, <2>2 DEF Unbind, DressedIsKept, Slipping
    <2>3. CASE named # {}
        <3>1. wrapper /\ UNCHANGED <<refs, wrapper, dressed>>
            BY <1>5, <2>3 DEF Unbind, Counted, NamesAreGood
        <3>2. refs <= 1
            BY <1>5, <3>1 DEF Unbind, LowIsLow
        <3>3. ~Slipping'
            BY <1>0, <3>1, <3>2 DEF Slipping, TypeOK
        <3>4. QED
            BY <2>1, <3>1, <3>3 DEF DressedIsKept
    <2>4. QED
        BY <2>2, <2>3
<1>6. CASE LeaveAlone(t)
    <2>1. LowIsLow'
        BY <1>0, <1>3, <1>6 DEF LeaveAlone, TypeOK
    <2>2. UNCHANGED <<refs, wrapper, keep, dressed>>
        BY <1>6 DEF LeaveAlone, object
    <2>3. ~Slipping
        BY <1>6 DEF LeaveAlone, DressedIsKept, Slipping, Binds, OneActs
    <2>4. QED
        BY <2>1, <2>2, <2>3 DEF DressedIsKept, Slipping
<1>7. QED
    BY <1>1, <1>2, <1>4, <1>5, <1>6 DEF Monitor

LEMMA NextDressing ==
    ASSUME Counted, Guarded, Dressing, [Next]_vars
    PROVE  Dressing'
<1>1. CASE UNCHANGED vars
    BY <1>1 DEF vars, Dressing, DressedIsKept, Slipping, Binds, LowIsLow
<1>2. QED
    BY <1>1, PythonDressing, HostDressing, MonitorDressing DEF Next

\* When a dressed wrapper dies, neither the container nor a host holds the object:
\* C++ gives out again the wrapper that has the attributes (__setattr__ in
\* _core_utils.py calls the monitor, and the monitor keeps the wrapper).
THEOREM DressedLasts == Spec => AttributesLast
<1> DEFINE Lasts == dressed /\ ~dressed' => ~stored' /\ held' = {}
<1>1. Init => Counted /\ Guarded /\ Dressing
    BY InitCounted, InitGuarded, InitDressing
<1>2. Counted /\ Guarded /\ Dressing /\ [Next]_vars => Counted' /\ Guarded' /\ Dressing'
    BY NextCounted, OneActsKept, CallsAreAnsweredKept, WrapperHasUseKept, WatchedKept,
       NextDressing DEF Counted, Guarded
<1>3. Counted /\ Guarded /\ Dressing /\ [Next]_vars => [Lasts]_vars
    <2>1. SUFFICES ASSUME Counted, Guarded, Dressing, Next, dressed, ~dressed'
                   PROVE  ~stored' /\ held' = {}
        BY DEF vars
    <2>2. refs <= 1 => ~stored /\ held = {}
        BY <2>1, SharedIsMore DEF Dressing, DressedIsKept, Counted, TypeOK
    <2>3. ASSUME NEW t \in Pythons, Drop(t) PROVE ~stored' /\ held' = {}
        <3>1. ~keep /\ ~Slipping /\ UNCHANGED <<stored, held>>
            BY <2>1, <2>3, RunningSlipsNot DEF Drop, Dressing
        <3>2. refs <= 1
            BY <2>1, <3>1 DEF Slipping, Counted, TypeOK
        <3>3. QED
            BY <2>2, <3>1, <3>2
    <2>4. ASSUME NEW t \in Threads, Unbind(t) PROVE ~stored' /\ held' = {}
        BY <2>1, <2>2, <2>4 DEF Unbind, owners, Dressing, DressedIsKept, LowIsLow
    <2>5. QED
        BY <2>1, <2>3, <2>4 DEF Next, TakeGil, GiveGil, Get, Store, Unstore, Dress, Lend,
           Release, Copy, Monitor, Look, Stray, Bind, LeaveAlone, object
<1>4. QED
    BY <1>1, <1>2, <1>3, PTL DEF Spec, AttributesLast

================================================================================
